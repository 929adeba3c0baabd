-------------------------- MODULE MapBounded_proofs --------------------------
(***************************************************************************)
(* Proofs about the bounded fan-out, for any number of items and any limit:  *)
(* no slot and no result is lost or doubled, and nothing outlives the        *)
(* iterator.                                                                *)
(***************************************************************************)
EXTENDS MapBounded, TLAPS, FiniteSetTheorems

(* The tasks the generator still has to do with: in a slot, or in batch.     *)
Watched == With({"running", "done", "raised", "cancelling"})

(* The finally block has been entered.                                       *)
Closing == pc \in {"finally", "ended"}

(* The iterator hands the items out in order, and each of them once.         *)
ItemsInOrder == \A i \in Items : task[i] = "new" <=> i >= source

(* What a wait returned is done, and the loop runs while some of it is left. *)
BatchIsDone ==
  /\ \A i \in batch : task[i] \in {"done", "raised"}
  /\ pc = "loop" => batch # {}
  /\ pc \in {"wait", "finally", "ended"} => batch = {}

(* A slot is in use from the start of a task to the moment its result was    *)
(* taken; a slot is empty only when no item is left to fill it.              *)
SlotsFilled ==
  /\ Cardinality(Watched) <= Limit
  /\ (source <= N /\ ~Closing) => Cardinality(Watched) = Limit

(* Nothing is cancelled before the finally block, and that is entered only   *)
(* when the consumer stopped or a worker raised.                             *)
CancelledInFinally ==
  /\ ~Closing => With({"cancelling", "cancelled"}) = {}
  /\ pc = "dropped" => stopped
  /\ pc = "finally" => stopped \/ With({"raised"}) # {}
  /\ pc = "ended" =>
       \/ stopped \/ With({"raised"}) # {}
       \/ source > N /\ Watched = {} /\ With({"cancelled"}) = {}

(* A result that was taken was yielded, or is buffered until its turn.       *)
TakenIsYielded ==
  /\ \A k \in DOMAIN out : task[out[k]] = "taken" /\ out[k] \notin held
  /\ \A i \in held : task[i] = "taken"
  /\ \A i \in Items : task[i] = "taken" => i \in held \/ \E k \in DOMAIN out : out[k] = i
  /\ ~ordered => held = {} /\ pc # "drain"

(* The inductive invariant.                                                  *)
IInv ==
  /\ MBTypeOK
  /\ ItemsInOrder
  /\ BatchIsDone
  /\ SlotsFilled
  /\ CancelledInFinally
  /\ TakenIsYielded
  /\ NothingOutlives
  /\ AllDelivered

(***************************************************************************)
(* Lemmas                                                                  *)
(***************************************************************************)

(* There are finitely many items.                                            *)
LEMMA WatchedIsFinite ==
  /\ IsFiniteSet(Items) /\ Cardinality(Items) = N
  /\ \A S \in SUBSET Items : IsFiniteSet(S) /\ Cardinality(S) \in Nat /\ Cardinality(S) <= N
<1>1. IsFiniteSet(Items) /\ Cardinality(Items) = N
  BY FS_Interval, MapBoundedAssumption DEF Items
<1>2. ASSUME NEW S \in SUBSET Items
      PROVE  IsFiniteSet(S) /\ Cardinality(S) \in Nat /\ Cardinality(S) <= N
  BY <1>1, FS_Subset, FS_CardinalityType
<1> QED
  BY <1>1, <1>2

(* The finally block cancels what runs and watches the rest as before.       *)
LEMMA CancelAllEffect ==
  ASSUME MBTypeOK, BatchIsDone, task' = CancelAll(task)
  PROVE  /\ task' \in [Items -> {"new", "running", "done", "raised", "taken",
                                  "cancelling", "cancelled"}]
         /\ \A i \in Items : task'[i] = IF task[i] = "running" THEN "cancelling" ELSE task[i]
         /\ With({"running"})' = {}
         /\ Watched' = Watched
<1>1. \A i \in Items : task[i] = "running" => i \in Pending
  BY DEF MBTypeOK, BatchIsDone, Pending, With
<1>2. \A i \in Items : task'[i] = IF task[i] = "running" THEN "cancelling" ELSE task[i]
  BY <1>1 DEF CancelAll
<1>3. task' \in [Items -> {"new", "running", "done", "raised", "taken",
                           "cancelling", "cancelled"}]
  BY DEF CancelAll, MBTypeOK
<1> QED
  BY <1>2, <1>3 DEF Watched, With, MBTypeOK

(* Taking a result frees a slot and spawn() fills it if an item is left.     *)
LEMMA TakeKeepsSlots ==
  ASSUME IInv, NEW i \in Items, Take(i)
  PROVE  SlotsFilled' /\ ItemsInOrder' /\ task' \in [Items -> {"new", "running", "done",
                               "raised", "taken", "cancelling", "cancelled"}]
         /\ source' \in 1..(N + 1)
         /\ \A j \in Items : task'[j] = IF j = source THEN "running"
                                        ELSE IF j = i THEN "taken" ELSE task[j]
<1> USE MapBoundedAssumption
<1>1. /\ task \in [Items -> {"new", "running", "done", "raised", "taken",
                             "cancelling", "cancelled"}]
      /\ source \in 1..(N + 1) /\ task[i] = "done" /\ i # source
      /\ i \in Watched /\ source \notin Watched
      /\ ~Closing
  BY DEF IInv, MBTypeOK, ItemsInOrder, Take, Watched, With, Closing
<1>2. \A j \in Items : task'[j] = IF j = source THEN "running"
                                 ELSE IF j = i THEN "taken" ELSE task[j]
  BY <1>1 DEF Take, Spawned, Items
<1>3. /\ task' \in [Items -> {"new", "running", "done", "raised", "taken",
                              "cancelling", "cancelled"}]
      /\ source' \in 1..(N + 1) /\ source' = IF source <= N THEN source + 1 ELSE source
  BY <1>1 DEF Take, Spawned, Items
<1>4. ItemsInOrder'
  BY <1>1, <1>2, <1>3 DEF IInv, ItemsInOrder, Items
<1>5. Watched' = IF source <= N THEN (Watched \ {i}) \union {source} ELSE Watched \ {i}
  <2>1. \A j \in Items : j \in Watched' <=> j = source \/ (j # i /\ j \in Watched)
    BY <1>1, <1>2, <1>3 DEF Watched, With
  <2>2. Watched \subseteq Items /\ Watched' \subseteq Items /\ (source \in Items <=> source <= N)
    BY <1>1 DEF Watched, With, Items
  <2> QED
    BY <2>1, <2>2, <1>1
<1>6. IsFiniteSet(Watched) /\ Cardinality(Watched) \in Nat
  BY WatchedIsFinite DEF Watched, With
<1>7. IsFiniteSet(Watched \ {i}) /\ Cardinality(Watched \ {i}) = Cardinality(Watched) - 1
  BY <1>1, <1>6, FS_RemoveElement
<1>8. source <= N => Cardinality(Watched') = Cardinality(Watched)
  <2>1. source \notin Watched \ {i}
    BY <1>1
  <2>2. Cardinality((Watched \ {i}) \union {source}) = Cardinality(Watched \ {i}) + 1
    BY <2>1, <1>7, FS_AddElement
  <2> QED
    BY <2>2, <1>5, <1>6, <1>7
<1>9. SlotsFilled'
  BY <1>1, <1>3, <1>5, <1>6, <1>7, <1>8 DEF IInv, SlotsFilled
<1> QED
  BY <1>2, <1>3, <1>4, <1>9

(***************************************************************************)
(* The inductive invariant                                                 *)
(***************************************************************************)

(* The first Limit items are spawned before the first wait.                  *)
LEMMA InitIInv == MBInit => IInv
<1> SUFFICES ASSUME MBInit PROVE IInv
  OBVIOUS
<1> USE MapBoundedAssumption
<1>1. MBTypeOK /\ BatchIsDone
  <2>1. out \in Seq(Items) /\ source \in 1..(N + 1)
    BY DEF MBInit
  <2> QED
    BY <2>1 DEF MBInit, MBTypeOK, BatchIsDone
<1>0. ItemsInOrder
  BY DEF MBInit, ItemsInOrder, Items
<1>2. Watched = IF Limit < N THEN 1..Limit ELSE Items
  BY DEF MBInit, Watched, With, Items
<1>3. Cardinality(Watched) = IF Limit < N THEN Limit ELSE N
  <2>1. Cardinality(1..Limit) = Limit
    BY FS_Interval
  <2> QED
    BY <1>2, <2>1, WatchedIsFinite
<1>4. SlotsFilled
  BY <1>3 DEF MBInit, SlotsFilled, Closing
<1>5. CancelledInFinally /\ TakenIsYielded /\ NothingOutlives /\ AllDelivered
  BY <1>2 DEF MBInit, CancelledInFinally, TakenIsYielded, NothingOutlives, AllDelivered,
              InFlight, Watched, With, Items, Closing
<1> QED
  BY <1>0, <1>1, <1>4, <1>5 DEF IInv

(* A worker that ends, raises or unwinds stays in its slot or leaves it for  *)
(* good, and touches nothing else.                                           *)
LEMMA WorkerKeepsIInv ==
  ASSUME IInv, NEW i \in Items, Finish(i) \/ Raise(i) \/ Unwind(i)
  PROVE  IInv'
<1> USE MapBoundedAssumption
<1>1. /\ UNCHANGED <<ordered, source, batch, held, out, pc, stopped>>
      /\ task[i] \in {"running", "cancelling"}
      /\ \E s \in {"done", "raised", "cancelled"} :
           /\ task' = [task EXCEPT ![i] = s]
           /\ s = "cancelled" <=> task[i] = "cancelling"
      /\ pc \in {"wait", "yield", "finally", "dropped"}
  BY DEF Finish, Raise, Unwind, Suspended
<1>2. PICK s \in {"done", "raised", "cancelled"} :
        task' = [task EXCEPT ![i] = s] /\ (s = "cancelled" <=> task[i] = "cancelling")
  BY <1>1
<1>3. MBTypeOK'
  BY <1>1, <1>2 DEF IInv, MBTypeOK
<1>4. ItemsInOrder' /\ BatchIsDone'
  BY <1>1, <1>2 DEF IInv, MBTypeOK, ItemsInOrder, BatchIsDone
<1>5. Watched' = IF s = "cancelled" THEN Watched \ {i} ELSE Watched
  BY <1>1, <1>2 DEF IInv, MBTypeOK, Watched, With
<1>6. IsFiniteSet(Watched) /\ Cardinality(Watched) \in Nat
  BY WatchedIsFinite DEF Watched, With
<1>7. s = "cancelled" => pc = "finally"
  BY <1>1, <1>2 DEF IInv, CancelledInFinally, Closing, With
<1>8. SlotsFilled'
  <2>1. Cardinality(Watched \ {i}) <= Cardinality(Watched)
    BY <1>6, FS_Subset
  <2>2. Cardinality(Watched \ {i}) \in Nat
    BY <1>6, FS_Subset, FS_CardinalityType
  <2> QED
    BY <1>1, <1>5, <1>6, <1>7, <2>1, <2>2 DEF IInv, SlotsFilled, Closing
<1>9. CancelledInFinally'
  BY <1>1, <1>2, <1>7 DEF IInv, MBTypeOK, CancelledInFinally, Closing, With
<1>10. TakenIsYielded'
  BY <1>1, <1>2 DEF IInv, MBTypeOK, TakenIsYielded
<1>11. NothingOutlives' /\ AllDelivered'
  BY <1>1 DEF IInv, NothingOutlives, AllDelivered
<1> QED
  BY <1>3, <1>4, <1>8, <1>9, <1>10, <1>11 DEF IInv

(* Yielding the result of item i appends what is no duplicate.               *)
LEMMA YieldKeepsOut ==
  ASSUME MBTypeOK, NEW i \in Items, out' = Append(out, i),
         \A k \in DOMAIN out : out[k] # i,
         \A j, k \in DOMAIN out : out[j] = out[k] => j = k
  PROVE  /\ out' \in Seq(Items) /\ Len(out') = Len(out) + 1
         /\ DOMAIN out' = DOMAIN out \union {Len(out) + 1}
         /\ out'[Len(out) + 1] = i /\ \A k \in DOMAIN out : out'[k] = out[k]
         /\ \A j, k \in DOMAIN out' : out'[j] = out'[k] => j = k
<1>1. out \in Seq(Items) /\ Len(out) \in Nat /\ DOMAIN out = 1..Len(out)
  BY DEF MBTypeOK
<1>2. /\ out' \in Seq(Items) /\ Len(out') = Len(out) + 1
      /\ out'[Len(out) + 1] = i /\ \A k \in DOMAIN out : out'[k] = out[k]
  BY <1>1
<1>3. DOMAIN out' = DOMAIN out \union {Len(out) + 1}
  BY <1>1, <1>2
<1> QED
  BY <1>1, <1>2, <1>3

LEMMA WakeKeepsIInv ==
  ASSUME IInv, Wake
  PROVE  IInv'
<1>1. Watched' = Watched /\ Closing' = Closing /\ ~Closing
  BY DEF Wake, Watched, With, Closing
<1> QED
  BY <1>1 DEF IInv, Wake, MBTypeOK, ItemsInOrder, BatchIsDone, SlotsFilled, CancelledInFinally,
       TakenIsYielded, NothingOutlives, AllDelivered, Pending, With, Closing, InFlight

LEMMA TakeKeepsIInv ==
  ASSUME IInv, NEW i \in Items, Take(i)
  PROVE  IInv'
<1> USE MapBoundedAssumption
<1>1. /\ SlotsFilled' /\ ItemsInOrder'
      /\ task' \in [Items -> {"new", "running", "done",
                               "raised", "taken", "cancelling", "cancelled"}]
      /\ source' \in 1..(N + 1)
      /\ \A j \in Items : task'[j] = IF j = source THEN "running"
                                     ELSE IF j = i THEN "taken" ELSE task[j]
  BY TakeKeepsSlots
<1>2. /\ pc = "loop" /\ task[i] = "done" /\ i # source
      /\ source \in Items => task[source] = "new"
      /\ UNCHANGED <<ordered, stopped>> /\ batch' = batch \ {i}
      /\ IF ordered THEN held' = held \union {i} /\ pc' = "drain" /\ out' = out
                    ELSE out' = Append(out, i) /\ pc' = "yield" /\ held' = held
  BY DEF IInv, MBTypeOK, ItemsInOrder, Take, Offered
<1>3. \A k \in DOMAIN out : out[k] \in Items /\ out[k] # i
  BY <1>2 DEF IInv, MBTypeOK, TakenIsYielded
<1>4. ~ordered => /\ out' \in Seq(Items) /\ Len(out') = Len(out) + 1
                  /\ DOMAIN out' = DOMAIN out \union {Len(out) + 1}
                  /\ out'[Len(out) + 1] = i /\ \A k \in DOMAIN out : out'[k] = out[k]
                  /\ \A j, k \in DOMAIN out' : out'[j] = out'[k] => j = k
  BY <1>2, <1>3, YieldKeepsOut DEF IInv, AllDelivered
<1>5. MBTypeOK'
  BY <1>1, <1>2, <1>4 DEF IInv, MBTypeOK
<1>6. BatchIsDone'
  BY <1>1, <1>2 DEF IInv, MBTypeOK, ItemsInOrder, BatchIsDone
<1>7. CancelledInFinally'
  BY <1>1, <1>2 DEF IInv, MBTypeOK, CancelledInFinally, Closing, With
<1>8. TakenIsYielded'
  <2>1. \A k \in DOMAIN out : task'[out[k]] = "taken"
    BY <1>1, <1>2, <1>3 DEF IInv, TakenIsYielded
  <2>2. \A j \in held : task'[j] = "taken" /\ j # i
    BY <1>1, <1>2 DEF IInv, MBTypeOK, TakenIsYielded
  <2>3. CASE ordered
    BY <2>1, <2>2, <2>3, <1>1, <1>2, <1>3 DEF IInv, TakenIsYielded
  <2>4. CASE ~ordered
    <3>1. \A k \in DOMAIN out' : task'[out'[k]] = "taken" /\ out'[k] \notin held'
      BY <2>1, <2>4, <1>1, <1>2, <1>4 DEF IInv, TakenIsYielded
    <3>2. \A j \in Items : task'[j] = "taken" => \E k \in DOMAIN out' : out'[k] = j
      BY <2>4, <1>1, <1>2, <1>4 DEF IInv, TakenIsYielded
    <3> QED
      BY <3>1, <3>2, <2>2, <2>4, <1>2 DEF IInv, TakenIsYielded
  <2> QED
    BY <2>3, <2>4 DEF IInv, MBTypeOK
<1>9. NothingOutlives'
  BY <1>2 DEF NothingOutlives
<1>10. AllDelivered'
  BY <1>2, <1>4 DEF IInv, MBTypeOK, AllDelivered
<1> QED
  BY <1>1, <1>5, <1>6, <1>7, <1>8, <1>9, <1>10 DEF IInv

(* The three ways into the finally block.                                    *)
LEMMA CloseKeepsIInv ==
  ASSUME IInv, CancelWait \/ Finalize \/ \E i \in Items : TakeRaised(i)
  PROVE  IInv'
<1>1. /\ task' = CancelAll(task) /\ pc' = "finally" /\ batch' = {}
      /\ UNCHANGED <<ordered, source, held, out>>
      /\ stopped' \in BOOLEAN
      /\ stopped' \/ \E i \in Items : task[i] = "raised"
      /\ ~Closing
  BY DEF IInv, MBTypeOK, BatchIsDone, CancelledInFinally, CancelWait, Finalize, TakeRaised, Closing
<1>2. /\ task' \in [Items -> {"new", "running", "done", "raised", "taken",
                              "cancelling", "cancelled"}]
      /\ \A i \in Items : task'[i] = IF task[i] = "running" THEN "cancelling" ELSE task[i]
      /\ Watched' = Watched
  BY <1>1, CancelAllEffect DEF IInv
<1>3. MBTypeOK' /\ ItemsInOrder' /\ BatchIsDone'
  BY <1>1, <1>2 DEF IInv, MBTypeOK, ItemsInOrder, BatchIsDone
<1>4. SlotsFilled' /\ CancelledInFinally'
  BY <1>1, <1>2 DEF IInv, SlotsFilled, CancelledInFinally, Closing, With
<1>5. TakenIsYielded'
  <2>1. \A k \in DOMAIN out : out[k] \in Items
    BY DEF IInv, MBTypeOK
  <2>2. held \subseteq Items
    BY DEF IInv, MBTypeOK
  <2> QED
    BY <1>1, <1>2, <2>1, <2>2 DEF IInv, TakenIsYielded
<1>6. NothingOutlives' /\ AllDelivered'
  BY <1>1 DEF IInv, NothingOutlives, AllDelivered
<1> QED
  BY <1>3, <1>4, <1>5, <1>6 DEF IInv

(* The generator goes on with the loop, with another wait, or ends because   *)
(* there is nothing left to watch.                                           *)
LEMMA NextRoundKeepsIInv ==
  ASSUME IInv, ~Closing, pc \in {"drain", "yield"}, pc' = NextRound,
         UNCHANGED <<ordered, task, source, batch, held, out, stopped>>,
         ordered => Len(out) + 1 \notin held
  PROVE  IInv'
<1> USE MapBoundedAssumption
<1>1. Watched' = Watched /\ Watched \subseteq Items
  BY DEF Watched, With
<1>2. batch = {} /\ Pending = {} => Watched = {}
  BY DEF Watched, Pending, With
<1>3. pc' \in {"loop", "wait", "ended"} /\ (pc' = "loop" <=> batch # {})
  BY DEF NextRound
<1>4. pc' = "ended" => Watched = {} /\ source > N /\ With({"cancelling", "cancelled"}) = {}
  <2> SUFFICES ASSUME pc' = "ended" PROVE source > N /\ Watched = {}
    BY DEF IInv, CancelledInFinally
  <2>1. Watched = {}
    BY <1>2 DEF NextRound
  <2>2. Cardinality(Watched) = 0
    BY <2>1, FS_EmptySet
  <2> QED
    BY <2>1, <2>2 DEF IInv, MBTypeOK, SlotsFilled
<1>5. ASSUME pc' = "ended" PROVE Len(out) = N
  <2>1. \A i \in Items : task[i] = "taken"
    BY <1>4, <1>5 DEF IInv, MBTypeOK, ItemsInOrder, Watched, With, Items
  <2>2. /\ out \in [1..Len(out) -> Items] /\ Len(out) \in Nat /\ DOMAIN out = 1..Len(out)
    BY DEF IInv, MBTypeOK
  <2>3. CASE ordered
    <3>1. Len(out) <= N
      <4> SUFFICES ASSUME Len(out) > 0 PROVE Len(out) <= N
        BY <2>2
      <4>1. \A k \in DOMAIN out : out[k] = k
        BY <2>3 DEF IInv, AllDelivered
      <4>2. Len(out) \in DOMAIN out /\ out[Len(out)] \in Items
        BY <2>2
      <4> QED
        BY <4>1, <4>2 DEF Items
    <3>2. Len(out) >= N
      <4> SUFFICES ASSUME Len(out) + 1 \in Items PROVE FALSE
        BY <2>2 DEF Items
      <4>1. PICK k \in DOMAIN out : out[k] = Len(out) + 1
        BY <2>1, <2>3 DEF IInv, TakenIsYielded
      <4>2. out[k] = k
        BY <2>3, <4>1 DEF IInv, AllDelivered
      <4> QED
        BY <2>2, <4>1, <4>2
    <3>3. N \in Nat /\ Len(out) \in Nat
      BY <2>2 DEF MapBoundedAssumption
    <3> HIDE MapBoundedAssumption
    <3> QED
      BY <3>1, <3>2, <3>3
  <2>4. CASE ~ordered
    <3>1. \A i \in Items : \E k \in 1..Len(out) : out[k] = i
      BY <2>1, <2>2, <2>4 DEF IInv, TakenIsYielded
    <3>2. out \in Surjection(1..Len(out), Items)
      BY <2>2, <3>1 DEF Surjection
    <3>3. out \in Injection(1..Len(out), Items)
      BY <2>2 DEF Injection, IsInjective, IInv, AllDelivered
    <3>4. ExistsBijection(1..Len(out), Items)
      BY <3>2, <3>3 DEF ExistsBijection, Bijection
    <3> QED
      BY <2>2, <3>4, FS_CountingElements, WatchedIsFinite
  <2> QED
    BY <2>3, <2>4
<1>6. MBTypeOK' /\ ItemsInOrder' /\ BatchIsDone'
  BY <1>3 DEF IInv, MBTypeOK, ItemsInOrder, BatchIsDone
<1>7. SlotsFilled' /\ CancelledInFinally'
  BY <1>1, <1>3, <1>4 DEF IInv, SlotsFilled, CancelledInFinally, Closing, With
<1>8. TakenIsYielded'
  BY <1>3 DEF IInv, TakenIsYielded
<1>9. NothingOutlives' /\ AllDelivered'
  BY <1>1, <1>4, <1>5 DEF IInv, NothingOutlives, AllDelivered, InFlight, Watched, With
<1> QED
  BY <1>6, <1>7, <1>8, <1>9 DEF IInv

LEMMA DrainKeepsIInv ==
  ASSUME IInv, Drain
  PROVE  IInv'
<1> DEFINE turn == Len(out) + 1
<1>1. ordered /\ ~Closing /\ pc = "drain"
  BY DEF IInv, MBTypeOK, TakenIsYielded, Drain, Closing
<1>2. CASE turn \notin held
  BY <1>1, <1>2, NextRoundKeepsIInv DEF Drain
<1>3. CASE turn \in held
  <2>1. /\ out' = Append(out, turn) /\ held' = held \ {turn} /\ pc' = "yield"
        /\ UNCHANGED <<ordered, task, source, batch, stopped>>
    BY <1>3 DEF Drain
  <2>2. /\ turn \in Items /\ task[turn] = "taken"
        /\ \A k \in DOMAIN out : out[k] # turn /\ out[k] = k
        /\ out \in Seq(Items) /\ Len(out) \in Nat
    BY <1>1, <1>3 DEF IInv, MBTypeOK, TakenIsYielded, AllDelivered
  <2> HIDE DEF turn
  <2>3. /\ out' \in Seq(Items) /\ Len(out') = Len(out) + 1
        /\ DOMAIN out' = DOMAIN out \union {Len(out) + 1}
        /\ out'[Len(out) + 1] = turn /\ \A k \in DOMAIN out : out'[k] = out[k]
        /\ \A j, k \in DOMAIN out' : out'[j] = out'[k] => j = k
    BY <2>1, <2>2, YieldKeepsOut DEF IInv, AllDelivered
  <2> USE DEF turn
  <2>4. MBTypeOK' /\ ItemsInOrder' /\ BatchIsDone'
    BY <1>1, <2>1, <2>3 DEF IInv, MBTypeOK, ItemsInOrder, BatchIsDone
  <2>5. SlotsFilled' /\ CancelledInFinally'
    BY <1>1, <2>1 DEF IInv, SlotsFilled, CancelledInFinally, Closing, With, Watched
  <2>6. TakenIsYielded'
    BY <1>1, <2>1, <2>2, <2>3 DEF IInv, TakenIsYielded
  <2>7. NothingOutlives' /\ AllDelivered'
    BY <1>1, <2>1, <2>2, <2>3 DEF NothingOutlives, AllDelivered
  <2> QED
    BY <2>4, <2>5, <2>6, <2>7 DEF IInv
<1> QED
  BY <1>2, <1>3

LEMMA ResumeKeepsIInv ==
  ASSUME IInv, Resume
  PROVE  IInv'
<1>1. ~Closing
  BY DEF Resume, Closing
<1>2. CASE ordered
  BY <1>1, <1>2 DEF IInv, Resume, MBTypeOK, ItemsInOrder, BatchIsDone, SlotsFilled,
       CancelledInFinally, TakenIsYielded, NothingOutlives, AllDelivered, Closing, With, Watched
<1>3. CASE ~ordered
  BY <1>1, <1>3, NextRoundKeepsIInv DEF Resume
<1> QED
  BY <1>2, <1>3

(* The consumer leaves; the gather of the finally block comes back.          *)
LEMMA LeaveKeepsIInv ==
  ASSUME IInv, Drop \/ EndCleanup
  PROVE  IInv'
<1>1. CASE Drop
  BY <1>1 DEF IInv, Drop, MBTypeOK, ItemsInOrder, BatchIsDone, SlotsFilled,
       CancelledInFinally, TakenIsYielded, NothingOutlives, AllDelivered, Closing, With, Watched
<1>2. CASE EndCleanup
  BY <1>2 DEF IInv, EndCleanup, MBTypeOK, ItemsInOrder, BatchIsDone, SlotsFilled,
       CancelledInFinally, TakenIsYielded, NothingOutlives, AllDelivered, Closing, With, Watched,
       InFlight
<1> QED
  BY <1>1, <1>2

(* Every step keeps the invariant.                                           *)
LEMMA NextIInv == IInv /\ [MBNext]_mbvars => IInv'
<1> SUFFICES ASSUME IInv, [MBNext]_mbvars PROVE IInv'
  OBVIOUS
<1>1. CASE Workers
  BY <1>1, WorkerKeepsIInv DEF Workers
<1>2. CASE Generator
  BY <1>2, WakeKeepsIInv, DrainKeepsIInv, TakeKeepsIInv, CloseKeepsIInv, LeaveKeepsIInv
  DEF Generator
<1>3. CASE Consumer
  BY <1>3, ResumeKeepsIInv, CloseKeepsIInv, LeaveKeepsIInv DEF Consumer
<1>4. CASE UNCHANGED mbvars
  BY <1>4 DEF mbvars, IInv, MBTypeOK, ItemsInOrder, BatchIsDone, SlotsFilled,
       CancelledInFinally, TakenIsYielded, NothingOutlives, AllDelivered, Closing, With, Watched,
       InFlight
<1> QED
  BY <1>1, <1>2, <1>3, <1>4 DEF MBNext

(* What the invariant says of a state.                                       *)
LEMMA IInvImplies ==
  ASSUME IInv
  PROVE  MBTypeOK /\ NothingLost /\ NothingOutlives
<1>1. LimitRespected
  <2>1. InFlight \subseteq Watched /\ Watched \in SUBSET Items /\ InFlight \in SUBSET Items
    BY DEF InFlight, Watched, With
  <2>2. Cardinality(InFlight) <= Cardinality(Watched)
    BY <2>1, WatchedIsFinite, FS_Subset
  <2>3. Cardinality(InFlight) \in Nat /\ Cardinality(Watched) \in Nat
    BY <2>1, WatchedIsFinite
  <2> QED
    BY <2>2, <2>3, MapBoundedAssumption DEF IInv, SlotsFilled, LimitRespected
<1>2. SlotsKept
  <2> SUFFICES ASSUME pc = "wait", source <= N PROVE Pending = Watched
    BY DEF IInv, SlotsFilled, SlotsKept, Closing
  <2> QED
    BY DEF IInv, BatchIsDone, Pending, Watched, With
<1> QED
  BY <1>1, <1>2 DEF IInv, NothingLost

(***************************************************************************)
(* Theorems                                                                *)
(***************************************************************************)

(* The generator's variables have the types they have in the source.         *)
THEOREM TypeCorrect == MBSpec => []MBTypeOK
<1>1. IInv => MBTypeOK
  BY IInvImplies
<1> QED
  BY <1>1, InitIInv, NextIInv, PTL DEF MBSpec

(* map_bounded keeps to its limit, keeps every slot busy while items are     *)
(* left, and hands each result out once, in order if asked for, and all of   *)
(* them unless it was interrupted.                                           *)
THEOREM NothingIsLost == MBSpec => []NothingLost
<1>1. IInv => NothingLost
  BY IInvImplies
<1> QED
  BY <1>1, InitIInv, NextIInv, PTL DEF MBSpec

(* When the finally block is through, no worker runs.                        *)
THEOREM NothingIsLeft == MBSpec => []NothingOutlives
<1>1. IInv => NothingOutlives
  BY IInvImplies
<1> QED
  BY <1>1, InitIInv, NextIInv, PTL DEF MBSpec
=============================================================================
