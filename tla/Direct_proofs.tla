---------------------------- MODULE Direct_proofs ----------------------------
(***************************************************************************)
(* Proofs about what works on Jira directly, with no plan in between.       *)
(*                                                                         *)
(* The scan stream (ScanStream), for any collection, page size, limit and    *)
(* number of changes meanwhile: no tick is lost or overtaken, the verdict    *)
(* about completeness is true, nothing outlives the stream.                  *)
(*                                                                         *)
(* The creation of spaces (SpaceCreate), for any keys, runs and attempts:    *)
(* every space made is accounted for and no template is overridden.          *)
(*                                                                         *)
(* The contexts of a field (FieldContexts), for any projects, issue types    *)
(* and states, any page size and any number of edits and undos: success is   *)
(* what was asked for, the trail is complete, an undo gives back what was.   *)
(***************************************************************************)
EXTENDS ScanStream, SpaceCreate, FieldContexts, TLAPS,
        SequenceTheorems, FiniteSetTheorems, FunctionTheorems

(***************************************************************************)
(* The scan stream                                                          *)
(***************************************************************************)

(* The state has the types it has in the source.                            *)
SS_TypeOK ==
  /\ coll \in Seq(Items) /\ collected \in Seq(Items)
  /\ endpoint \in [size : Clamps, total : BOOLEAN, isLast : BOOLEAN]
  /\ limit \in Limits
  /\ scan \in {"probe", "pages", "done", "failed", "cancelling", "cancelled"}
  /\ expected \in {{}, {Initial}}
  /\ complete \in BOOLEAN
  /\ it \in {"wait", "yield", "drain", "drain yield", "dropped", "finally",
             "ended", "raised", "abandoned"}
  /\ queue \in Seq(Nat) /\ ticks \in Seq(Nat) /\ out \in Seq(Nat)
  /\ getter \in {None, Waiting} \union {Got(n) : n \in Nat}
  /\ throughout \subseteq 1..Initial
  /\ added \in Nat /\ removed \in Nat /\ added + removed <= MaxChanges
  /\ Len(coll) = Initial + added - removed

(* Between two ticks, and once the scan is through, there is no getter; what *)
(* ends has emptied the queue and finds the scan through.                    *)
GetterIsWaitedFor ==
  /\ it = "wait" => getter # None
  /\ getter # None => it \in {"wait", "finally", "abandoned"}
  /\ it \in {"drain", "drain yield", "ended", "raised", "abandoned"} => scan \notin Running
  /\ it \in {"ended", "raised"} => queue = <<>>
  /\ scan = "cancelling" => it = "finally"

(* What was reported is out, in the hands of the getter, or in the queue.   *)
TicksInOrder == out \o getter.tick \o queue = ticks

(* Before the probe nothing is collected and nobody has changed anything.   *)
Fresh ==
  scan = "probe" =>
    /\ collected = <<>> /\ added = 0 /\ removed = 0 /\ throughout = {} /\ expected = {}

(* The probe knows how many there were, if the endpoint counts them.        *)
ProbeKnew == scan \in {"pages", "done"} => expected = (IF endpoint.total THEN {Initial} ELSE {})

(* Items of the start, each once and in order.                              *)
Increasing(s) ==
  /\ \A k \in 1..Len(s) : s[k] \in 1..Initial
  /\ \A j, k \in 1..Len(s) : j < k => s[j] < s[k]

(* If none was added, what is collected comes before what is not.           *)
OnlyShrinks ==
  added = 0 =>
    /\ Increasing(coll) /\ Increasing(collected)
    /\ \A j \in 1..Len(collected), k \in 1..Len(coll) :
          (scan \in {"probe", "pages"} /\ k > Len(collected)) => collected[j] < coll[k]

(* If nothing changed at all, what is collected is the beginning of it.     *)
Untouched ==
  added + removed = 0 =>
    /\ \A k \in 1..Len(coll) : coll[k] = k
    /\ \A k \in 1..Len(collected) : collected[k] = k
    /\ Len(collected) <= Len(coll)

(* Complete is said of as many as there were; without a limit, of all.      *)
SaidComplete ==
  (scan = "done" /\ complete) =>
    /\ Len(collected) >= Initial
    /\ limit = NoLimit => Len(coll) <= Initial

(* What nobody touched is read whole, and that is said.                     *)
QuietIsWhole ==
  (scan = "done" /\ added + removed = 0 /\ endpoint.total
     /\ (limit = NoLimit \/ limit >= Initial))
    => complete /\ Len(collected) = Initial

(* The inductive invariant.                                                 *)
SS_IInv ==
  /\ SS_TypeOK /\ GetterIsWaitedFor /\ TicksInOrder
  /\ Fresh /\ ProbeKnew /\ OnlyShrinks /\ Untouched /\ SaidComplete /\ QuietIsWhole

------------------------------------------------------------------------------

(* A part of a sequence, from its element n + 1, and two in a row.          *)
LEMMA Cut ==
  ASSUME NEW S, NEW s \in Seq(S), NEW n \in Nat, NEW m \in Nat, m <= Len(s)
  PROVE  /\ SubSeq(s, n + 1, m) \in Seq(S)
         /\ Len(SubSeq(s, n + 1, m)) = IF n < m THEN m - n ELSE 0
         /\ \A j \in 1..(m - n) : SubSeq(s, n + 1, m)[j] = s[n + j]
  BY SMTT(30)

(* What a concatenation holds.                                              *)
LEMMA Joined ==
  ASSUME NEW S, NEW s \in Seq(S), NEW t \in Seq(S)
  PROVE  /\ s \o t \in Seq(S)
         /\ Len(s \o t) = Len(s) + Len(t)
         /\ \A j \in 1..(Len(s) + Len(t)) :
               (s \o t)[j] = IF j <= Len(s) THEN s[j] ELSE t[j - Len(s)]
  BY SMTT(30)

(* An item put into the collection makes it longer by one,                  *)
LEMMA InsertedIsLonger ==
  ASSUME NEW S, NEW s \in Seq(S), NEW k \in 1..(Len(s) + 1), NEW e \in S
  PROVE  InsertAt(s, k, e) \in Seq(S) /\ Len(InsertAt(s, k, e)) = Len(s) + 1
<1> DEFINE a == SubSeq(s, 1, k - 1)
           b == SubSeq(s, k, Len(s))
<1>1. PICK n \in Nat : k = n + 1 /\ n <= Len(s)
  <2> k - 1 \in Nat
    OBVIOUS
  <2> QED
    OBVIOUS
<1>2. Len(s) \in Nat
  OBVIOUS
<1>3. a \in Seq(S) /\ Len(a) = n
  <2>1. a = SubSeq(s, 0 + 1, n)
    BY <1>1
  <2> QED
    BY <1>1, <2>1, Cut
<1>4. b \in Seq(S) /\ Len(b) = Len(s) - n
  <2>1. b = SubSeq(s, n + 1, Len(s))
    BY <1>1
  <2> QED
    BY <1>1, <1>2, <2>1, Cut
<1>5. <<e>> \in Seq(S) /\ Len(<<e>>) = 1
  OBVIOUS
<1> HIDE DEF a, b
<1>6. a \o <<e>> \in Seq(S) /\ Len(a \o <<e>>) = n + 1
  BY <1>3, <1>5, Joined
<1>7. a \o <<e>> \o b \in Seq(S) /\ Len(a \o <<e>> \o b) = Len(s) + 1
  BY <1>1, <1>2, <1>4, <1>6, Joined
<1> QED
  BY <1>7 DEF InsertAt, a, b

(* ... one taken out of it makes it shorter and moves what follows.         *)
LEMMA RemovedIsShorter ==
  ASSUME NEW S, NEW s \in Seq(S), NEW k \in 1..Len(s)
  PROVE  /\ RemoveAt(s, k) \in Seq(S) /\ Len(RemoveAt(s, k)) = Len(s) - 1
         /\ \A j \in 1..(Len(s) - 1) : RemoveAt(s, k)[j] = s[IF j < k THEN j ELSE j + 1]
<1> DEFINE a == SubSeq(s, 1, k - 1)
           b == SubSeq(s, k + 1, Len(s))
<1>1. PICK n \in Nat : k = n + 1 /\ n < Len(s)
  <2> k - 1 \in Nat
    OBVIOUS
  <2> QED
    OBVIOUS
<1>2. Len(s) \in Nat
  OBVIOUS
<1>3. a \in Seq(S) /\ Len(a) = n /\ \A j \in 1..n : a[j] = s[j]
  <2>1. a = SubSeq(s, 0 + 1, n)
    BY <1>1
  <2>2. n <= Len(s)
    BY <1>1, <1>2
  <2> HIDE DEF a
  <2>3. a \in Seq(S) /\ Len(a) = n /\ \A j \in 1..(n - 0) : a[j] = s[0 + j]
    BY <1>1, <2>1, <2>2, Cut
  <2> QED
    BY <2>3
<1>4. /\ b \in Seq(S) /\ Len(b) = Len(s) - k
      /\ \A j \in 1..(Len(s) - k) : b[j] = s[k + j]
  BY <1>1, <1>2, Cut
<1>5. /\ a \o b \in Seq(S) /\ Len(a \o b) = Len(a) + Len(b)
      /\ \A j \in 1..(Len(a) + Len(b)) : (a \o b)[j] = IF j <= Len(a) THEN a[j] ELSE b[j - Len(a)]
  <2> HIDE DEF a, b
  <2> QED
    BY <1>3, <1>4, Joined
<1> HIDE DEF a, b
<1>6. Len(a \o b) = Len(s) - 1
  BY <1>1, <1>2, <1>3, <1>4, <1>5
<1>7. ASSUME NEW j \in 1..(Len(s) - 1)
      PROVE  (a \o b)[j] = s[IF j < k THEN j ELSE j + 1]
  <2>1. CASE j < k
    BY <1>1, <1>2, <1>3, <1>4, <1>5, <2>1
  <2>2. CASE ~(j < k)
    <3>1. PICK i \in 1..(Len(s) - k) : i = j - n /\ k + i = j + 1
      BY <1>1, <1>2, <2>2
    <3>2. (a \o b)[j] = b[i]
      BY <1>1, <1>2, <1>3, <1>4, <1>5, <2>2, <3>1
    <3> QED
      BY <1>4, <2>2, <3>1, <3>2
  <2> QED
    BY <2>1, <2>2
<1> QED
  BY <1>5, <1>6, <1>7 DEF RemoveAt, a, b

(* A page holds what follows the rows that there are.                       *)
LEMMA RowsFollow ==
  ASSUME ScanAssumption, SS_TypeOK
  PROVE  /\ collected \o Page(Offset) \in Seq(Items)
         /\ Len(Page(Offset)) \in Nat
         /\ Len(collected \o Page(Offset)) = Len(collected) + Len(Page(Offset))
         /\ Page(Offset) = <<>> <=> Len(collected) >= Len(coll)
         /\ Page(Offset) # <<>> => Len(collected) + Len(Page(Offset)) <= Len(coll)
         /\ \A j \in 1..(Len(collected) + Len(Page(Offset))) :
               (collected \o Page(Offset))[j]
                 = IF j <= Len(collected) THEN collected[j] ELSE coll[j]
<1> DEFINE page == Page(Offset)
           n == Len(collected)
           last == n + endpoint.size
           m == IF last < Len(coll) THEN last ELSE Len(coll)
<1>1. /\ Len(coll) \in Nat /\ n \in Nat /\ coll \in Seq(Items) /\ collected \in Seq(Items)
      /\ m \in Nat /\ m <= Len(coll) /\ (n < m <=> n < Len(coll))
  <2>1. endpoint.size \in 1..PageSize
    BY DEF SS_TypeOK, ScanAssumption
  <2>2. coll \in Seq(Items) /\ collected \in Seq(Items)
    BY DEF SS_TypeOK
  <2>3. Len(coll) \in Nat /\ n \in Nat /\ PageSize \in Nat
    BY <2>2 DEF ScanAssumption
  <2> QED
    BY <2>1, <2>2, <2>3
<1>2. page = SubSeq(coll, n + 1, m)
  BY DEF Page, Offset
<1> HIDE DEF m, n
<1>3. /\ page \in Seq(Items)
      /\ Len(page) = IF n < m THEN m - n ELSE 0
      /\ \A j \in 1..(m - n) : page[j] = coll[n + j]
  BY <1>1, <1>2, Cut
<1> HIDE DEF page
<1>4. /\ collected \o page \in Seq(Items)
      /\ Len(collected \o page) = n + Len(page)
      /\ \A j \in 1..(n + Len(page)) :
            (collected \o page)[j] = IF j <= n THEN collected[j] ELSE page[j - n]
  BY <1>1, <1>3, Joined DEF n
<1>5. page = <<>> <=> Len(page) = 0
  BY <1>3
<1>6. ASSUME NEW j \in 1..(n + Len(page))
      PROVE  (collected \o page)[j] = IF j <= n THEN collected[j] ELSE coll[j]
  <2>1. CASE j <= n
    BY <1>4, <2>1
  <2>2. CASE ~(j <= n)
    <3>1. m \in Nat /\ n \in Nat /\ j \in 1..(n + (IF n < m THEN m - n ELSE 0))
      BY <1>1, <1>3
    <3>2. j - n \in 1..(m - n) /\ n + (j - n) = j
      BY ONLY <2>2, <3>1
    <3>3. page[j - n] = coll[j]
      BY <1>3, <3>2
    <3> QED
      BY <1>4, <2>2, <3>3
  <2> QED
    BY <2>1, <2>2
<1>7. page = <<>> <=> n >= Len(coll)
  BY <1>1, <1>3, <1>5
<1>8. page # <<>> => n + Len(page) <= Len(coll)
  BY <1>1, <1>3, <1>5
<1>9. Len(page) \in Nat
  BY <1>3
<1> QED
  BY <1>4, <1>6, <1>7, <1>8, <1>9 DEF page, n

(* What a request that is answered does: it adds rows in order, reports them *)
(* or finds none, and ends the scan as the cap or the endpoint says.         *)
AddsRows ==
  /\ collected' \in Seq(Items)
  /\ \A j \in 1..Len(collected') :
        collected'[j] = IF j <= Len(collected) THEN collected[j] ELSE coll[j]
  /\ Len(collected) < Len(coll) => Len(collected') <= Len(coll)
  /\ Len(collected) >= Len(coll) => collected' = collected

(* A page is reported by one tick, or by none.                              *)
ReportsRows ==
  \/ UNCHANGED <<queue, ticks>>
  \/ \E k \in Nat : queue' = Append(queue, k) /\ ticks' = Append(ticks, k)

(* A page is followed by another, or by the verdict.                        *)
EndsAs ==
  \/ scan' = "pages" /\ UNCHANGED complete
     /\ Len(collected') >= Len(collected) /\ Len(collected) < Len(coll)
  \/ /\ scan' = "done" /\ complete' \in BOOLEAN
     /\ complete' =>
          \E k \in expected : Len(collected') >= k /\ (limit = NoLimit => Len(coll) <= k)
     /\ (/\ expected = {Len(coll)} /\ (limit = NoLimit \/ limit >= Len(coll))
         /\ Len(collected) <= Len(coll)) =>
             complete' /\ Len(collected') = Len(coll)

(* ReadPage: what it collects, reports and decides.                         *)
LEMMA ReadEffects ==
  ASSUME ScanAssumption, SS_TypeOK, ProbeKnew, ReadPage
  PROVE  /\ scan = "pages" /\ UNCHANGED <<jira, limit, expected, iterator>>
         /\ AddsRows /\ ReportsRows /\ EndsAs
<1> DEFINE page == Page(Offset)
           rows == collected \o page
           n == Len(collected)
           capped == limit # NoLimit /\ Len(rows) >= limit
<1>1. /\ Len(page) \in Nat /\ Len(rows) = n + Len(page)
      /\ rows \in Seq(Items) /\ (page = <<>> <=> n >= Len(coll))
      /\ (page # <<>> => n + Len(page) <= Len(coll))
      /\ \A j \in 1..(n + Len(page)) : rows[j] = IF j <= n THEN collected[j] ELSE coll[j]
  BY RowsFollow
<1>2. scan = "pages" /\ UNCHANGED <<jira, limit, expected, iterator>>
  BY DEF ReadPage
<1>3. /\ limit # NoLimit => limit \in Nat \ {0}
      /\ expected = (IF endpoint.total THEN {Initial} ELSE {})
  BY <1>2 DEF SS_TypeOK, ScanAssumption, ProbeKnew
<1>4. n \in Nat /\ Len(coll) \in Nat /\ Initial \in Nat /\ collected \in Seq(Items)
  <2>1. coll \in Seq(Items) /\ collected \in Seq(Items)
    BY DEF SS_TypeOK
  <2> QED
    BY <2>1 DEF ScanAssumption
<1>5. CASE page = <<>>
  <2>1. /\ scan' = "done" /\ complete' = Verdict(collected)
        /\ UNCHANGED <<collected, queue, ticks>>
    BY <1>5 DEF ReadPage
  <2> HIDE DEF page, rows
  <2>2. n >= Len(coll)
    BY <1>1, <1>5
  <2>3. AddsRows
    BY <1>4, <2>1, <2>2 DEF AddsRows
  <2>4. ReportsRows
    BY <2>1 DEF ReportsRows
  <2>5. (complete' = (expected = {n})) /\ complete' \in BOOLEAN
    BY <2>1 DEF Verdict
  <2>6. complete' => \E k \in expected : n >= k /\ (limit = NoLimit => Len(coll) <= k)
    <3> SUFFICES ASSUME complete' PROVE n \in expected /\ n >= n /\ Len(coll) <= n
      OBVIOUS
    <3>1. n >= n /\ Len(coll) <= n
      BY <1>4, <2>2
    <3> QED
      BY <2>5, <3>1
  <2>7. expected = {Len(coll)} /\ n <= Len(coll) => complete' /\ n = Len(coll)
    <3>1. n <= Len(coll) => n = Len(coll)
      BY <1>4, <2>2
    <3> QED
      BY <2>5, <3>1
  <2>8. EndsAs
    BY <2>1, <2>5, <2>6, <2>7 DEF EndsAs
  <2> QED
    BY <1>2, <2>3, <2>4, <2>8
<1>6. CASE page # <<>>
  <2>1. /\ Report(Len(rows))
        /\ collected' = IF capped THEN SubSeq(rows, 1, limit) ELSE rows
        /\ IF capped
           THEN scan' = "done" /\ complete' = CappedVerdict(collected')
           ELSE IF Ends(Offset, page)
           THEN scan' = "done" /\ complete' = Verdict(rows)
           ELSE UNCHANGED <<scan, complete>>
    BY <1>6 DEF ReadPage
  <2>2. Ends(Offset, page) /\ endpoint.total => n + Len(page) >= Len(coll)
    BY DEF Ends, Offset
  <2> HIDE DEF page, rows, capped
  <2>3. /\ Len(rows) \in Nat /\ Len(rows) <= Len(coll) /\ n < Len(coll) /\ Len(rows) >= n
        /\ Ends(Offset, page) /\ endpoint.total => Len(rows) = Len(coll)
    BY <1>1, <1>4, <1>6, <2>2
  <2>4. ReportsRows
    BY <2>1, <2>3 DEF Report, ReportsRows
  <2>5. CASE capped
    <3>1. limit \in Nat \ {0} /\ limit <= Len(rows) /\ limit # NoLimit
      BY <1>3, <2>3, <2>5 DEF capped
    <3>2. collected' = SubSeq(rows, 0 + 1, limit)
      <4>1. collected' = SubSeq(rows, 1, limit)
        BY <2>1, <2>5
      <4> QED
        BY <4>1
    <3>3. /\ collected' \in Seq(Items) /\ Len(collected') = limit
          /\ \A j \in 1..(limit - 0) : collected'[j] = rows[0 + j]
      BY <1>1, <3>1, <3>2, Cut
    <3>4. \A j \in 1..limit : collected'[j] = IF j <= n THEN collected[j] ELSE coll[j]
      BY <1>1, <2>3, <3>1, <3>3
    <3>5. AddsRows
      BY <2>3, <3>1, <3>3, <3>4 DEF AddsRows
    <3>6. scan' = "done" /\ complete' = (\E k \in expected : limit >= k)
      BY <2>1, <2>5, <3>3 DEF CappedVerdict
    <3>7. EndsAs
      BY <1>4, <2>3, <3>1, <3>3, <3>6 DEF EndsAs
    <3> QED
      BY <1>2, <2>4, <3>5, <3>7
  <2>6. CASE ~capped
    <3>1. collected' = rows
      BY <2>1, <2>6
    <3>2. AddsRows
      BY <1>1, <2>3, <3>1 DEF AddsRows
    <3>3. CASE Ends(Offset, page)
      <4>1. scan' = "done" /\ complete' = (expected = {Len(rows)})
        BY <2>1, <2>6, <3>3 DEF Verdict
      <4>2. expected # {} => Len(rows) = Len(coll)
        BY <1>3, <2>3, <3>3
      <4>3. EndsAs
        BY <1>4, <2>3, <3>1, <4>1, <4>2 DEF EndsAs
      <4> QED
        BY <1>2, <2>4, <3>2, <4>3
    <3>4. CASE ~Ends(Offset, page)
      <4>1. UNCHANGED <<scan, complete>>
        BY <2>1, <2>6, <3>4
      <4>2. EndsAs
        BY <1>2, <2>3, <3>1, <4>1 DEF EndsAs
      <4> QED
        BY <1>2, <2>4, <3>2, <4>2
    <3> QED
      BY <3>3, <3>4
  <2> QED
    BY <2>5, <2>6
<1> QED
  BY <1>5, <1>6

(* Of the iterator, and of the scan.                                        *)
IteratorInv == GetterIsWaitedFor /\ TicksInOrder

(* What is said of the reading, apart from the iterator.                    *)
ScanInv == Fresh /\ ProbeKnew /\ OnlyShrinks /\ Untouched /\ SaidComplete /\ QuietIsWhole

(* The facts about lengths that the steps below need.                       *)
LEMMA Sizes ==
  ASSUME ScanAssumption, SS_TypeOK
  PROVE  /\ coll \in Seq(Items) /\ collected \in Seq(Items)
         /\ Len(coll) \in Nat /\ Len(collected) \in Nat /\ DOMAIN coll = 1..Len(coll)
         /\ Initial \in Nat /\ MaxChanges \in Nat /\ added \in Nat /\ removed \in Nat
         /\ added + removed <= MaxChanges /\ Len(coll) = Initial + added - removed
         /\ getter.tick \in Seq(Nat) /\ queue \in Seq(Nat) /\ ticks \in Seq(Nat)
         /\ out \in Seq(Nat)
<1>1. coll \in Seq(Items) /\ collected \in Seq(Items)
  BY DEF SS_TypeOK
<1>2. Len(coll) \in Nat /\ Len(collected) \in Nat /\ DOMAIN coll = 1..Len(coll)
  BY <1>1
<1>3. /\ added \in Nat /\ removed \in Nat
      /\ added + removed <= MaxChanges /\ Len(coll) = Initial + added - removed
  BY DEF SS_TypeOK
<1>4. Initial \in Nat /\ MaxChanges \in Nat
  BY DEF ScanAssumption
<1>5. getter.tick \in Seq(Nat)
  <2>1. getter = None \/ getter = Waiting \/ \E n \in Nat : getter = Got(n)
    BY DEF SS_TypeOK
  <2>2. None.tick \in Seq(Nat) /\ Waiting.tick \in Seq(Nat)
    BY DEF None, Waiting
  <2>3. \A n \in Nat : Got(n).tick \in Seq(Nat)
    BY DEF Got
  <2> QED
    BY <2>1, <2>2, <2>3
<1>6. queue \in Seq(Nat) /\ ticks \in Seq(Nat) /\ out \in Seq(Nat)
  BY DEF SS_TypeOK
<1> QED
  BY <1>1, <1>2, <1>3, <1>4, <1>5, <1>6

(* An item added in front of what is read, or behind it.                    *)
LEMMA AddedKeeps ==
  ASSUME ScanAssumption, SS_IInv, NEW k \in 1..(Len(coll) + 1), ItemAdded(k)
  PROVE  SS_IInv'
<1>t. SS_TypeOK
  BY DEF SS_IInv
<1>1. /\ coll' = InsertAt(coll, k, Initial + added + removed + 1)
      /\ added' = added + 1 /\ removed' = removed
      /\ scan = "pages" /\ added + removed < MaxChanges
      /\ UNCHANGED <<endpoint, throughout, reading, iterator, queue>>
  BY DEF ItemAdded, Changeable
<1>2. coll' \in Seq(Items) /\ Len(coll') = Len(coll) + 1
  <2>1. Initial + added + removed + 1 \in Items
    <3>1. added + removed < MaxChanges
      BY <1>1
    <3>2. Initial \in Nat /\ MaxChanges \in Nat /\ added \in Nat /\ removed \in Nat
      BY <1>t, Sizes
    <3> QED
      BY <3>1, <3>2 DEF Items
  <2> QED
    BY <1>t, <1>1, <2>1, Sizes, InsertedIsLonger
<1>3. /\ Len(coll') = Initial + added' - removed' /\ added' + removed' <= MaxChanges
      /\ added' \in Nat /\ removed' \in Nat /\ added' # 0 /\ added' + removed' # 0
  <2>1. /\ Initial \in Nat /\ MaxChanges \in Nat /\ added \in Nat /\ removed \in Nat
        /\ Len(coll) = Initial + added - removed
    BY <1>t, Sizes
  <2>2. /\ added' = added + 1 /\ removed' = removed /\ added + removed < MaxChanges
        /\ Len(coll') = Len(coll) + 1
    BY <1>1, <1>2
  <2> QED
    BY <2>1, <2>2
<1>4. SS_TypeOK'
  BY <1>t, <1>1, <1>2, <1>3 DEF SS_TypeOK, reading, iterator
<1>5. IteratorInv'
  BY <1>1 DEF SS_IInv, IteratorInv, GetterIsWaitedFor, TicksInOrder, reading, iterator
<1>6. ScanInv'
  BY <1>1, <1>3
     DEF SS_IInv, ScanInv, ProbeKnew, Fresh, OnlyShrinks, Untouched, SaidComplete,
         QuietIsWhole, reading
<1> QED
  BY <1>4, <1>5, <1>6 DEF SS_IInv, IteratorInv, ScanInv

(* An item removed: what follows moves up.                                  *)
LEMMA RemovedKeeps ==
  ASSUME ScanAssumption, SS_IInv, NEW k \in DOMAIN coll, ItemRemoved(k)
  PROVE  SS_IInv'
<1>t. SS_TypeOK
  BY DEF SS_IInv
<1>1. /\ coll' = RemoveAt(coll, k)
      /\ throughout' \subseteq throughout
      /\ removed' = removed + 1 /\ added' = added
      /\ scan = "pages" /\ added + removed < MaxChanges
      /\ UNCHANGED <<endpoint, reading, iterator, queue>>
  BY DEF ItemRemoved, Changeable
<1>2. k \in 1..Len(coll)
  BY <1>t, Sizes
<1>3. /\ coll' \in Seq(Items) /\ Len(coll') = Len(coll) - 1
      /\ \A j \in 1..(Len(coll) - 1) : coll'[j] = coll[IF j < k THEN j ELSE j + 1]
  BY <1>t, <1>1, <1>2, Sizes, RemovedIsShorter
<1>4. /\ Len(coll') = Initial + added' - removed' /\ added' + removed' <= MaxChanges
      /\ added' \in Nat /\ removed' \in Nat /\ added' + removed' # 0
  <2>1. /\ Initial \in Nat /\ MaxChanges \in Nat /\ added \in Nat /\ removed \in Nat
        /\ Len(coll) = Initial + added - removed
    BY <1>t, Sizes
  <2>2. /\ removed' = removed + 1 /\ added' = added /\ added + removed < MaxChanges
        /\ Len(coll') = Len(coll) - 1
    BY <1>1, <1>3
  <2> QED
    BY <2>1, <2>2
<1>5. SS_TypeOK'
  BY <1>t, <1>1, <1>3, <1>4 DEF SS_TypeOK, reading, iterator
<1>6. IteratorInv'
  BY <1>1 DEF SS_IInv, IteratorInv, GetterIsWaitedFor, TicksInOrder, reading, iterator
<1>7. OnlyShrinks'
  <2>1. added' = added /\ collected' = collected /\ scan' = scan /\ scan = "pages"
    BY <1>1 DEF reading
  <2> SUFFICES ASSUME added = 0
               PROVE  /\ Increasing(coll') /\ Increasing(collected)
                      /\ \A j \in 1..Len(collected), i \in 1..Len(coll') :
                            i > Len(collected) => collected[j] < coll'[i]
    BY <2>1 DEF OnlyShrinks, Increasing
  <2>2. Increasing(coll) /\ Increasing(collected)
    BY DEF SS_IInv, OnlyShrinks
  <2>3. \A j \in 1..Len(collected), i \in 1..Len(coll) :
          i > Len(collected) => collected[j] < coll[i]
    BY <2>1 DEF SS_IInv, OnlyShrinks
  <2>4. Len(coll) \in Nat /\ Len(collected) \in Nat /\ Initial \in Nat
    BY <1>t, Sizes
  <2>5. \A j \in 1..Len(coll') : \E i \in 1..Len(coll) :
           coll'[j] = coll[i] /\ i = (IF j < k THEN j ELSE j + 1)
    BY <1>2, <1>3, <2>4
  <2>6. Increasing(coll')
    <3>1. ASSUME NEW i \in 1..Len(coll')
          PROVE  coll'[i] \in 1..Initial
      BY <2>2, <2>5 DEF Increasing
    <3>2. ASSUME NEW i \in 1..Len(coll'), NEW j \in 1..Len(coll'), i < j
          PROVE  coll'[i] < coll'[j]
      <4>1. PICK a \in 1..Len(coll) : coll'[i] = coll[a] /\ a = (IF i < k THEN i ELSE i + 1)
        BY <2>5
      <4>2. PICK b \in 1..Len(coll) : coll'[j] = coll[b] /\ b = (IF j < k THEN j ELSE j + 1)
        BY <2>5
      <4>3. a < b
        <5> i \in Nat /\ j \in Nat /\ k \in Nat
          BY <1>2, <1>3, <2>4
        <5> QED
          BY <3>2, <4>1, <4>2
      <4> QED
        BY <2>2, <4>1, <4>2, <4>3 DEF Increasing
    <3> QED
      BY <3>1, <3>2 DEF Increasing
  <2>7. ASSUME NEW j \in 1..Len(collected), NEW i \in 1..Len(coll'), i > Len(collected)
        PROVE  collected[j] < coll'[i]
    <3>1. PICK a \in 1..Len(coll) : coll'[i] = coll[a] /\ a = (IF i < k THEN i ELSE i + 1)
      BY <2>5
    <3>2. a > Len(collected)
      <4>1. i \in Int /\ k \in Int /\ Len(collected) \in Int
        BY <1>2, <1>3, <2>4
      <4> QED
        BY ONLY <3>1, <2>7, <4>1
    <3>3. collected[j] < coll[a]
      BY ONLY <2>3, <3>2, <3>1, <2>7
    <3> QED
      BY ONLY <3>1, <3>3
  <2> QED
    BY <2>2, <2>6, <2>7
<1>8. ScanInv'
  BY <1>1, <1>4, <1>7
     DEF SS_IInv, ScanInv, ProbeKnew, Fresh, Untouched, SaidComplete, QuietIsWhole, reading
<1> QED
  BY <1>5, <1>6, <1>8 DEF SS_IInv, IteratorInv, ScanInv

(* The probe finds what there is.                                           *)
LEMMA ProbeKeeps ==
  ASSUME ScanAssumption, SS_IInv, Probe
  PROVE  SS_IInv'
<1>t. SS_TypeOK
  BY DEF SS_IInv
<1>0. added = 0 /\ removed = 0 /\ collected = <<>>
  BY DEF SS_IInv, Fresh, Probe
<1>1. Len(coll) = Initial /\ added + removed = 0 /\ DOMAIN coll = 1..Initial
  BY <1>t, <1>0, Sizes
<1>2. throughout' \subseteq 1..Initial
  BY <1>1 DEF SS_IInv, Untouched, Probe
<1>3. expected' = IF endpoint.total THEN {Initial} ELSE {}
  BY <1>1 DEF Probe
<1>4. SS_TypeOK'
  BY <1>2, <1>3 DEF SS_IInv, SS_TypeOK, Probe, iterator
<1>5. IteratorInv'
  BY DEF SS_IInv, IteratorInv, GetterIsWaitedFor, TicksInOrder, Probe, iterator, Running
<1>6. ScanInv'
  BY <1>3
     DEF SS_IInv, ScanInv, ProbeKnew, Fresh, OnlyShrinks, Untouched, SaidComplete,
         QuietIsWhole, Probe
<1> QED
  BY <1>4, <1>5, <1>6 DEF SS_IInv, IteratorInv, ScanInv

(* A page more, or the end of the scan.                                     *)
LEMMA ReadKeeps ==
  ASSUME ScanAssumption, SS_IInv, ReadPage
  PROVE  SS_IInv'
<1>t. SS_TypeOK
  BY DEF SS_IInv
<1>1. /\ scan = "pages" /\ UNCHANGED <<jira, limit, expected, iterator>>
      /\ AddsRows /\ ReportsRows /\ EndsAs
  BY <1>t, ReadEffects DEF SS_IInv
<1>2. /\ UNCHANGED <<coll, endpoint, throughout, added, removed>>
      /\ UNCHANGED <<limit, expected, getter, it, out>>
      /\ scan' \in {"pages", "done"} /\ complete' \in BOOLEAN
  BY <1>1 DEF jira, iterator, EndsAs, SS_IInv, SS_TypeOK
<1>3. collected' \in Seq(Items) /\ Len(collected') \in Nat
  BY <1>1 DEF AddsRows
<1>4. queue' \in Seq(Nat) /\ ticks' \in Seq(Nat)
  <2>1. queue \in Seq(Nat) /\ ticks \in Seq(Nat)
    BY <1>t, Sizes
  <2>2. CASE UNCHANGED <<queue, ticks>>
    BY <2>1, <2>2
  <2>3. ASSUME NEW k \in Nat, queue' = Append(queue, k), ticks' = Append(ticks, k)
        PROVE  queue' \in Seq(Nat) /\ ticks' \in Seq(Nat)
    BY <2>1, <2>3
  <2> QED
    BY <1>1, <2>2, <2>3 DEF ReportsRows
<1>5. SS_TypeOK'
  BY <1>t, <1>2, <1>3, <1>4 DEF SS_TypeOK
<1>6. TicksInOrder'
  <2>1. CASE UNCHANGED <<queue, ticks>>
    BY <1>2, <2>1 DEF SS_IInv, TicksInOrder
  <2>2. ASSUME NEW k \in Nat, queue' = Append(queue, k), ticks' = Append(ticks, k)
        PROVE  TicksInOrder'
    <3>1. \A a \in Seq(Nat), b \in Seq(Nat) : a \o Append(b, k) = Append(a \o b, k)
      BY SMTT(30)
    <3>2. out \o getter.tick \in Seq(Nat)
      BY <1>t, Sizes
    <3> QED
      BY <1>t, <1>2, <2>2, <3>1, <3>2, Sizes DEF SS_IInv, TicksInOrder
  <2> QED
    BY <1>1, <2>1, <2>2 DEF ReportsRows
<1>7. GetterIsWaitedFor'
  BY <1>1, <1>2 DEF SS_IInv, GetterIsWaitedFor, Running
<1>8. Fresh' /\ ProbeKnew'
  BY <1>1, <1>2 DEF SS_IInv, Fresh, ProbeKnew
<1>9. OnlyShrinks'
  <2> SUFFICES ASSUME added = 0
               PROVE  /\ Increasing(coll) /\ Increasing(collected')
                      /\ \A j \in 1..Len(collected'), i \in 1..Len(coll) :
                            (scan' = "pages" /\ i > Len(collected')) => collected'[j] < coll[i]
    BY <1>2 DEF OnlyShrinks, Increasing
  <2>1. Increasing(coll) /\ Increasing(collected)
    BY DEF SS_IInv, OnlyShrinks
  <2>2. \A j \in 1..Len(collected), i \in 1..Len(coll) :
          i > Len(collected) => collected[j] < coll[i]
    BY <1>1 DEF SS_IInv, OnlyShrinks
  <2>3. Len(coll) \in Nat /\ Len(collected) \in Nat /\ Initial \in Nat
    BY <1>t, Sizes
  <2>4. CASE Len(collected) < Len(coll)
    <3>1. /\ Len(collected') <= Len(coll)
          /\ \A j \in 1..Len(collected') :
                collected'[j] = IF j <= Len(collected) THEN collected[j] ELSE coll[j]
      BY <1>1, <2>4 DEF AddsRows
    <3>2. Increasing(collected')
      <4>1. ASSUME NEW i \in 1..Len(collected')
            PROVE  collected'[i] \in 1..Initial
        BY <1>3, <2>1, <2>3, <3>1 DEF Increasing
      <4>2. ASSUME NEW i \in 1..Len(collected'), NEW j \in 1..Len(collected'), i < j
            PROVE  collected'[i] < collected'[j]
        <5>1. i \in Nat /\ j \in Nat /\ i >= 1 /\ j >= 1 /\ i <= Len(coll) /\ j <= Len(coll)
          BY <1>3, <2>3, <3>1
        <5>2. CASE j <= Len(collected)
          <6>1. i \in 1..Len(collected) /\ j \in 1..Len(collected) /\ i <= Len(collected)
            BY <2>3, <4>2, <5>1, <5>2
          <6>2. collected[i] < collected[j]
            BY <2>1, <4>2, <6>1 DEF Increasing
          <6> QED
            BY <3>1, <5>2, <6>1, <6>2
        <5>3. CASE ~(j <= Len(collected)) /\ i <= Len(collected)
          <6>1. i \in 1..Len(collected) /\ j \in 1..Len(coll) /\ j > Len(collected)
            BY <2>3, <5>1, <5>3
          <6> QED
            BY <2>2, <3>1, <5>3, <6>1
        <5>4. CASE ~(j <= Len(collected)) /\ ~(i <= Len(collected))
          <6>1. i \in 1..Len(coll) /\ j \in 1..Len(coll)
            BY <2>3, <5>1
          <6>2. coll[i] < coll[j]
            BY <2>1, <4>2, <6>1 DEF Increasing
          <6> QED
            BY <3>1, <5>4, <6>2
        <5> QED
          BY <5>2, <5>3, <5>4
      <4> QED
        BY <4>1, <4>2 DEF Increasing
    <3>3. scan' = "pages" => Len(collected') >= Len(collected)
      BY <1>1 DEF EndsAs
    <3>4. \A j \in 1..Len(collected'), i \in 1..Len(coll) :
             (scan' = "pages" /\ i > Len(collected')) => collected'[j] < coll[i]
      BY <1>3, <2>1, <2>2, <2>3, <3>1, <3>3 DEF Increasing
    <3> QED
      BY <2>1, <3>2, <3>4
  <2>5. CASE ~(Len(collected) < Len(coll))
    <3>1. collected' = collected
      BY <1>1, <2>3, <2>5 DEF AddsRows
    <3> QED
      BY <2>1, <2>2, <3>1
  <2> QED
    BY <2>4, <2>5
<1>10. Untouched'
  <2> SUFFICES ASSUME added + removed = 0
               PROVE  /\ \A j \in 1..Len(coll) : coll[j] = j
                      /\ \A j \in 1..Len(collected') : collected'[j] = j
                      /\ Len(collected') <= Len(coll)
    BY <1>2 DEF Untouched
  <2>1. /\ \A j \in 1..Len(coll) : coll[j] = j
        /\ \A j \in 1..Len(collected) : collected[j] = j
        /\ Len(collected) <= Len(coll)
    BY DEF SS_IInv, Untouched
  <2>2. Len(coll) \in Nat /\ Len(collected) \in Nat
    BY <1>t, Sizes
  <2>3. Len(collected') <= Len(coll)
    BY <1>1, <2>1, <2>2 DEF AddsRows
  <2> QED
    BY <1>1, <1>3, <2>1, <2>2, <2>3 DEF AddsRows
<1>11. SaidComplete'
  <2> SUFFICES ASSUME scan' = "done", complete'
               PROVE  Len(collected') >= Initial /\ (limit = NoLimit => Len(coll) <= Initial)
    BY <1>2 DEF SaidComplete
  <2>1. PICK k \in expected : Len(collected') >= k /\ (limit = NoLimit => Len(coll) <= k)
    BY <1>1 DEF EndsAs
  <2>2. k = Initial
    BY <1>t DEF SS_TypeOK
  <2> QED
    BY <2>1, <2>2
<1>12. QuietIsWhole'
  <2> SUFFICES ASSUME scan' = "done", added + removed = 0, endpoint.total,
                      limit = NoLimit \/ limit >= Initial
               PROVE  complete' /\ Len(collected') = Initial
    BY <1>2 DEF QuietIsWhole
  <2>1. Len(coll) = Initial
    BY <1>t, Sizes
  <2>2. expected = {Initial} /\ Len(collected) <= Len(coll)
    BY <1>1 DEF SS_IInv, ProbeKnew, Untouched
  <2> QED
    BY <1>1, <2>1, <2>2 DEF EndsAs
<1> QED
  BY <1>5, <1>6, <1>7, <1>8, <1>9, <1>10, <1>11, <1>12 DEF SS_IInv

(* The scan fails, or ends because it was cancelled; Jira stays as it is.    *)
LEMMA EndsKeep ==
  ASSUME SS_IInv, ScanFails \/ ScanUnwinds
  PROVE  SS_IInv'
<1>1. SS_TypeOK'
  BY DEF SS_IInv, SS_TypeOK, ScanFails, ScanUnwinds, jira, iterator
<1>2. IteratorInv'
  BY DEF SS_IInv, IteratorInv, GetterIsWaitedFor, TicksInOrder, ScanFails, ScanUnwinds, iterator,
         Running
<1>3. ScanInv'
  BY DEF SS_IInv, ScanInv, Fresh, ProbeKnew, OnlyShrinks, Untouched, SaidComplete,
         QuietIsWhole, ScanFails, ScanUnwinds, jira
<1> QED
  BY <1>1, <1>2, <1>3 DEF SS_IInv, IteratorInv, ScanInv

(* What the scan and Jira do not take part in leaves alone what they say.    *)
LEMMA ScanLeftAlone ==
  ASSUME SS_IInv, UNCHANGED <<jira, limit, expected, collected, complete, ticks>>,
         scan' = scan \/ scan' = "cancelling"
  PROVE  ScanInv'
BY DEF SS_IInv, ScanInv, Fresh, ProbeKnew, OnlyShrinks, Untouched, SaidComplete,
       QuietIsWhole, Increasing, jira

(* A tick is taken off the queue.                                           *)
LEMMA HeadFirst ==
  ASSUME NEW a \in Seq(Nat), NEW q \in Seq(Nat), q # <<>>
  PROVE  /\ Head(q) \in Nat /\ Tail(q) \in Seq(Nat)
         /\ Append(a, Head(q)) \o Tail(q) = a \o q
         /\ (a \o <<Head(q)>>) \o Tail(q) = a \o q
  BY SMTT(30)

(* The types, when only the iterator moves.                                 *)
LEMMA TypedLeftAlone ==
  ASSUME SS_TypeOK, UNCHANGED <<jira, limit, expected, collected, complete, ticks>>,
         scan' = scan \/ scan' = "cancelling",
         queue' \in Seq(Nat), out' \in Seq(Nat),
         getter' \in {None, Waiting} \union {Got(n) : n \in Nat},
         it' \in {"wait", "yield", "drain", "drain yield", "dropped", "finally",
                 "ended", "raised", "abandoned"}
  PROVE  SS_TypeOK'
BY DEF SS_TypeOK, jira

(* The getter takes the oldest tick.                                        *)
LEMMA GetterTakesKeeps ==
  ASSUME ScanAssumption, SS_IInv, GetterTakes
  PROVE  SS_IInv'
<1>t. SS_TypeOK
  BY DEF SS_IInv
<1>1. /\ queue \in Seq(Nat) /\ queue # <<>> /\ out \in Seq(Nat)
      /\ getter = Waiting /\ getter' = Got(Head(queue)) /\ queue' = Tail(queue)
      /\ UNCHANGED <<jira, reading, it, out>>
  BY <1>t, Sizes DEF GetterTakes
<1>2. Head(queue) \in Nat /\ Tail(queue) \in Seq(Nat)
      /\ (out \o <<Head(queue)>>) \o Tail(queue) = out \o queue
  BY <1>1, HeadFirst
<1>3. SS_TypeOK'
  BY <1>t, <1>1, <1>2, TypedLeftAlone DEF reading, SS_TypeOK
<1>4. TicksInOrder'
  <2>1. getter.tick = <<>> /\ getter'.tick = <<Head(queue)>>
    BY <1>1 DEF Waiting, Got
  <2>2. out \o <<>> = out
    BY <1>1
  <2> QED
    BY <1>1, <1>2, <2>1, <2>2 DEF SS_IInv, TicksInOrder, reading
<1>5. GetterIsWaitedFor'
  BY <1>1, <1>2 DEF SS_IInv, GetterIsWaitedFor, reading, Waiting, None, Got
<1>6. ScanInv'
  BY <1>1, ScanLeftAlone DEF reading
<1> QED
  BY <1>3, <1>4, <1>5, <1>6 DEF SS_IInv, ScanInv

(* The iterator has its tick, or sees that the scan is through.             *)
LEMMA WakeKeeps ==
  ASSUME ScanAssumption, SS_IInv, Wake
  PROVE  SS_IInv'
<1>t. SS_TypeOK
  BY DEF SS_IInv
<1>1. /\ queue \in Seq(Nat) /\ out \in Seq(Nat) /\ getter.tick \in Seq(Nat)
      /\ it = "wait" /\ getter' = None
      /\ UNCHANGED <<jira, reading, queue>>
  BY <1>t, Sizes DEF Wake
<1>2. ScanInv'
  BY <1>1, ScanLeftAlone DEF reading
<1>3. None.tick = <<>> /\ Waiting.tick = <<>>
  BY DEF None, Waiting
<1>4. CASE getter.state = "got" /\ it' = "yield" /\ out' = out \o getter.tick
  <2>1. out' \in Seq(Nat) /\ out' \o <<>> = out'
    BY <1>1, <1>4
  <2>2. SS_TypeOK'
    BY <1>t, <1>1, <1>4, <2>1, TypedLeftAlone DEF reading
  <2>3. TicksInOrder'
    BY <1>1, <1>3, <1>4, <2>1 DEF SS_IInv, TicksInOrder, reading
  <2>4. GetterIsWaitedFor'
    BY <1>1, <1>4 DEF SS_IInv, GetterIsWaitedFor, reading
  <2> QED
    BY <1>2, <2>2, <2>3, <2>4 DEF SS_IInv, ScanInv
<1>5. CASE getter = Waiting /\ scan \notin Running /\ it' = "drain" /\ UNCHANGED out
  <2>1. SS_TypeOK'
    BY <1>t, <1>1, <1>5, TypedLeftAlone DEF reading
  <2>2. TicksInOrder'
    BY <1>1, <1>3, <1>5 DEF SS_IInv, TicksInOrder, reading
  <2>3. GetterIsWaitedFor'
    BY <1>1, <1>5 DEF SS_IInv, GetterIsWaitedFor, reading
  <2> QED
    BY <1>2, <2>1, <2>2, <2>3 DEF SS_IInv, ScanInv
<1> QED
  BY <1>4, <1>5 DEF Wake

(* The rest of the queue is handed out.                                     *)
LEMMA DrainKeeps ==
  ASSUME ScanAssumption, SS_IInv, Drain
  PROVE  SS_IInv'
<1>t. SS_TypeOK
  BY DEF SS_IInv
<1>1. /\ queue \in Seq(Nat) /\ out \in Seq(Nat)
      /\ it = "drain" /\ getter = None /\ getter' = None /\ scan \notin Running
      /\ UNCHANGED <<jira, reading, getter>>
  BY <1>t, Sizes DEF Drain, SS_IInv, GetterIsWaitedFor
<1>2. ScanInv'
  BY <1>1, ScanLeftAlone DEF reading
<1>3. None.tick = <<>> /\ out \o <<>> = out
  BY <1>1 DEF None
<1>4. out \o queue = ticks
  BY <1>1, <1>3 DEF SS_IInv, TicksInOrder
<1>5. CASE queue # <<>>
  <2>1. it' = "drain yield" /\ out' = Append(out, Head(queue)) /\ queue' = Tail(queue)
    BY <1>5 DEF Drain
  <2>2. /\ out' \in Seq(Nat) /\ queue' \in Seq(Nat) /\ out' \o <<>> = out'
        /\ out' \o queue' = out \o queue
    <3>1. /\ Head(queue) \in Nat /\ Tail(queue) \in Seq(Nat)
          /\ Append(out, Head(queue)) \o Tail(queue) = out \o queue
      BY <1>1, <1>5, HeadFirst
    <3>2. Append(out, Head(queue)) \in Seq(Nat)
      BY <1>1, <3>1
    <3>3. \A a \in Seq(Nat) : a \o <<>> = a
      OBVIOUS
    <3> QED
      BY <2>1, <3>1, <3>2, <3>3
  <2>3. SS_TypeOK'
    BY <1>t, <1>1, <2>1, <2>2, TypedLeftAlone DEF reading
  <2>4. TicksInOrder'
    BY <1>1, <1>3, <1>4, <2>2 DEF TicksInOrder, reading
  <2>5. GetterIsWaitedFor'
    BY <1>1, <2>1 DEF GetterIsWaitedFor, reading, Running
  <2> QED
    BY <1>2, <2>3, <2>4, <2>5 DEF SS_IInv, ScanInv
<1>6. CASE queue = <<>>
  <2>1. it' \in {"ended", "raised"} /\ UNCHANGED <<out, queue>>
    BY <1>6 DEF Drain
  <2>2. SS_TypeOK'
    BY <1>t, <1>1, <2>1, TypedLeftAlone DEF reading
  <2>3. TicksInOrder'
    BY <1>1, <2>1 DEF SS_IInv, TicksInOrder, reading
  <2>4. GetterIsWaitedFor'
    BY <1>1, <1>6, <2>1 DEF GetterIsWaitedFor, reading, Running
  <2> QED
    BY <1>2, <2>2, <2>3, <2>4 DEF SS_IInv, ScanInv
<1> QED
  BY <1>5, <1>6

(* The consumer asks for the next tick, goes away, or is cleaned up after.   *)
LEMMA ConsumerKeeps ==
  ASSUME ScanAssumption, SS_IInv,
         Resume \/ CancelWait \/ Drop \/ Finalize \/ EndCleanup
  PROVE  SS_IInv'
<1>t. SS_TypeOK
  BY DEF SS_IInv
<1>1. /\ UNCHANGED <<jira, limit, expected, collected, complete, ticks, out, queue>>
      /\ scan' = scan \/ scan' = "cancelling"
      /\ it' \in {"wait", "yield", "drain", "drain yield", "dropped", "finally",
                  "ended", "raised", "abandoned"}
      /\ getter' = getter \/ (getter = None /\ getter' = Waiting)
  BY DEF Resume, CancelWait, Drop, Finalize, EndCleanup, Close, reading, SS_IInv,
         GetterIsWaitedFor
<1>2. SS_TypeOK'
  <2>1. queue' \in Seq(Nat) /\ out' \in Seq(Nat)
    BY <1>t, <1>1, Sizes
  <2>2. getter' \in {None, Waiting} \union {Got(n) : n \in Nat}
    BY <1>t, <1>1 DEF SS_TypeOK
  <2> QED
    BY <1>t, <1>1, <2>1, <2>2, TypedLeftAlone
<1>3. ScanInv'
  BY <1>1, ScanLeftAlone
<1>4. TicksInOrder'
  <2>1. None.tick = Waiting.tick
    BY DEF None, Waiting
  <2>2. getter'.tick = getter.tick /\ UNCHANGED <<out, queue, ticks>>
    BY <1>1, <2>1
  <2> QED
    BY <2>2 DEF SS_IInv, TicksInOrder
<1>5. GetterIsWaitedFor'
  <2>1. GetterIsWaitedFor /\ Waiting # None
    BY DEF SS_IInv, Waiting, None
  <2>2. CASE Resume
    BY <2>1, <2>2 DEF GetterIsWaitedFor, Resume, reading
  <2>3. CASE CancelWait \/ Finalize
    <3>1. /\ it \in {"wait", "dropped"} /\ UNCHANGED <<getter, queue>>
          /\ \/ it' = "finally" /\ scan' = "cancelling"
             \/ it' = "abandoned" /\ UNCHANGED scan /\ scan \notin {"probe", "pages"}
      BY <2>3 DEF CancelWait, Finalize, Close
    <3>2. scan # "cancelling"
      BY <2>1, <3>1 DEF GetterIsWaitedFor
    <3>3. CASE it' = "finally" /\ scan' = "cancelling"
      BY <3>3 DEF GetterIsWaitedFor
    <3>4. CASE it' = "abandoned" /\ UNCHANGED scan /\ scan \notin {"probe", "pages"}
      BY <3>2, <3>4 DEF GetterIsWaitedFor, Running
    <3> QED
      BY <3>1, <3>3, <3>4
  <2>4. CASE Drop \/ EndCleanup
    BY <2>1, <2>4 DEF GetterIsWaitedFor, Drop, EndCleanup, reading, Running
  <2> QED
    BY <2>2, <2>3, <2>4
<1> QED
  BY <1>2, <1>3, <1>4, <1>5 DEF SS_IInv, ScanInv

(* Nothing is read at first.                                                *)
LEMMA SS_InitIInv ==
  ASSUME ScanAssumption, Init
  PROVE  SS_IInv
<1>1. /\ coll \in Seq(Items) /\ Len(coll) = Initial /\ \A k \in 1..Len(coll) : coll[k] = k
  BY DEF Init, Items, ScanAssumption
<1>2. SS_TypeOK
  <2>1. Len(coll) = Initial + added - removed /\ added + removed <= MaxChanges
    BY <1>1 DEF Init, ScanAssumption
  <2> QED
    <3>1. collected \in Seq(Items) /\ queue \in Seq(Nat) /\ out \in Seq(Nat) /\ ticks \in Seq(Nat)
      BY DEF Init
    <3> QED
      BY <1>1, <2>1, <3>1 DEF Init, SS_TypeOK
<1>3. IteratorInv
  BY DEF Init, IteratorInv, GetterIsWaitedFor, TicksInOrder, Waiting, None
<1>4. collected = <<>> /\ Len(collected) = 0 /\ scan = "probe"
  BY DEF Init
<1>5. OnlyShrinks /\ Untouched
  BY <1>1, <1>4 DEF OnlyShrinks, Untouched, Increasing, ScanAssumption
<1>6. Fresh /\ ProbeKnew /\ SaidComplete /\ QuietIsWhole
  BY DEF Init, Fresh, ProbeKnew, SaidComplete, QuietIsWhole
<1> QED
  BY <1>2, <1>3, <1>5, <1>6 DEF SS_IInv, IteratorInv

(* Every step of the scan, the iterator and of others keeps the invariant.  *)
LEMMA SS_NextKeeps ==
  ASSUME ScanAssumption, SS_IInv, [Next]_vars
  PROVE  SS_IInv'
<1>1. ASSUME NEW k \in 1..(Len(coll) + 1), ItemAdded(k)  PROVE SS_IInv'
  BY <1>1, AddedKeeps
<1>2. ASSUME NEW k \in DOMAIN coll, ItemRemoved(k)  PROVE SS_IInv'
  BY <1>2, RemovedKeeps
<1>3. CASE Probe
  BY <1>3, ProbeKeeps
<1>4. CASE ReadPage
  BY <1>4, ReadKeeps
<1>5. CASE ScanFails \/ ScanUnwinds
  BY <1>5, EndsKeep
<1>6. CASE GetterTakes
  BY <1>6, GetterTakesKeeps
<1>7. CASE Wake
  BY <1>7, WakeKeeps
<1>8. CASE Drain
  BY <1>8, DrainKeeps
<1>9. CASE Resume \/ CancelWait \/ Drop \/ Finalize \/ EndCleanup
  BY <1>9, ConsumerKeeps
<1>10. CASE UNCHANGED vars
  <2>1. UNCHANGED <<coll, endpoint, throughout, added, removed, limit, scan, expected,
                    collected, complete, ticks, getter, it, out, queue>>
    BY <1>10 DEF vars, jira, reading, iterator
  <2> QED
    <3>1. SS_TypeOK'
      BY <2>1 DEF SS_IInv, SS_TypeOK
    <3>2. IteratorInv'
      BY <2>1 DEF SS_IInv, IteratorInv, GetterIsWaitedFor, TicksInOrder
    <3>3. ScanInv'
      BY <2>1, ScanLeftAlone DEF jira
    <3> QED
      BY <3>1, <3>2, <3>3 DEF SS_IInv, IteratorInv, ScanInv
<1> QED
  BY <1>1, <1>2, <1>3, <1>4, <1>5, <1>6, <1>7, <1>8, <1>9, <1>10 DEF Next, Scan, Iterator

(* The invariant holds for any collection, page size, limit and number of    *)
(* changes while the scan runs.                                             *)
THEOREM SS_Invariance == Spec => []SS_IInv
<1>1. Init => SS_IInv
  BY SS_InitIInv, ScanAssumption
<1>2. SS_IInv /\ [Next]_vars => SS_IInv'
  BY SS_NextKeeps, ScanAssumption
<1> QED
  BY <1>1, <1>2, PTL DEF Spec

(* A count of Initial numbers in order between 1 and Initial leaves none out.*)
LEMMA AllOfThem ==
  ASSUME ScanAssumption, NEW s \in Seq(Items), Increasing(s), Len(s) >= Initial
  PROVE  Len(s) = Initial /\ 1..Initial \subseteq {s[k] : k \in DOMAIN s}
<1> DEFINE S == 1..Len(s)
           T == 1..Initial
<1>1. Len(s) \in Nat /\ Initial \in Nat /\ DOMAIN s = S
  BY DEF ScanAssumption
<1>2. s \in [S -> T]
  BY <1>1 DEF Increasing
<1>3. \A j, k \in S : s[j] = s[k] => j = k
  BY <1>1 DEF Increasing
<1>4. s \in Injection(S, T)
  BY <1>2, <1>3, Fun_IsInj
<1>5. /\ IsFiniteSet(S) /\ Cardinality(S) = Len(s)
      /\ IsFiniteSet(T) /\ Cardinality(T) = Initial
  <2>1. ASSUME NEW n \in Nat
        PROVE  IsFiniteSet(1..n) /\ Cardinality(1..n) = n
    <3>1. IsFiniteSet(1..n) /\ Cardinality(1..n) = IF 1 > n THEN 0 ELSE n - 1 + 1
      <4> 1 \in Int /\ n \in Int
        OBVIOUS
      <4> QED
        BY FS_Interval
    <3> QED
      BY <3>1
  <2> QED
    BY <1>1, <2>1
<1> HIDE DEF S, T
<1>6. /\ Cardinality(S) <= Cardinality(T)
      /\ Cardinality(S) = Cardinality(T) => s \in Surjection(S, T)
  BY <1>4, <1>5, FS_Injection
<1>7. Len(s) = Initial
  BY <1>1, <1>5, <1>6
<1>8. s \in Surjection(S, T)
  BY <1>5, <1>6, <1>7
<1>9. \A t \in T : \E k \in S : s[k] = t
  BY <1>8, Fun_SurjectionProperties
<1> QED
  BY <1>1, <1>7, <1>9 DEF T

(* No tick is lost, doubled or overtaken, whatever the collection is.        *)
THEOREM TicksDeliveredAlways == Spec => []TicksDelivered
<1>1. ASSUME SS_IInv
      PROVE  TicksDelivered
  <2>1. out \o getter.tick \o queue = ticks
    BY <1>1 DEF SS_IInv, TicksInOrder
  <2>2. ASSUME it \in {"ended", "raised"}
        PROVE  out = ticks
    <3>1. getter = None /\ queue = <<>> /\ out \in Seq(Nat)
      BY <1>1, <2>2 DEF SS_IInv, SS_TypeOK, GetterIsWaitedFor
    <3>2. getter.tick = <<>>
      BY <3>1 DEF None
    <3>3. out \o <<>> \o <<>> = out
      BY <3>1
    <3> QED
      BY <2>1, <3>1, <3>2, <3>3
  <2> QED
    BY <2>1, <2>2 DEF TicksDelivered
<1> QED
  BY <1>1, SS_Invariance, PTL

(* When the iterator has ended, however it did, the scan is through and no   *)
(* getter is left waiting (sse_scan).                                       *)
THEOREM NothingOutlivesAlways == Spec => []NothingOutlives
<1>1. SS_IInv => NothingOutlives
  BY DEF SS_IInv, GetterIsWaitedFor, NothingOutlives
<1> QED
  BY <1>1, SS_Invariance, PTL

(* What a scan says of itself is true.                                      *)
THEOREM VerdictTrueAlways == Spec => []VerdictTrue
<1>1. ASSUME SS_IInv
      PROVE  VerdictTrue
  <2>t. SS_TypeOK
    BY <1>1 DEF SS_IInv
  <2>1. CompleteIsWhole
    <3> SUFFICES ASSUME scan = "done", complete,
                        ~(added > 0 /\ (removed > 0 \/ limit # NoLimit))
                 PROVE  throughout \subseteq Seen
      BY DEF CompleteIsWhole
    <3>1. Len(collected) >= Initial /\ (limit = NoLimit => Len(coll) <= Initial)
      BY <1>1 DEF SS_IInv, SaidComplete
    <3>2. added = 0
      <4>1. added \in Nat /\ removed \in Nat /\ Initial \in Nat
            /\ Len(coll) = Initial + added - removed
        BY <2>t, Sizes, ScanAssumption
      <4> QED
        BY <3>1, <4>1
    <3>3. Increasing(collected) /\ collected \in Seq(Items)
      BY <1>1, <2>t, <3>2 DEF SS_IInv, OnlyShrinks, SS_TypeOK
    <3>4. 1..Initial \subseteq Seen
      BY <3>1, <3>3, AllOfThem, ScanAssumption DEF Seen
    <3> QED
      BY <2>t, <3>4 DEF SS_TypeOK
  <2>2. QuietScanSucceeds
    <3> SUFFICES ASSUME scan = "done", added + removed = 0, endpoint.total,
                        limit = NoLimit \/ limit >= Initial
                 PROVE  complete /\ collected = coll
      BY DEF QuietScanSucceeds
    <3>1. complete /\ Len(collected) = Initial
      BY <1>1 DEF SS_IInv, QuietIsWhole
    <3>2. Len(coll) = Initial /\ coll \in Seq(Items) /\ collected \in Seq(Items)
      BY <2>t, Sizes, ScanAssumption
    <3>3. /\ \A k \in 1..Len(coll) : coll[k] = k
          /\ \A k \in 1..Len(collected) : collected[k] = k
      BY <1>1 DEF SS_IInv, Untouched
    <3>4. collected = coll
      BY <3>1, <3>2, <3>3
    <3> QED
      BY <3>1, <3>4
  <2> QED
    BY <2>1, <2>2 DEF VerdictTrue
<1> QED
  BY <1>1, SS_Invariance, PTL

------------------------------------------------------------------------------
(***************************************************************************)
(* The creation of spaces                                                   *)
(***************************************************************************)

(* A run at work, a space that there is, and an entry of the journal.       *)
SC_RunRecords ==
  [step : {"send", "scheme", "put", "item"}, op : {"create", "delete"}, key : Keys, of : Nat,
   sends : Nat, scheme : {"none", "default"}, ok : BOOLEAN, caveat : BOOLEAN]
SC_Spaces ==
  {FreeKey} \union
  [state : {"live", "trash"}, by : Runs \union {"other"}, template : {"none", "template"},
   scheme : {"none", "template", "default"}, completed : BOOLEAN]
SC_Entries == [op : {"create", "delete"}, key : Keys, status : {"active", "undone"}]

(* The state has the types it has in the source.                            *)
SC_TypeOK ==
  /\ space \in [Keys -> SC_Spaces]
  /\ checked \subseteq Keys
  /\ run \in [Runs -> SC_RunRecords \union {SC_Idle}]
  /\ log \in Seq(SC_Entries)
  /\ cached \in {"none", "fresh", "stale"}
  /\ begun \in Nat /\ sc_outside \in Nat /\ sc_told \subseteq Keys /\ handed \subseteq Keys

(* r is at work on k to do op; it has made k, and completes it or reports it.*)
On(r, op, k) == run[r] # SC_Idle /\ run[r].op = op /\ run[r].key = k
Makes(r, k) ==
  On(r, "create", k) /\ (run[r].step \in {"scheme", "put"} \/ (run[r].step = "item" /\ run[r].ok))

(* An entry that would trash k; a space that the program made.              *)
Undoes(e, k) == Active(e) /\ log[e].op = "delete" /\ log[e].key = k
Ours(k) == Live(k) /\ space[k].by # "other"

(* Only a creation is completed, and an undo does what its entry says.      *)
RunsOfEntries ==
  \A r \in Runs : run[r] # SC_Idle =>
    /\ run[r].step \in {"scheme", "put"} => run[r].op = "create"
    /\ run[r].of # 0 => /\ run[r].of \in DOMAIN log
                        /\ log[run[r].of].op = run[r].op /\ log[run[r].of].key = run[r].key
    /\ run[r].op = "delete" => run[r].of # 0

(* What others made before anything else happened is left alone.            *)
NotKept ==
  \A k \in Keys \ handed :
     (Live(k) /\ space[k].by = "other") =>
       /\ k \notin checked
       /\ \A r \in Runs : run[r] # SC_Idle => run[r].key # k
       /\ \A e \in DOMAIN log : log[e].key # k

(* Of a key that is all the program's own: who has made it still has it, ...*)
MakerHasIt(k) ==
  \A r \in Runs : Makes(r, k) =>
    /\ Live(k) /\ space[k].by = r
    /\ \A e \in DOMAIN log : ~Undoes(e, k)
    /\ \A s \in Runs : ~On(s, "delete", k)

(* ... a live one is undone by an entry, or by one that is about to be written,*)
LiveIsOwned(k) ==
  Ours(k) => (\E e \in DOMAIN log : Undoes(e, k)) \/ (\E r \in Runs : On(r, "create", k))

(* ... by one only,                                                         *)
OneUndo(k) == \A e, f \in DOMAIN log : Undoes(e, k) /\ Undoes(f, k) => e = f

(* ... there is something to undo,                                          *)
UndoHasIt(k) == \A e \in DOMAIN log : Undoes(e, k) => space[k].state # "free"

(* ... of which the undo is still at work when it is in the trash,          *)
TrashedByUndo(k) ==
  \A e \in DOMAIN log : (Undoes(e, k) /\ space[k].state = "trash") =>
     \E r \in Runs : On(r, "delete", k) /\ run[r].of = e

(* ... and a run that deletes finds what its entry made, or that in the trash.*)
Deleters(k) ==
  \A r \in Runs : On(r, "delete", k) =>
    /\ space[k].state # "free"
    /\ Live(k) => Active(run[r].of)
    /\ (run[r].step = "item" /\ run[r].ok) => space[k].state = "trash"

(* All of that of one key.                                                 *)
InHand(k) ==
  MakerHasIt(k) /\ LiveIsOwned(k) /\ OneUndo(k) /\ UndoHasIt(k) /\ TrashedByUndo(k) /\ Deleters(k)

(* ... unless the operator was told, or somebody else had it.              *)
QuietKeys == \A k \in Keys \ (sc_told \union handed) : InHand(k)

(* An outdated scan is still to be dropped, or the operator was told.       *)
ScanSeenTo == cached = "stale" => (sc_told # {} \/ ~AtRest)

(* No default takes the place of a scheme that the template set.            *)
SchemesKept ==
  \A k \in Keys \ handed :
    /\ (Live(k) /\ space[k].template # "none") => space[k].scheme = space[k].template
    /\ \A r \in Runs : (run[r] # SC_Idle /\ run[r].key = k) =>
         /\ run[r].step \in {"scheme", "put"} => space[k].state # "free"
         /\ (run[r].step = "put" /\ run[r].scheme # "none") =>
                (~Live(k) \/ space[k].template = "none")
         /\ (At(r, "item") /\ run[r].op = "create" /\ run[r].ok /\ ~run[r].caveat)
              => (Live(k) /\ space[k].by = r => space[k].completed)

(* The inductive invariant.                                                 *)
SC_IInv == SC_TypeOK /\ RunsOfEntries /\ NotKept /\ QuietKeys /\ ScanSeenTo /\ SchemesKept

(* A run stays with its task.                                               *)
SameTask(n, m) == n.op = m.op /\ n.key = m.key /\ n.of = m.of

(* A run that has come to a step is at work.                                *)
LEMMA RunIsRecord ==
  ASSUME SC_TypeOK, NEW r \in Runs, NEW s, s # "idle", run[r].step = s
  PROVE  run[r] \in SC_RunRecords /\ run[r] # SC_Idle
  BY DEF SC_TypeOK, SC_Idle

(* No answer: sent again, or given up.                                      *)
LEMMA NoAnswerEffects ==
  ASSUME SC_TypeOK, NEW r \in Runs, run[r] \in SC_RunRecords, run[r].step = "send", NoAnswer(r)
  PROVE  \E n \in SC_RunRecords :
           /\ run' = [run EXCEPT ![r] = n] /\ SameTask(n, run[r])
           /\ n.step = "send" \/ (n.step = "item" /\ ~n.ok)
<1>1. CASE run[r].sends + 1 < SC_MaxSends
  <2> DEFINE n == [run[r] EXCEPT !.sends = @ + 1]
  <2>1. run' = [run EXCEPT ![r] = n]
    BY <1>1 DEF NoAnswer
  <2>2. n \in SC_RunRecords /\ SameTask(n, run[r]) /\ n.step = "send"
    BY DEF SC_RunRecords, SameTask
  <2> QED
    BY <2>1, <2>2
<1>2. CASE ~(run[r].sends + 1 < SC_MaxSends)
  <2> DEFINE n == [run[r] EXCEPT !.step = "item", !.ok = FALSE, !.caveat = FALSE]
  <2>1. run' = [run EXCEPT ![r] = n]
    BY <1>2 DEF NoAnswer, Result
  <2>2. n \in SC_RunRecords /\ SameTask(n, run[r]) /\ n.step = "item" /\ ~n.ok
    BY DEF SC_RunRecords, SameTask
  <2> QED
    BY <2>1, <2>2
<1> QED
  BY <1>1, <1>2

(* A result is what it is said to be.                                       *)
LEMMA ResultEffects ==
  ASSUME SC_TypeOK, NEW r \in Runs, run[r] \in SC_RunRecords,
         NEW ok \in BOOLEAN, NEW caveat \in BOOLEAN, Result(r, ok, caveat)
  PROVE  \E n \in SC_RunRecords :
           /\ run' = [run EXCEPT ![r] = n] /\ SameTask(n, run[r])
           /\ n.step = "item" /\ n.ok = ok /\ n.caveat = caveat
<1> DEFINE n == [run[r] EXCEPT !.step = "item", !.ok = ok, !.caveat = caveat]
<1>1. run' = [run EXCEPT ![r] = n]
  BY DEF Result
<1>2. /\ n \in SC_RunRecords /\ SameTask(n, run[r])
      /\ n.step = "item" /\ n.ok = ok /\ n.caveat = caveat
  BY DEF SC_RunRecords, SameTask
<1> QED
  BY <1>1, <1>2

(* POST: what it does to the run and to the space.                          *)
LEMMA PostEffects ==
  ASSUME SC_TypeOK, NEW r \in Runs, Post(r)
  PROVE  /\ run[r] \in SC_RunRecords /\ run[r].op = "create" /\ run[r].step = "send"
         /\ UNCHANGED <<checked, log, begun, sc_outside, sc_told, handed>>
         /\ \E n \in SC_RunRecords :
              /\ run' = [run EXCEPT ![r] = n] /\ SameTask(n, run[r])
              /\ \/ /\ space[run[r].key] = FreeKey
                    /\ \E t \in {"none", "template"} :
                         space' = [space EXCEPT ![run[r].key] = Made(r, t)]
                    /\ cached' = IF cached = "fresh" THEN "stale" ELSE cached
                    /\ n.step \in {"send", "scheme"} \/ (n.step = "item" /\ ~n.ok)
                 \/ /\ UNCHANGED <<space, cached>>
                    /\ n.step = "send" \/ (n.step = "item" /\ ~n.ok)
<1>1. run[r] \in SC_RunRecords /\ run[r].op = "create" /\ run[r].step = "send"
  BY RunIsRecord DEF Post, At
<1>2. UNCHANGED <<checked, log, begun, sc_outside, sc_told, handed>>
  BY DEF Post, Quiet
<1>3. CASE /\ space[run[r].key] = FreeKey /\ Ages
           /\ \E t \in {"none", "template"} :
                space' = [space EXCEPT ![run[r].key] = Made(r, t)]
           /\ Goes(r, "scheme") \/ NoAnswer(r)
  <2>1. CASE Goes(r, "scheme")
    <3> DEFINE n == [run[r] EXCEPT !.step = "scheme"]
    <3>1. run' = [run EXCEPT ![r] = n]
      BY <2>1 DEF Goes
    <3>2. n \in SC_RunRecords /\ SameTask(n, run[r]) /\ n.step = "scheme"
      BY <1>1 DEF SC_RunRecords, SameTask
    <3> QED
      BY <1>1, <1>2, <1>3, <3>1, <3>2 DEF Ages
  <2>2. CASE NoAnswer(r)
    <3>1. PICK n \in SC_RunRecords :
            /\ run' = [run EXCEPT ![r] = n] /\ SameTask(n, run[r])
            /\ n.step = "send" \/ (n.step = "item" /\ ~n.ok)
      BY <1>1, <2>2, NoAnswerEffects
    <3> QED
      BY <1>1, <1>2, <1>3, <3>1 DEF Ages
  <2> QED
    BY <1>3, <2>1, <2>2
<1>4. CASE (Result(r, FALSE, FALSE) \/ NoAnswer(r)) /\ UNCHANGED <<space, cached>>
  <2>1. PICK n \in SC_RunRecords :
          /\ run' = [run EXCEPT ![r] = n] /\ SameTask(n, run[r])
          /\ n.step = "send" \/ (n.step = "item" /\ ~n.ok)
    BY <1>1, <1>4, NoAnswerEffects, ResultEffects
  <2> QED
    BY <1>1, <1>2, <1>4, <2>1
<1> QED
  BY <1>3, <1>4 DEF Post

(* DELETE: the same.                                                        *)
LEMMA TrashEffects ==
  ASSUME SC_TypeOK, NEW r \in Runs, Trash(r)
  PROVE  /\ run[r] \in SC_RunRecords /\ run[r].op = "delete" /\ run[r].step = "send"
         /\ UNCHANGED <<checked, log, begun, sc_outside, sc_told, handed>>
         /\ \E n \in SC_RunRecords :
              /\ run' = [run EXCEPT ![r] = n] /\ SameTask(n, run[r])
              /\ n.step = "send" \/ n.step = "item"
              /\ \/ /\ Live(run[r].key) /\ space' = Gone(run[r].key)
                    /\ cached' = IF cached = "fresh" THEN "stale" ELSE cached
                 \/ /\ UNCHANGED <<space, cached>>
                    /\ (n.step = "item" /\ n.ok) => ~Live(run[r].key)
<1>1. run[r] \in SC_RunRecords /\ run[r].op = "delete" /\ run[r].step = "send"
  BY RunIsRecord DEF Trash, At
<1>2. UNCHANGED <<checked, log, begun, sc_outside, sc_told, handed>>
  BY DEF Trash, Quiet
<1>3. CASE /\ Live(run[r].key) /\ space' = Gone(run[r].key) /\ Ages
           /\ Result(r, TRUE, FALSE) \/ NoAnswer(r)
  <2>1. PICK n \in SC_RunRecords :
          /\ run' = [run EXCEPT ![r] = n] /\ SameTask(n, run[r])
          /\ n.step = "send" \/ n.step = "item"
    BY <1>1, <1>3, NoAnswerEffects, ResultEffects
  <2> QED
    BY <1>1, <1>2, <1>3, <2>1 DEF Ages
<1>4. CASE ~Live(run[r].key) /\ Result(r, TRUE, FALSE) /\ UNCHANGED <<space, cached>>
  <2>1. PICK n \in SC_RunRecords :
          run' = [run EXCEPT ![r] = n] /\ SameTask(n, run[r]) /\ n.step = "item"
    BY <1>1, <1>4, ResultEffects
  <2> QED
    BY <1>1, <1>2, <1>4, <2>1
<1>5. CASE (Result(r, FALSE, FALSE) \/ NoAnswer(r)) /\ UNCHANGED <<space, cached>>
  <2>1. PICK n \in SC_RunRecords :
          /\ run' = [run EXCEPT ![r] = n] /\ SameTask(n, run[r])
          /\ n.step = "send" \/ (n.step = "item" /\ ~n.ok)
    BY <1>1, <1>5, NoAnswerEffects, ResultEffects
  <2> QED
    BY <1>1, <1>2, <1>5, <2>1
<1> QED
  BY <1>3, <1>4, <1>5 DEF Trash

(* A default is only chosen if the space shows no scheme.                   *)
LEMMA ReadSchemesEffects ==
  ASSUME SC_TypeOK, NEW r \in Runs, ReadSchemes(r)
  PROVE  /\ run[r] \in SC_RunRecords /\ run[r].step = "scheme"
         /\ UNCHANGED <<space, cached, checked, log, begun, sc_outside, sc_told, handed>>
         /\ \E n \in SC_RunRecords :
              /\ run' = [run EXCEPT ![r] = n] /\ SameTask(n, run[r]) /\ n.step = "put"
              /\ n.scheme # "none" => (~Live(run[r].key) \/ space[run[r].key].scheme = "none")
<1>1. run[r] \in SC_RunRecords /\ run[r].step = "scheme"
  BY RunIsRecord DEF ReadSchemes, At
<1>2. PICK missing \in MissingScheme(run[r].key), read \in BOOLEAN :
        run' = [run EXCEPT ![r].step = "put",
                           ![r].scheme = IF missing /\ read THEN "default" ELSE "none"]
  BY DEF ReadSchemes
<1> DEFINE n == [run[r] EXCEPT !.step = "put",
                               !.scheme = IF missing /\ read THEN "default" ELSE "none"]
<1>3. run' = [run EXCEPT ![r] = n]
  BY <1>2
<1>4. n \in SC_RunRecords /\ SameTask(n, run[r]) /\ n.step = "put"
  BY <1>1 DEF SC_RunRecords, SameTask
<1>5. n.scheme # "none" => missing
  BY <1>1 DEF SC_RunRecords
<1>6. missing => (~Live(run[r].key) \/ space[run[r].key].scheme = "none")
  BY <1>2 DEF MissingScheme
<1> HIDE DEF n
<1> QED
  BY <1>1, <1>3, <1>4, <1>5, <1>6 DEF ReadSchemes, Quiet

(* PUT: the space stays whose it is.                                        *)
LEMMA CompleteEffects ==
  ASSUME SC_TypeOK, NEW r \in Runs, Complete(r)
  PROVE  /\ run[r] \in SC_RunRecords /\ run[r].step = "put"
         /\ UNCHANGED <<cached, checked, log, begun, sc_outside, sc_told, handed>>
         /\ \E n \in SC_RunRecords :
              /\ run' = [run EXCEPT ![r] = n] /\ SameTask(n, run[r]) /\ n.step = "item" /\ n.ok
              /\ \/ /\ Live(run[r].key)
                    /\ \E s \in SC_Spaces :
                         /\ space' = [space EXCEPT ![run[r].key] = s]
                         /\ s.state = "live" /\ s.by = space[run[r].key].by
                         /\ s.template = space[run[r].key].template /\ s.completed
                         /\ s.scheme = IF run[r].scheme = "none" THEN space[run[r].key].scheme
                                       ELSE run[r].scheme
                 \/ UNCHANGED space /\ n.caveat
<1>1. run[r] \in SC_RunRecords /\ run[r].step = "put"
  BY RunIsRecord DEF Complete, At
<1>2. UNCHANGED <<cached, checked, log, begun, sc_outside, sc_told, handed>>
  BY DEF Complete, Quiet
<1> DEFINE k == run[r].key
           s == [space[k] EXCEPT !.completed = TRUE,
                                 !.scheme = IF run[r].scheme = "none" THEN @ ELSE run[r].scheme]
<1>3. CASE /\ Live(run[r].key)
           /\ space' = [space EXCEPT ![run[r].key].completed = TRUE,
                           ![run[r].key].scheme = IF run[r].scheme = "none" THEN @
                                                  ELSE run[r].scheme]
           /\ \E caveat \in BOOLEAN : Result(r, TRUE, caveat)
  <2>1. PICK n \in SC_RunRecords :
          run' = [run EXCEPT ![r] = n] /\ SameTask(n, run[r]) /\ n.step = "item" /\ n.ok = TRUE
    BY <1>1, <1>3, ResultEffects
  <2>2. space' = [space EXCEPT ![k] = s]
    BY <1>3
  <2>3. space[k] \in [state : {"live", "trash"}, by : Runs \union {"other"},
                      template : {"none", "template"},
                      scheme : {"none", "template", "default"}, completed : BOOLEAN]
    BY <1>1, <1>3 DEF Live, FreeKey, SC_TypeOK, SC_Spaces, SC_RunRecords
  <2>4. /\ s \in SC_Spaces /\ s.state = "live" /\ s.by = space[k].by
        /\ s.template = space[k].template /\ s.completed = TRUE
        /\ s.scheme = IF run[r].scheme = "none" THEN space[k].scheme ELSE run[r].scheme
    BY <1>1, <1>3, <2>3 DEF Live, SC_Spaces, SC_RunRecords
  <2> HIDE DEF s
  <2> QED
    BY <1>1, <1>2, <1>3, <2>1, <2>2, <2>4
<1>4. CASE Result(r, TRUE, TRUE) /\ UNCHANGED space
  <2>1. PICK n \in SC_RunRecords :
          /\ run' = [run EXCEPT ![r] = n] /\ SameTask(n, run[r])
          /\ n.step = "item" /\ n.ok = TRUE /\ n.caveat = TRUE
    BY <1>1, <1>4, ResultEffects
  <2> QED
    BY <1>1, <1>2, <1>4, <2>1
<1> QED
  BY <1>3, <1>4 DEF Complete

(* The end: what the journal undoes then.                                   *)
LEMMA EndsEffects ==
  ASSUME SC_TypeOK, RunsOfEntries, NEW r \in Runs, SC_Ends(r)
  PROVE  /\ run[r] \in SC_RunRecords /\ run[r].step = "item"
         /\ UNCHANGED <<space, checked, begun, sc_outside, handed>>
         /\ run' = [run EXCEPT ![r] = SC_Idle]
         /\ cached' = IF run[r].ok THEN "none" ELSE cached
         /\ sc_told' = IF run[r].ok THEN sc_told ELSE sc_told \union {run[r].key}
         /\ log' \in Seq(SC_Entries) /\ DOMAIN log \subseteq DOMAIN log'
         /\ run[r].ok => /\ Len(log') = Len(log) + 1
                         /\ log'[Len(log) + 1].op = Flip(run[r].op)
                         /\ log'[Len(log) + 1].key = run[r].key
                         /\ log'[Len(log) + 1].status = "active"
         /\ ~run[r].ok => Len(log') = Len(log)
         /\ \A e \in DOMAIN log :
              /\ log'[e].op = log[e].op /\ log'[e].key = log[e].key
              /\ log'[e].status = (IF e = run[r].of THEN "undone" ELSE log[e].status)
         /\ \A e \in DOMAIN log', k \in Keys :
              Undoes(e, k)' <=>
                \/ e \in DOMAIN log /\ Undoes(e, k) /\ e # run[r].of
                \/ e = Len(log) + 1 /\ run[r].ok /\ run[r].op = "create" /\ run[r].key = k
<1>1. run[r] \in SC_RunRecords /\ run[r].step = "item" /\ run[r] # SC_Idle
  BY RunIsRecord DEF SC_Ends, At
<1> DEFINE new == [op |-> Flip(run[r].op), key |-> run[r].key, status |-> "active"]
           m == IF run[r].ok THEN Len(log) + 1 ELSE Len(log)
<1>2. /\ new \in SC_Entries /\ log \in Seq(SC_Entries)
      /\ Len(log) \in Nat /\ DOMAIN log = 1..Len(log)
  BY <1>1 DEF SC_Entries, Flip, SC_RunRecords, SC_TypeOK
<1>3. /\ Journaled(r) \in Seq(SC_Entries) /\ Len(Journaled(r)) = m
      /\ \A e \in 1..Len(log) : Journaled(r)[e] = log[e]
      /\ run[r].ok => Journaled(r)[Len(log) + 1] = new
  BY <1>2 DEF Journaled
<1>4. m \in Nat /\ DOMAIN Journaled(r) = 1..m
  BY <1>2, <1>3
<1> HIDE DEF m, new
<1>5. log' = [e \in 1..m |-> IF e = run[r].of THEN [Journaled(r)[e] EXCEPT !.status = "undone"]
                              ELSE Journaled(r)[e]]
  BY <1>4 DEF SC_Ends, MarkedUndone
<1>6. \A e \in 1..m : Journaled(r)[e] \in SC_Entries
  BY <1>3, <1>4
<1>7. \A e \in 1..m : [Journaled(r)[e] EXCEPT !.status = "undone"] \in SC_Entries
  BY <1>6 DEF SC_Entries
<1>8. log' \in [1..m -> SC_Entries]
  BY <1>5, <1>6, <1>7
<1>9. log' \in Seq(SC_Entries) /\ Len(log') = m /\ DOMAIN log' = 1..m
  BY <1>4, <1>8
<1>10. \A e \in 1..m : /\ log'[e].op = Journaled(r)[e].op /\ log'[e].key = Journaled(r)[e].key
                       /\ log'[e].status = (IF e = run[r].of THEN "undone"
                                            ELSE Journaled(r)[e].status)
  BY <1>5, <1>6 DEF SC_Entries
<1>11. 1..Len(log) \subseteq 1..m
  BY <1>2 DEF m
<1>12. \A e \in DOMAIN log :
         /\ log'[e].op = log[e].op /\ log'[e].key = log[e].key
         /\ log'[e].status = (IF e = run[r].of THEN "undone" ELSE log[e].status)
  BY <1>2, <1>3, <1>10, <1>11
<1>13. run[r].of \in Nat /\ run[r].of # Len(log) + 1
  BY <1>1, <1>2 DEF RunsOfEntries, SC_RunRecords
<1>14. run[r].ok => /\ Len(log') = Len(log) + 1
                    /\ log'[Len(log) + 1].op = Flip(run[r].op)
                    /\ log'[Len(log) + 1].key = run[r].key
                    /\ log'[Len(log) + 1].status = "active"
  BY <1>2, <1>3, <1>9, <1>10, <1>13 DEF m, new
<1>15. DOMAIN log \subseteq DOMAIN log' /\ (~run[r].ok => Len(log') = Len(log))
  BY <1>2, <1>9, <1>11 DEF m
<1>16. ASSUME NEW e \in DOMAIN log', NEW k \in Keys
       PROVE  Undoes(e, k)' <=>
                \/ e \in DOMAIN log /\ Undoes(e, k) /\ e # run[r].of
                \/ e = Len(log) + 1 /\ run[r].ok /\ run[r].op = "create" /\ run[r].key = k
  <2>1. CASE e \in DOMAIN log
    <3>1. e # Len(log) + 1
      BY <1>2, <2>1
    <3> QED
      BY <1>12, <2>1, <3>1 DEF Undoes, Active
  <2>2. CASE e \notin DOMAIN log
    <3>1. e = Len(log) + 1 /\ run[r].ok
      BY <1>2, <1>9, <2>2 DEF m
    <3> QED
      BY <1>1, <1>14, <2>2, <3>1 DEF Undoes, Active, Flip, SC_RunRecords
  <2> QED
    BY <2>1, <2>2
<1> QED
  BY <1>1, <1>9, <1>12, <1>14, <1>15, <1>16 DEF SC_Ends

(* A scan is kept: it is fresh.                                             *)
LEMMA SC_KeepScanKeeps ==
  ASSUME SC_IInv, KeepScan
  PROVE  SC_IInv'
<1>1. SC_TypeOK'
  BY DEF SC_IInv, SC_TypeOK, KeepScan
<1>2. RunsOfEntries'
  BY DEF SC_IInv, SC_TypeOK, RunsOfEntries, SC_Idle, KeepScan
<1>3. NotKept'
  BY DEF SC_IInv, SC_TypeOK, NotKept, Live, SC_Idle, KeepScan
<1>4. ScanSeenTo'
  BY DEF SC_IInv, SC_TypeOK, ScanSeenTo, AtRest, SC_Idle, KeepScan
<1>5. SchemesKept'
  BY DEF SC_IInv, SC_TypeOK, SchemesKept, Live, At, SC_Idle, KeepScan
<1>a. ASSUME NEW q \in Keys \ (sc_told' \union handed')
     PROVE  InHand(q)'
  <2>1. MakerHasIt(q)'
    BY <1>a DEF SC_IInv, SC_TypeOK, QuietKeys, InHand, MakerHasIt, Makes, On, Undoes, Active,
                Live, SC_Idle, KeepScan
  <2>2. LiveIsOwned(q)'
    BY <1>a DEF SC_IInv, SC_TypeOK, QuietKeys, InHand, LiveIsOwned, Ours, Live, Undoes, Active,
                On, SC_Idle, KeepScan
  <2>3. OneUndo(q)'
    BY <1>a DEF SC_IInv, SC_TypeOK, QuietKeys, InHand, OneUndo, Undoes, Active, KeepScan
  <2>4. UndoHasIt(q)'
    BY <1>a DEF SC_IInv, SC_TypeOK, QuietKeys, InHand, UndoHasIt, Undoes, Active, KeepScan
  <2>5. TrashedByUndo(q)'
    BY <1>a DEF SC_IInv, SC_TypeOK, QuietKeys, InHand, TrashedByUndo, Undoes, Active, On,
                SC_Idle, KeepScan
  <2>6. Deleters(q)'
    BY <1>a DEF SC_IInv, SC_TypeOK, QuietKeys, InHand, Deleters, On, Live, Active, SC_Idle,
                KeepScan
  <2> QED
    BY <2>1, <2>2, <2>3, <2>4, <2>5, <2>6 DEF InHand
<1> QED
  BY <1>1, <1>2, <1>3, <1>4, <1>5, <1>a DEF SC_IInv, QuietKeys

(* Jira empties its trash: nothing is at work on what was in it.            *)
LEMMA SC_PurgedKeeps ==
  ASSUME SC_IInv, NEW k \in Keys, Purged(k)
  PROVE  SC_IInv'
<1>0. /\ SC_TypeOK /\ RunsOfEntries /\ NotKept /\ QuietKeys /\ SchemesKept
      /\ \A r \in Runs : run[r] = SC_Idle
      /\ space[k].state = "trash" /\ space' = [space EXCEPT ![k] = FreeKey]
      /\ UNCHANGED <<checked, run, log, cached, begun, sc_outside, sc_told, handed>>
  BY DEF SC_IInv, Purged, AtRest
<1>1. SC_TypeOK'
  <2>1. FreeKey \in SC_Spaces
    BY DEF SC_Spaces
  <2> QED
    BY <1>0, <2>1 DEF SC_TypeOK
<1>2. RunsOfEntries'
  BY DEF SC_IInv, SC_TypeOK, RunsOfEntries, SC_Idle, Purged
<1>3. NotKept'
  BY DEF SC_IInv, SC_TypeOK, NotKept, Live, SC_Idle, Purged, SC_RunRecords, Made, Gone, FreeKey,
         Ages
<1>4. ScanSeenTo'
  BY DEF SC_IInv, SC_TypeOK, ScanSeenTo, AtRest, SC_Idle, Purged
<1>5. SchemesKept'
  BY <1>0 DEF SC_TypeOK, SchemesKept, Live, At, FreeKey, SC_Idle
<1>a. ASSUME NEW q \in Keys \ (sc_told' \union handed')
     PROVE  InHand(q)'
  <2>1. MakerHasIt(q)'
    BY <1>a DEF SC_IInv, SC_TypeOK, QuietKeys, InHand, MakerHasIt, Makes, On, Undoes, Active,
                Live, SC_Idle, Purged
  <2>2. LiveIsOwned(q)'
    BY <1>a DEF SC_IInv, SC_TypeOK, QuietKeys, InHand, LiveIsOwned, Ours, Live, Undoes, Active,
                On, SC_Idle, Purged, SC_RunRecords, Made, Gone, FreeKey, Ages
  <2>3. OneUndo(q)'
    BY <1>a DEF SC_IInv, SC_TypeOK, QuietKeys, InHand, OneUndo, Undoes, Active, Purged
  <2>4. UndoHasIt(q)'
    <3>1. k = q => \A e \in DOMAIN log : ~Undoes(e, q)
      BY <1>0, <1>a DEF QuietKeys, InHand, TrashedByUndo, On
    <3> QED
      BY <1>0, <1>a, <3>1 DEF QuietKeys, InHand, SC_TypeOK, UndoHasIt, Undoes, Active
  <2>5. TrashedByUndo(q)'
    BY <1>a DEF SC_IInv, SC_TypeOK, QuietKeys, InHand, TrashedByUndo, Undoes, Active, On,
                SC_Idle, Purged
  <2>6. Deleters(q)'
    BY <1>0 DEF Deleters, On
  <2> QED
    BY <2>1, <2>2, <2>3, <2>4, <2>5, <2>6 DEF InHand
<1> QED
  BY <1>1, <1>2, <1>3, <1>4, <1>5, <1>a DEF SC_IInv, QuietKeys

(* A preview: the key is not live.                                          *)
LEMMA SC_PreviewKeeps ==
  ASSUME SC_IInv, NEW k \in Keys, SC_Preview(k)
  PROVE  SC_IInv'
<1>1. SC_TypeOK'
  BY DEF SC_IInv, SC_TypeOK, SC_Preview
<1>2. RunsOfEntries'
  BY DEF SC_IInv, SC_TypeOK, RunsOfEntries, SC_Idle, SC_Preview
<1>3. NotKept'
  BY DEF SC_IInv, SC_TypeOK, NotKept, Live, SC_Idle, SC_Preview
<1>4. ScanSeenTo'
  BY DEF SC_IInv, SC_TypeOK, ScanSeenTo, AtRest, SC_Idle, SC_Preview
<1>5. SchemesKept'
  BY DEF SC_IInv, SC_TypeOK, SchemesKept, Live, At, SC_Idle, SC_Preview
<1>a. ASSUME NEW q \in Keys \ (sc_told' \union handed')
     PROVE  InHand(q)'
  <2>1. MakerHasIt(q)'
    BY <1>a DEF SC_IInv, SC_TypeOK, QuietKeys, InHand, MakerHasIt, Makes, On, Undoes, Active,
                Live, SC_Idle, SC_Preview
  <2>2. LiveIsOwned(q)'
    BY <1>a DEF SC_IInv, SC_TypeOK, QuietKeys, InHand, LiveIsOwned, Ours, Live, Undoes, Active,
                On, SC_Idle, SC_Preview
  <2>3. OneUndo(q)'
    BY <1>a DEF SC_IInv, SC_TypeOK, QuietKeys, InHand, OneUndo, Undoes, Active, SC_Preview
  <2>4. UndoHasIt(q)'
    BY <1>a DEF SC_IInv, SC_TypeOK, QuietKeys, InHand, UndoHasIt, Undoes, Active, SC_Preview
  <2>5. TrashedByUndo(q)'
    BY <1>a DEF SC_IInv, SC_TypeOK, QuietKeys, InHand, TrashedByUndo, Undoes, Active, On,
                SC_Idle, SC_Preview
  <2>6. Deleters(q)'
    BY <1>a DEF SC_IInv, SC_TypeOK, QuietKeys, InHand, Deleters, On, Live, Active, SC_Idle,
                SC_Preview
  <2> QED
    BY <2>1, <2>2, <2>3, <2>4, <2>5, <2>6 DEF InHand
<1> QED
  BY <1>1, <1>2, <1>3, <1>4, <1>5, <1>a DEF SC_IInv, QuietKeys

(* Somebody else: the key is no longer only the program's.                  *)
LEMMA SC_OutsideKeeps ==
  ASSUME SC_IInv, NEW k \in Keys, SC_Outside(k)
  PROVE  SC_IInv'
<1>1. SC_TypeOK'
  <2>1. /\ FreeKey \in SC_Spaces /\ Made("other", "template") \in SC_Spaces
        /\ Live(k) => [space[k] EXCEPT !.state = "trash"] \in SC_Spaces
    <3> SUFFICES ASSUME Live(k) PROVE [space[k] EXCEPT !.state = "trash"] \in SC_Spaces
      BY DEF FreeKey, Made, SC_Spaces
    <3>1. space[k] \in [state : {"live", "trash"}, by : Runs \union {"other"},
                        template : {"none", "template"},
                        scheme : {"none", "template", "default"}, completed : BOOLEAN]
      BY DEF SC_IInv, SC_TypeOK, SC_Spaces, Live, FreeKey
    <3> QED
      BY <3>1 DEF SC_Spaces
  <2>2. space' \in [Keys -> SC_Spaces]
    BY <2>1 DEF SC_IInv, SC_TypeOK, SC_Outside, Gone
  <2>3. UNCHANGED <<checked, run, log, cached, begun, sc_told>>
    BY DEF SC_Outside
  <2>4. sc_outside' \in Nat /\ handed' \subseteq Keys
    BY DEF SC_IInv, SC_TypeOK, SC_Outside
  <2> QED
    BY <2>2, <2>3, <2>4 DEF SC_IInv, SC_TypeOK
<1>2. RunsOfEntries'
  BY DEF SC_IInv, SC_TypeOK, RunsOfEntries, SC_Idle, SC_Outside
<1>3. NotKept'
  BY DEF SC_IInv, SC_TypeOK, NotKept, Live, SC_Idle, SC_Outside, SC_RunRecords, Made, Gone,
         FreeKey, Ages
<1>4. ScanSeenTo'
  BY DEF SC_IInv, SC_TypeOK, ScanSeenTo, AtRest, SC_Idle, SC_Outside
<1>5. SchemesKept'
  BY DEF SC_IInv, SC_TypeOK, SchemesKept, Live, At, SC_Idle, SC_Outside, SC_RunRecords, Made,
         Gone, FreeKey, Ages
<1>a. ASSUME NEW q \in Keys \ (sc_told' \union handed')
     PROVE  InHand(q)'
  <2>1. MakerHasIt(q)'
    BY <1>a DEF SC_IInv, SC_TypeOK, QuietKeys, InHand, MakerHasIt, Makes, On, Undoes, Active,
                Live, SC_Idle, SC_Outside, SC_RunRecords, Made, Gone, FreeKey, Ages
  <2>2. LiveIsOwned(q)'
    BY <1>a DEF SC_IInv, SC_TypeOK, QuietKeys, InHand, LiveIsOwned, Ours, Live, Undoes, Active,
                On, SC_Idle, SC_Outside, SC_RunRecords, Made, Gone, FreeKey, Ages
  <2>3. OneUndo(q)'
    BY <1>a DEF SC_IInv, SC_TypeOK, QuietKeys, InHand, OneUndo, Undoes, Active, SC_Outside
  <2>4. UndoHasIt(q)'
    BY <1>a DEF SC_IInv, SC_TypeOK, QuietKeys, InHand, UndoHasIt, Undoes, Active, SC_Outside,
                SC_RunRecords, Made, Gone, FreeKey, Ages, SC_Idle
  <2>5. TrashedByUndo(q)'
    BY <1>a DEF SC_IInv, SC_TypeOK, QuietKeys, InHand, TrashedByUndo, Undoes, Active, On,
                SC_Idle, SC_Outside, SC_RunRecords, Made, Gone, FreeKey, Ages
  <2>6. Deleters(q)'
    BY <1>a DEF SC_IInv, SC_TypeOK, QuietKeys, InHand, Deleters, On, Live, Active, SC_Idle,
                SC_Outside, SC_RunRecords, Made, Gone, FreeKey, Ages
  <2> QED
    BY <2>1, <2>2, <2>3, <2>4, <2>5, <2>6 DEF InHand
<1> QED
  BY <1>1, <1>2, <1>3, <1>4, <1>5, <1>a DEF SC_IInv, QuietKeys

(* A run is begun: it has done nothing yet.                                 *)
LEMMA SC_ExecuteKeeps ==
  ASSUME SC_IInv, NEW r \in Runs, NEW k \in Keys, SC_Execute(r, k)
  PROVE  SC_IInv'
<1>1. SC_TypeOK'
  BY DEF SC_IInv, SC_TypeOK, SC_Execute, Starts, SC_RunRecords, Made, Gone, FreeKey, Ages,
         SC_Idle
<1>2. RunsOfEntries'
  BY DEF SC_IInv, SC_TypeOK, RunsOfEntries, SC_Idle, SC_Execute, Starts
<1>3. NotKept'
  BY DEF SC_IInv, SC_TypeOK, NotKept, Live, SC_Idle, SC_Execute, Starts
<1>4. ScanSeenTo'
  BY DEF SC_IInv, SC_TypeOK, ScanSeenTo, AtRest, SC_Idle, SC_Execute, Starts
<1>5. SchemesKept'
  BY DEF SC_IInv, SC_TypeOK, SchemesKept, Live, At, SC_Idle, SC_Execute, Starts
<1>a. ASSUME NEW q \in Keys \ (sc_told' \union handed')
     PROVE  InHand(q)'
  <2>1. MakerHasIt(q)'
    BY <1>a DEF SC_IInv, SC_TypeOK, QuietKeys, InHand, MakerHasIt, Makes, On, Undoes, Active,
                Live, SC_Idle, SC_Execute, Starts
  <2>2. LiveIsOwned(q)'
    BY <1>a DEF SC_IInv, SC_TypeOK, QuietKeys, InHand, LiveIsOwned, Ours, Live, Undoes, Active,
                On, SC_Idle, SC_Execute, Starts
  <2>3. OneUndo(q)'
    BY <1>a DEF SC_IInv, SC_TypeOK, QuietKeys, InHand, OneUndo, Undoes, Active, SC_Execute,
                Starts
  <2>4. UndoHasIt(q)'
    BY <1>a DEF SC_IInv, SC_TypeOK, QuietKeys, InHand, UndoHasIt, Undoes, Active, SC_Execute,
                Starts
  <2>5. TrashedByUndo(q)'
    BY <1>a DEF SC_IInv, SC_TypeOK, QuietKeys, InHand, TrashedByUndo, Undoes, Active, On,
                SC_Idle, SC_Execute, Starts
  <2>6. Deleters(q)'
    BY <1>a DEF SC_IInv, SC_TypeOK, QuietKeys, InHand, Deleters, On, Live, Active, SC_Idle,
                SC_Execute, Starts
  <2> QED
    BY <2>1, <2>2, <2>3, <2>4, <2>5, <2>6 DEF InHand
<1> QED
  BY <1>1, <1>2, <1>3, <1>4, <1>5, <1>a DEF SC_IInv, QuietKeys

(* An undo is begun: its entry is there.                                    *)
LEMMA SC_UndoKeeps ==
  ASSUME SC_IInv, NEW r \in Runs, NEW e \in 1..SC_MaxRuns, SC_Undo(r, e)
  PROVE  SC_IInv'
<1>1. SC_TypeOK'
  <2> DEFINE n == [step |-> "send", op |-> log[e].op, key |-> log[e].key, of |-> e, sends |-> 0,
                   scheme |-> "none", ok |-> FALSE, caveat |-> FALSE]
  <2>1. e \in DOMAIN log /\ log[e] \in SC_Entries /\ e \in Nat
    BY DEF SC_Undo, Active, SC_IInv, SC_TypeOK
  <2>2. n \in SC_RunRecords
    BY <2>1 DEF SC_RunRecords, SC_Entries
  <2>3. run' = [run EXCEPT ![r] = n] /\ begun' = begun + 1
        /\ UNCHANGED <<checked, space, log, cached, sc_outside, sc_told, handed>>
    BY DEF SC_Undo, Starts
  <2> HIDE DEF n
  <2>4. run' \in [Runs -> SC_RunRecords \union {SC_Idle}] /\ begun' \in Nat
    BY <2>2, <2>3 DEF SC_IInv, SC_TypeOK
  <2> QED
    BY <2>3, <2>4 DEF SC_IInv, SC_TypeOK
<1>2. RunsOfEntries'
  BY DEF SC_IInv, SC_TypeOK, RunsOfEntries, SC_Idle, SC_Undo, Starts, SC_RunRecords, Made, Gone,
         FreeKey, Ages, MakerHasIt, LiveIsOwned, OneUndo, UndoHasIt, TrashedByUndo, Deleters,
         NotKept, Undoes, Active, On, Makes, Live, SC_Entries
<1>3. NotKept'
  BY DEF SC_IInv, SC_TypeOK, NotKept, Live, SC_Idle, SC_Undo, Starts, SC_RunRecords, Made, Gone,
         FreeKey, Ages, MakerHasIt, LiveIsOwned, OneUndo, UndoHasIt, TrashedByUndo, Deleters,
         RunsOfEntries, Undoes, Active, On, Makes, SC_Entries
<1>4. ScanSeenTo'
  BY DEF SC_IInv, SC_TypeOK, ScanSeenTo, AtRest, SC_Idle, SC_Undo, Starts
<1>5. SchemesKept'
  BY DEF SC_IInv, SC_TypeOK, SchemesKept, Live, At, SC_Idle, SC_Undo, Starts
<1>a. ASSUME NEW q \in Keys \ (sc_told' \union handed')
     PROVE  InHand(q)'
  <2>1. MakerHasIt(q)'
    BY <1>a DEF SC_IInv, SC_TypeOK, QuietKeys, InHand, MakerHasIt, Makes, On, Undoes, Active,
                Live, SC_Idle, SC_Undo, Starts
  <2>2. LiveIsOwned(q)'
    BY <1>a DEF SC_IInv, SC_TypeOK, QuietKeys, InHand, LiveIsOwned, Ours, Live, Undoes, Active,
                On, SC_Idle, SC_Undo, Starts
  <2>3. OneUndo(q)'
    BY <1>a DEF SC_IInv, SC_TypeOK, QuietKeys, InHand, OneUndo, Undoes, Active, SC_Undo, Starts
  <2>4. UndoHasIt(q)'
    BY <1>a DEF SC_IInv, SC_TypeOK, QuietKeys, InHand, UndoHasIt, Undoes, Active, SC_Undo,
                Starts
  <2>5. TrashedByUndo(q)'
    BY <1>a DEF SC_IInv, SC_TypeOK, QuietKeys, InHand, TrashedByUndo, Undoes, Active, On,
                SC_Idle, SC_Undo, Starts
  <2>6. Deleters(q)'
    BY <1>a DEF SC_IInv, SC_TypeOK, QuietKeys, InHand, Deleters, On, Live, Active, SC_Idle,
                SC_Undo, Starts, SC_RunRecords, Made, Gone, FreeKey, Ages, MakerHasIt,
                LiveIsOwned, OneUndo, UndoHasIt, TrashedByUndo, NotKept, RunsOfEntries, Undoes,
                Makes, SC_Entries
  <2> QED
    BY <2>1, <2>2, <2>3, <2>4, <2>5, <2>6 DEF InHand
<1> QED
  BY <1>1, <1>2, <1>3, <1>4, <1>5, <1>a DEF SC_IInv, QuietKeys

(* The space is made.                                                       *)
LEMMA SC_PostKeeps ==
  ASSUME SC_IInv, NEW r \in Runs, Post(r)
  PROVE  SC_IInv'
<1>0. SC_TypeOK /\ RunsOfEntries /\ NotKept /\ QuietKeys /\ ScanSeenTo /\ SchemesKept
  BY DEF SC_IInv
<1>e. /\ run[r] \in SC_RunRecords /\ run[r].op = "create" /\ run[r].step = "send"
      /\ UNCHANGED <<checked, log, begun, sc_outside, sc_told, handed>>
  BY <1>0, PostEffects
<1>f. PICK n \in SC_RunRecords :
              /\ run' = [run EXCEPT ![r] = n] /\ SameTask(n, run[r])
              /\ \/ /\ space[run[r].key] = FreeKey
                    /\ \E t \in {"none", "template"} :
                         space' = [space EXCEPT ![run[r].key] = Made(r, t)]
                    /\ cached' = IF cached = "fresh" THEN "stale" ELSE cached
                    /\ n.step \in {"send", "scheme"} \/ (n.step = "item" /\ ~n.ok)
                 \/ /\ UNCHANGED <<space, cached>>
                    /\ n.step = "send" \/ (n.step = "item" /\ ~n.ok)
  BY <1>0, PostEffects
<1>1. SC_TypeOK'
  <2>1. run' \in [Runs -> SC_RunRecords \union {SC_Idle}]
    BY <1>0, <1>f DEF SC_TypeOK
  <2>2. space' \in [Keys -> SC_Spaces]
    <3>1. \A t \in {"none", "template"} : Made(r, t) \in SC_Spaces
      BY DEF Made, SC_Spaces
    <3> QED
      BY <1>0, <1>f, <3>1 DEF SC_TypeOK
  <2>3. cached' \in {"none", "fresh", "stale"}
    BY <1>0, <1>e, <1>f DEF SC_TypeOK
  <2> QED
    BY <1>0, <1>e, <2>1, <2>2, <2>3 DEF SC_TypeOK
<1>2. RunsOfEntries'
  BY <1>0, <1>e, <1>f DEF SC_TypeOK, SameTask, RunsOfEntries, SC_Idle
<1>3. NotKept'
  BY <1>0, <1>e, <1>f, SpaceCreateAssumption
     DEF SpaceCreateAssumption, NotKept, SC_TypeOK, SC_RunRecords, SameTask, Live, Made, SC_Idle
<1>4. ScanSeenTo'
  BY <1>0, <1>e, <1>f DEF SC_TypeOK, SameTask, ScanSeenTo, AtRest, SC_Idle
<1>5. SchemesKept'
  BY <1>0, <1>e, <1>f DEF SC_TypeOK, SameTask, SchemesKept, Live, At, SC_Idle, SC_RunRecords,
         Made, Gone, FreeKey, Flip
<1>a. ASSUME NEW k \in Keys \ (sc_told' \union handed')
     PROVE  InHand(k)'
  <2>0. /\ k \in Keys \ (sc_told \union handed)
        /\ MakerHasIt(k) /\ LiveIsOwned(k) /\ OneUndo(k)
        /\ UndoHasIt(k) /\ TrashedByUndo(k) /\ Deleters(k)
    BY <1>0, <1>e, <1>f, <1>a DEF QuietKeys, InHand
  <2>1. MakerHasIt(k)'
    BY <1>0, <1>e, <1>f, <2>0, <1>a DEF SC_TypeOK, SameTask, MakerHasIt, Makes, On, Undoes,
           Active, Live, SC_Idle, SC_RunRecords, Made, Gone, FreeKey, Flip, LiveIsOwned,
           OneUndo, UndoHasIt, TrashedByUndo, Deleters, NotKept, RunsOfEntries, SC_Entries
  <2>2. LiveIsOwned(k)'
    BY <1>0, <1>e, <1>f, <2>0, <1>a DEF SC_TypeOK, SameTask, LiveIsOwned, Ours, Live, Undoes,
           Active, On, SC_Idle
  <2>3. OneUndo(k)'
    BY <1>0, <1>e, <1>f, <2>0, <1>a DEF SC_TypeOK, SameTask, OneUndo, Undoes, Active
  <2>4. UndoHasIt(k)'
    BY <1>0, <1>e, <1>f, <2>0, <1>a DEF SC_TypeOK, SameTask, UndoHasIt, Undoes, Active,
           SC_RunRecords, Made, Gone, FreeKey, Flip, SC_Idle
  <2>5. TrashedByUndo(k)'
    BY <1>0, <1>e, <1>f, <2>0, <1>a DEF SC_TypeOK, SameTask, TrashedByUndo, Undoes, Active, On,
           SC_Idle, SC_RunRecords, Made, Gone, FreeKey, Flip
  <2>6. Deleters(k)'
    BY <1>0, <1>e, <1>f, <2>0, <1>a DEF SC_TypeOK, SameTask, Deleters, On, Live, Active,
           SC_Idle, SC_RunRecords, Made, Gone, FreeKey, Flip
  <2> QED
    BY <2>1, <2>2, <2>3, <2>4, <2>5, <2>6 DEF InHand
<1> QED
  BY <1>1, <1>2, <1>3, <1>4, <1>5, <1>a DEF SC_IInv, QuietKeys

(* The space is trashed.                                                    *)
LEMMA SC_TrashKeeps ==
  ASSUME SC_IInv, NEW r \in Runs, Trash(r)
  PROVE  SC_IInv'
<1>0. SC_TypeOK /\ RunsOfEntries /\ NotKept /\ QuietKeys /\ ScanSeenTo /\ SchemesKept
  BY DEF SC_IInv
<1>e. /\ run[r] \in SC_RunRecords /\ run[r].op = "delete" /\ run[r].step = "send"
      /\ UNCHANGED <<checked, log, begun, sc_outside, sc_told, handed>>
  BY <1>0, TrashEffects
<1>f. PICK n \in SC_RunRecords :
              /\ run' = [run EXCEPT ![r] = n] /\ SameTask(n, run[r])
              /\ n.step = "send" \/ n.step = "item"
              /\ \/ /\ Live(run[r].key) /\ space' = Gone(run[r].key)
                    /\ cached' = IF cached = "fresh" THEN "stale" ELSE cached
                 \/ /\ UNCHANGED <<space, cached>>
                    /\ (n.step = "item" /\ n.ok) => ~Live(run[r].key)
  BY <1>0, TrashEffects
<1>1. SC_TypeOK'
  <2>1. run' \in [Runs -> SC_RunRecords \union {SC_Idle}]
    BY <1>0, <1>f DEF SC_TypeOK
  <2>2. space' \in [Keys -> SC_Spaces]
    <3>1. Live(run[r].key) => [space[run[r].key] EXCEPT !.state = "trash"] \in SC_Spaces
      <4> SUFFICES ASSUME Live(run[r].key)
                   PROVE  [space[run[r].key] EXCEPT !.state = "trash"] \in SC_Spaces
        OBVIOUS
      <4>1. space[run[r].key] \in
              [state : {"live", "trash"}, by : Runs \union {"other"},
               template : {"none", "template"},
               scheme : {"none", "template", "default"}, completed : BOOLEAN]
        BY <1>0, <1>e DEF SC_TypeOK, SC_RunRecords, SC_Spaces, Live, FreeKey
      <4> QED
        BY <4>1 DEF SC_Spaces
    <3> QED
      BY <1>0, <1>f, <3>1 DEF SC_TypeOK, Gone
  <2>3. cached' \in {"none", "fresh", "stale"}
    BY <1>0, <1>e, <1>f DEF SC_TypeOK
  <2> QED
    BY <1>0, <1>e, <2>1, <2>2, <2>3 DEF SC_TypeOK
<1>g. /\ \A k \in Keys : Live(k)' => Live(k) /\ space'[k] = space[k]
      /\ \A k \in Keys : space'[k].state # space[k].state =>
           k = run[r].key /\ space[k].state = "live" /\ space'[k].state = "trash"
  <2>1. Live(run[r].key) =>
          /\ [space[run[r].key] EXCEPT !.state = "trash"].state = "trash"
          /\ run[r].key \in Keys
    BY <1>0, <1>e DEF SC_TypeOK, SC_RunRecords, SC_Spaces, Live, FreeKey
  <2> QED
    BY <1>0, <1>e, <1>f, <2>1 DEF SC_TypeOK, Live, Gone
<1>2. RunsOfEntries'
  BY <1>0, <1>e, <1>f DEF SC_TypeOK, SameTask, RunsOfEntries, SC_Idle
<1>3. NotKept'
  BY <1>0, <1>e, <1>f, <1>g DEF NotKept, SC_TypeOK, SameTask, SC_RunRecords, SC_Idle
<1>4. ScanSeenTo'
  BY <1>0, <1>e, <1>f DEF SC_TypeOK, SameTask, ScanSeenTo, AtRest, SC_Idle
<1>5. SchemesKept'
  BY <1>0, <1>e, <1>f, <1>g DEF SchemesKept, SC_TypeOK, SameTask, Live, At, SC_Idle
<1>a. ASSUME NEW k \in Keys \ (sc_told' \union handed')
     PROVE  InHand(k)'
  <2>0. /\ k \in Keys \ (sc_told \union handed)
        /\ MakerHasIt(k) /\ LiveIsOwned(k) /\ OneUndo(k)
        /\ UndoHasIt(k) /\ TrashedByUndo(k) /\ Deleters(k)
    BY <1>0, <1>e, <1>f, <1>a DEF QuietKeys, InHand
  <2>1. MakerHasIt(k)'
    BY <1>0, <1>e, <1>f, <2>0, <1>a DEF SC_TypeOK, SameTask, MakerHasIt, Makes, On, Undoes,
           Active, Live, SC_Idle, SC_RunRecords, Made, Gone, FreeKey, Flip
  <2>2. LiveIsOwned(k)'
    BY <1>0, <1>e, <1>f, <2>0, <1>a DEF SC_TypeOK, SameTask, LiveIsOwned, Ours, Live, Undoes,
           Active, On, SC_Idle, SC_RunRecords, Made, Gone, FreeKey, Flip, MakerHasIt, OneUndo,
           UndoHasIt, TrashedByUndo, Deleters, NotKept, RunsOfEntries, Makes, SC_Entries
  <2>3. OneUndo(k)'
    BY <1>0, <1>e, <1>f, <2>0, <1>a DEF SC_TypeOK, SameTask, OneUndo, Undoes, Active
  <2>4. UndoHasIt(k)'
    BY <1>e, <1>g, <2>0 DEF UndoHasIt, Undoes, Active
  <2>5. TrashedByUndo(k)'
    BY <1>0, <1>e, <1>f, <2>0, <1>a DEF SC_TypeOK, SameTask, TrashedByUndo, Undoes, Active, On,
           SC_Idle, SC_RunRecords, Made, Gone, FreeKey, Flip, MakerHasIt, LiveIsOwned, OneUndo,
           UndoHasIt, Deleters, NotKept, RunsOfEntries, Makes, Live, SC_Entries
  <2>6. Deleters(k)'
    BY <1>0, <1>e, <1>f, <1>g, <2>0
       DEF Deleters, SC_TypeOK, SC_Spaces, FreeKey, SameTask, On, Active, Live, Gone, SC_Idle
  <2> QED
    BY <2>1, <2>2, <2>3, <2>4, <2>5, <2>6 DEF InHand
<1> QED
  BY <1>1, <1>2, <1>3, <1>4, <1>5, <1>a DEF SC_IInv, QuietKeys

(* The schemes are read: nobody else makes the space meanwhile.             *)
LEMMA SC_ReadSchemesKeeps ==
  ASSUME SC_IInv, NEW r \in Runs, ReadSchemes(r)
  PROVE  SC_IInv'
<1>0. SC_TypeOK /\ RunsOfEntries /\ NotKept /\ QuietKeys /\ ScanSeenTo /\ SchemesKept
  BY DEF SC_IInv
<1>e. /\ run[r] \in SC_RunRecords /\ run[r].step = "scheme"
      /\ UNCHANGED <<space, cached, checked, log, begun, sc_outside, sc_told, handed>>
  BY <1>0, ReadSchemesEffects
<1>f. PICK n \in SC_RunRecords :
              /\ run' = [run EXCEPT ![r] = n] /\ SameTask(n, run[r]) /\ n.step = "put"
              /\ n.scheme # "none" => (~Live(run[r].key) \/ space[run[r].key].scheme = "none")
  BY <1>0, ReadSchemesEffects
<1>1. SC_TypeOK'
  <2>1. run' \in [Runs -> SC_RunRecords \union {SC_Idle}]
    BY <1>0, <1>f DEF SC_TypeOK
  <2>2. space' \in [Keys -> SC_Spaces]
    BY <1>0, <1>e, <1>f DEF SC_TypeOK, SC_RunRecords, SC_Spaces, Made, Gone, Live, FreeKey
  <2>3. cached' \in {"none", "fresh", "stale"}
    BY <1>0, <1>e, <1>f DEF SC_TypeOK
  <2> QED
    BY <1>0, <1>e, <2>1, <2>2, <2>3 DEF SC_TypeOK
<1>2. RunsOfEntries'
  BY <1>0, <1>e, <1>f DEF SC_TypeOK, SameTask, RunsOfEntries, SC_Idle
<1>3. NotKept'
  BY <1>0, <1>e, <1>f DEF SC_TypeOK, SameTask, NotKept, Live, SC_Idle
<1>4. ScanSeenTo'
  BY <1>0, <1>e, <1>f DEF SC_TypeOK, SameTask, ScanSeenTo, AtRest, SC_Idle
<1>5. SchemesKept'
  BY <1>0, <1>e, <1>f DEF SC_TypeOK, SameTask, SchemesKept, Live, At, SC_Idle
<1>a. ASSUME NEW k \in Keys \ (sc_told' \union handed')
     PROVE  InHand(k)'
  <2>0. /\ k \in Keys \ (sc_told \union handed)
        /\ MakerHasIt(k) /\ LiveIsOwned(k) /\ OneUndo(k)
        /\ UndoHasIt(k) /\ TrashedByUndo(k) /\ Deleters(k)
    BY <1>0, <1>e, <1>f, <1>a DEF QuietKeys, InHand
  <2>1. MakerHasIt(k)'
    BY <1>0, <1>e, <1>f, <2>0, <1>a DEF SC_TypeOK, SameTask, MakerHasIt, Makes, On, Undoes,
           Active, Live, SC_Idle
  <2>2. LiveIsOwned(k)'
    BY <1>0, <1>e, <1>f, <2>0, <1>a DEF SC_TypeOK, SameTask, LiveIsOwned, Ours, Live, Undoes,
           Active, On, SC_Idle
  <2>3. OneUndo(k)'
    BY <1>0, <1>e, <1>f, <2>0, <1>a DEF SC_TypeOK, SameTask, OneUndo, Undoes, Active
  <2>4. UndoHasIt(k)'
    BY <1>0, <1>e, <1>f, <2>0, <1>a DEF SC_TypeOK, SameTask, UndoHasIt, Undoes, Active
  <2>5. TrashedByUndo(k)'
    BY <1>0, <1>e, <1>f, <2>0, <1>a DEF SC_TypeOK, SameTask, TrashedByUndo, Undoes, Active, On,
           SC_Idle
  <2>6. Deleters(k)'
    BY <1>0, <1>e, <1>f, <2>0, <1>a DEF SC_TypeOK, SameTask, Deleters, On, Live, Active, SC_Idle
  <2> QED
    BY <2>1, <2>2, <2>3, <2>4, <2>5, <2>6 DEF InHand
<1> QED
  BY <1>1, <1>2, <1>3, <1>4, <1>5, <1>a DEF SC_IInv, QuietKeys

(* The space is completed.                                                  *)
LEMMA SC_CompleteKeeps ==
  ASSUME SC_IInv, NEW r \in Runs, Complete(r)
  PROVE  SC_IInv'
<1>0. SC_TypeOK /\ RunsOfEntries /\ NotKept /\ QuietKeys /\ ScanSeenTo /\ SchemesKept
  BY DEF SC_IInv
<1>e. /\ run[r] \in SC_RunRecords /\ run[r].step = "put"
      /\ UNCHANGED <<cached, checked, log, begun, sc_outside, sc_told, handed>>
  BY <1>0, CompleteEffects
<1>f. PICK n \in SC_RunRecords :
              /\ run' = [run EXCEPT ![r] = n] /\ SameTask(n, run[r]) /\ n.step = "item" /\ n.ok
              /\ \/ /\ Live(run[r].key)
                    /\ \E s \in SC_Spaces :
                         /\ space' = [space EXCEPT ![run[r].key] = s]
                         /\ s.state = "live" /\ s.by = space[run[r].key].by
                         /\ s.template = space[run[r].key].template /\ s.completed
                         /\ s.scheme = IF run[r].scheme = "none" THEN space[run[r].key].scheme
                                       ELSE run[r].scheme
                 \/ UNCHANGED space /\ n.caveat
  BY <1>0, CompleteEffects
<1>1. SC_TypeOK'
  <2>1. run' \in [Runs -> SC_RunRecords \union {SC_Idle}]
    BY <1>0, <1>f DEF SC_TypeOK
  <2>2. space' \in [Keys -> SC_Spaces]
    BY <1>0, <1>e, <1>f DEF SC_TypeOK, SC_RunRecords, SC_Spaces, Made, Gone, Live, FreeKey
  <2>3. cached' \in {"none", "fresh", "stale"}
    BY <1>0, <1>e, <1>f DEF SC_TypeOK
  <2> QED
    BY <1>0, <1>e, <2>1, <2>2, <2>3 DEF SC_TypeOK
<1>2. RunsOfEntries'
  BY <1>0, <1>e, <1>f DEF SC_TypeOK, SameTask, RunsOfEntries, SC_Idle
<1>3. NotKept'
  BY <1>0, <1>e, <1>f DEF SC_TypeOK, SameTask, NotKept, Live, SC_Idle
<1>4. ScanSeenTo'
  BY <1>0, <1>e, <1>f DEF SC_TypeOK, SameTask, ScanSeenTo, AtRest, SC_Idle
<1>5. SchemesKept'
  BY <1>0, <1>e, <1>f DEF SC_TypeOK, SameTask, SchemesKept, Live, At, SC_Idle
<1>a. ASSUME NEW k \in Keys \ (sc_told' \union handed')
     PROVE  InHand(k)'
  <2>0. /\ k \in Keys \ (sc_told \union handed)
        /\ MakerHasIt(k) /\ LiveIsOwned(k) /\ OneUndo(k)
        /\ UndoHasIt(k) /\ TrashedByUndo(k) /\ Deleters(k)
    BY <1>0, <1>e, <1>f, <1>a DEF QuietKeys, InHand
  <2>1. MakerHasIt(k)'
    BY <1>0, <1>e, <1>f, <2>0, <1>a DEF SC_TypeOK, SameTask, MakerHasIt, Makes, On, Undoes,
           Active, Live, SC_Idle
  <2>2. LiveIsOwned(k)'
    BY <1>0, <1>e, <1>f, <2>0, <1>a DEF SC_TypeOK, SameTask, LiveIsOwned, Ours, Live, Undoes,
           Active, On, SC_Idle
  <2>3. OneUndo(k)'
    BY <1>0, <1>e, <1>f, <2>0, <1>a DEF SC_TypeOK, SameTask, OneUndo, Undoes, Active
  <2>4. UndoHasIt(k)'
    BY <1>0, <1>e, <1>f, <2>0, <1>a DEF SC_TypeOK, SameTask, UndoHasIt, Undoes, Active
  <2>5. TrashedByUndo(k)'
    BY <1>0, <1>e, <1>f, <2>0, <1>a DEF SC_TypeOK, SameTask, TrashedByUndo, Undoes, Active, On,
           SC_Idle
  <2>6. Deleters(k)'
    BY <1>0, <1>e, <1>f, <2>0, <1>a DEF SC_TypeOK, SameTask, Deleters, On, Live, Active,
           SC_Idle, SC_RunRecords, Made, Gone, FreeKey, Flip, MakerHasIt, LiveIsOwned, OneUndo,
           UndoHasIt, TrashedByUndo, NotKept, RunsOfEntries, Undoes, Makes, SC_Entries
  <2> QED
    BY <2>1, <2>2, <2>3, <2>4, <2>5, <2>6 DEF InHand
<1> QED
  BY <1>1, <1>2, <1>3, <1>4, <1>5, <1>a DEF SC_IInv, QuietKeys

(* The run ends: the journal takes over.                                    *)
LEMMA SC_EndsKeeps ==
  ASSUME SC_IInv, NEW r \in Runs, SC_Ends(r)
  PROVE  SC_IInv'
<1>0. SC_TypeOK /\ RunsOfEntries /\ NotKept /\ QuietKeys /\ ScanSeenTo /\ SchemesKept
  BY DEF SC_IInv
<1>e. /\ run[r] \in SC_RunRecords /\ run[r].step = "item"
      /\ UNCHANGED <<space, checked, begun, sc_outside, handed>>
      /\ run' = [run EXCEPT ![r] = SC_Idle]
      /\ cached' = IF run[r].ok THEN "none" ELSE cached
      /\ sc_told' = IF run[r].ok THEN sc_told ELSE sc_told \union {run[r].key}
      /\ log' \in Seq(SC_Entries) /\ DOMAIN log \subseteq DOMAIN log'
      /\ run[r].ok => /\ Len(log') = Len(log) + 1
                      /\ log'[Len(log) + 1].op = Flip(run[r].op)
                      /\ log'[Len(log) + 1].key = run[r].key
                      /\ log'[Len(log) + 1].status = "active"
      /\ ~run[r].ok => Len(log') = Len(log)
      /\ \A e \in DOMAIN log :
           /\ log'[e].op = log[e].op /\ log'[e].key = log[e].key
           /\ log'[e].status = (IF e = run[r].of THEN "undone" ELSE log[e].status)
      /\ \A e \in DOMAIN log', k \in Keys :
           Undoes(e, k)' <=>
             \/ e \in DOMAIN log /\ Undoes(e, k) /\ e # run[r].of
             \/ e = Len(log) + 1 /\ run[r].ok /\ run[r].op = "create" /\ run[r].key = k
  BY <1>0, EndsEffects
<1>1. SC_TypeOK'
  BY <1>0, <1>e DEF SC_TypeOK, SameTask, SC_RunRecords, Made, Gone, FreeKey, Flip, SC_Idle
<1>2. RunsOfEntries'
  BY <1>0, <1>e DEF SC_TypeOK, SameTask, RunsOfEntries, SC_Idle
<1>3. NotKept'
  BY <1>0, <1>e DEF SC_TypeOK, SameTask, NotKept, Live, SC_Idle, SC_RunRecords, Made, Gone,
                    FreeKey, Flip
<1>4. ScanSeenTo'
  BY <1>0, <1>e DEF SC_TypeOK, SameTask, ScanSeenTo, AtRest, SC_Idle
<1>5. SchemesKept'
  BY <1>0, <1>e DEF SC_TypeOK, SameTask, SchemesKept, Live, At, SC_Idle
<1>a. ASSUME NEW k \in Keys \ (sc_told' \union handed')
     PROVE  InHand(k)'
  <2>0. /\ k \in Keys \ (sc_told \union handed)
        /\ MakerHasIt(k) /\ LiveIsOwned(k) /\ OneUndo(k)
        /\ UndoHasIt(k) /\ TrashedByUndo(k) /\ Deleters(k)
    BY <1>0, <1>e, <1>a DEF QuietKeys, InHand
  <2>1. MakerHasIt(k)'
    BY <1>0, <1>e, <2>0, <1>a DEF SC_TypeOK, SameTask, MakerHasIt, Makes, On, Live, SC_Idle
  <2>2. LiveIsOwned(k)'
    <3> SUFFICES ASSUME Ours(k)
                 PROVE  \/ \E e \in DOMAIN log' : Undoes(e, k)'
                        \/ \E q \in Runs : On(q, "create", k)'
      BY <1>e DEF LiveIsOwned, Ours, Live
    <3>1. CASE \E e \in DOMAIN log : Undoes(e, k)
      <4>1. PICK e \in DOMAIN log : Undoes(e, k)
        BY <3>1
      <4>2. e # run[r].of
        <5>1. SUFFICES ASSUME e = run[r].of PROVE FALSE
          OBVIOUS
        <5>2. On(r, "delete", k)
          BY <1>0, <1>e, <4>1, <5>1 DEF RunsOfEntries, Undoes, Active, On, SC_Idle, SC_TypeOK
        <5>3. run[r].ok
          BY <1>a, <1>e, <5>2 DEF On
        <5> QED
          BY <1>e, <2>0, <5>2, <5>3 DEF Deleters, Ours, Live
      <4> QED
        BY <1>e, <4>1, <4>2
    <3>2. CASE \E q \in Runs : On(q, "create", k)
      <4>1. PICK q \in Runs : On(q, "create", k)
        BY <3>2
      <4>2. CASE q # r
        BY <1>0, <1>e, <4>1, <4>2 DEF On, SC_TypeOK
      <4>3. CASE q = r
        <5>1. run[r].ok /\ run[r].op = "create" /\ run[r].key = k
          BY <1>a, <1>e, <4>1, <4>3 DEF On
        <5>2. Len(log) + 1 \in DOMAIN log'
          BY <1>0, <1>e, <5>1 DEF SC_TypeOK
        <5> QED
          BY <1>e, <5>1, <5>2
      <4> QED
        BY <4>2, <4>3
    <3> QED
      BY <2>0, <3>1, <3>2 DEF LiveIsOwned
  <2>3. OneUndo(k)'
    <3>1. ASSUME run[r].ok, run[r].op = "create", run[r].key = k
          PROVE  \A e \in DOMAIN log : ~Undoes(e, k)
      BY <1>e, <2>0, <3>1 DEF MakerHasIt, Makes, On, SC_Idle
    <3> QED
      BY <1>e, <2>0, <3>1 DEF OneUndo
  <2>4. UndoHasIt(k)'
    BY <1>0, <1>e, <2>0, <1>a DEF SC_TypeOK, SameTask, UndoHasIt, SC_RunRecords, Made, Gone,
           FreeKey, Flip, SC_Idle, MakerHasIt, LiveIsOwned, OneUndo, TrashedByUndo, Deleters,
           NotKept, RunsOfEntries, On, Makes, Live
  <2>5. TrashedByUndo(k)'
    <3> SUFFICES ASSUME NEW e \in DOMAIN log', Undoes(e, k)', space[k].state = "trash"
                 PROVE  \E q \in Runs : On(q, "delete", k)' /\ run'[q].of = e
      BY <1>e DEF TrashedByUndo
    <3>1. CASE e \in DOMAIN log /\ Undoes(e, k) /\ e # run[r].of
      <4>1. PICK q \in Runs : On(q, "delete", k) /\ run[q].of = e
        BY <2>0, <3>1 DEF TrashedByUndo
      <4>2. run'[q] = run[q]
        BY <1>0, <1>e, <3>1, <4>1 DEF SC_TypeOK
      <4> QED
        BY <4>1, <4>2 DEF On
    <3>2. CASE e = Len(log) + 1 /\ run[r].ok /\ run[r].op = "create" /\ run[r].key = k
      <4>1. Makes(r, k)
        BY <1>e, <3>2 DEF Makes, On, SC_Idle
      <4> QED
        BY <2>0, <4>1 DEF MakerHasIt, Live
    <3> QED
      BY <1>e, <3>1, <3>2
  <2>6. Deleters(k)'
    <3> SUFFICES ASSUME NEW q \in Runs, On(q, "delete", k)'
                 PROVE  /\ space[k].state # "free"
                        /\ Live(k) => Active(run[q].of)'
                        /\ (run[q].step = "item" /\ run[q].ok) => space[k].state = "trash"
      <4>1. \A q \in Runs : On(q, "delete", k)' => q # r
        BY <1>0, <1>e DEF On, SC_TypeOK
      <4> QED
        BY <1>0, <1>e, <4>1 DEF Deleters, Live, SC_TypeOK
    <3>1. On(q, "delete", k) /\ q # r
      BY <1>0, <1>e DEF On, SC_TypeOK
    <3>2. ASSUME Live(k)
          PROVE  Active(run[q].of)'
      <4>1. Active(run[q].of) /\ log[run[q].of].op = "delete" /\ log[run[q].of].key = k
        BY <1>0, <2>0, <3>1, <3>2 DEF Deleters, RunsOfEntries, On
      <4>2. run[q].of # run[r].of
        <5>1. SUFFICES ASSUME run[q].of = run[r].of PROVE FALSE
          OBVIOUS
        <5>2. run[r].of # 0
          BY <1>0, <3>1, <5>1 DEF RunsOfEntries, On
        <5>3. On(r, "delete", k)
          BY <1>0, <1>e, <4>1, <5>1, <5>2 DEF RunsOfEntries, On, SC_Idle
        <5>4. run[r].ok
          BY <1>a, <1>e, <5>3 DEF On
        <5> QED
          BY <1>e, <2>0, <3>2, <5>3, <5>4 DEF Deleters, Live
      <4>3. run'[q] = run[q]
        BY <1>0, <1>e, <3>1 DEF SC_TypeOK
      <4> QED
        BY <1>e, <4>1, <4>2, <4>3 DEF Active
    <3> QED
      BY <2>0, <3>1, <3>2 DEF Deleters
  <2> QED
    BY <2>1, <2>2, <2>3, <2>4, <2>5, <2>6 DEF InHand
<1> QED
  BY <1>1, <1>2, <1>3, <1>4, <1>5, <1>a DEF SC_IInv, QuietKeys

(* The run is left: the operator knows.                                     *)
LEMMA SC_LeaveKeeps ==
  ASSUME SC_IInv, NEW r \in Runs, SC_Leave(r)
  PROVE  SC_IInv'
<1>1. SC_TypeOK'
  BY DEF SC_IInv, SC_TypeOK, SC_Leave, SC_RunRecords, Made, Gone, FreeKey, Ages, SC_Idle
<1>2. RunsOfEntries'
  BY DEF SC_IInv, SC_TypeOK, RunsOfEntries, SC_Idle, SC_Leave
<1>3. NotKept'
  BY DEF SC_IInv, SC_TypeOK, NotKept, Live, SC_Idle, SC_Leave
<1>4. ScanSeenTo'
  BY DEF SC_IInv, SC_TypeOK, ScanSeenTo, AtRest, SC_Idle, SC_Leave
<1>5. SchemesKept'
  BY DEF SC_IInv, SC_TypeOK, SchemesKept, Live, At, SC_Idle, SC_Leave
<1>a. ASSUME NEW q \in Keys \ (sc_told' \union handed')
     PROVE  InHand(q)'
  <2>1. MakerHasIt(q)'
    BY <1>a DEF SC_IInv, SC_TypeOK, QuietKeys, InHand, MakerHasIt, Makes, On, Undoes, Active,
                Live, SC_Idle, SC_Leave
  <2>2. LiveIsOwned(q)'
    BY <1>a DEF SC_IInv, SC_TypeOK, QuietKeys, InHand, LiveIsOwned, Ours, Live, Undoes, Active,
                On, SC_Idle, SC_Leave
  <2>3. OneUndo(q)'
    BY <1>a DEF SC_IInv, SC_TypeOK, QuietKeys, InHand, OneUndo, Undoes, Active, SC_Leave
  <2>4. UndoHasIt(q)'
    BY <1>a DEF SC_IInv, SC_TypeOK, QuietKeys, InHand, UndoHasIt, Undoes, Active, SC_Leave
  <2>5. TrashedByUndo(q)'
    BY <1>a DEF SC_IInv, SC_TypeOK, QuietKeys, InHand, TrashedByUndo, Undoes, Active, On,
                SC_Idle, SC_Leave
  <2>6. Deleters(q)'
    BY <1>a DEF SC_IInv, SC_TypeOK, QuietKeys, InHand, Deleters, On, Live, Active, SC_Idle,
                SC_Leave
  <2> QED
    BY <2>1, <2>2, <2>3, <2>4, <2>5, <2>6 DEF InHand
<1> QED
  BY <1>1, <1>2, <1>3, <1>4, <1>5, <1>a DEF SC_IInv, QuietKeys

(* Nothing happens.                                                         *)
LEMMA SC_StutterKeeps ==
  ASSUME SC_IInv, UNCHANGED sp
  PROVE  SC_IInv'
<1>1. SC_TypeOK'
  BY DEF SC_IInv, SC_TypeOK, sp
<1>2. RunsOfEntries'
  BY DEF SC_IInv, SC_TypeOK, RunsOfEntries, SC_Idle, sp
<1>3. NotKept'
  BY DEF SC_IInv, SC_TypeOK, NotKept, Live, SC_Idle, sp
<1>4. ScanSeenTo'
  BY DEF SC_IInv, SC_TypeOK, ScanSeenTo, AtRest, SC_Idle, sp
<1>5. SchemesKept'
  BY DEF SC_IInv, SC_TypeOK, SchemesKept, Live, At, SC_Idle, sp
<1>a. ASSUME NEW q \in Keys \ (sc_told' \union handed')
     PROVE  InHand(q)'
  <2>1. MakerHasIt(q)'
    BY <1>a DEF SC_IInv, SC_TypeOK, QuietKeys, InHand, MakerHasIt, Makes, On, Undoes, Active,
                Live, SC_Idle, sp
  <2>2. LiveIsOwned(q)'
    BY <1>a DEF SC_IInv, SC_TypeOK, QuietKeys, InHand, LiveIsOwned, Ours, Live, Undoes, Active,
                On, SC_Idle, sp
  <2>3. OneUndo(q)'
    BY <1>a DEF SC_IInv, SC_TypeOK, QuietKeys, InHand, OneUndo, Undoes, Active, sp
  <2>4. UndoHasIt(q)'
    BY <1>a DEF SC_IInv, SC_TypeOK, QuietKeys, InHand, UndoHasIt, Undoes, Active, sp
  <2>5. TrashedByUndo(q)'
    BY <1>a DEF SC_IInv, SC_TypeOK, QuietKeys, InHand, TrashedByUndo, Undoes, Active, On,
                SC_Idle, sp
  <2>6. Deleters(q)'
    BY <1>a DEF SC_IInv, SC_TypeOK, QuietKeys, InHand, Deleters, On, Live, Active, SC_Idle, sp
  <2> QED
    BY <2>1, <2>2, <2>3, <2>4, <2>5, <2>6 DEF InHand
<1> QED
  BY <1>1, <1>2, <1>3, <1>4, <1>5, <1>a DEF SC_IInv, QuietKeys

(* At first nothing is at work. *)
LEMMA SC_InitIInv ==
  SC_Init => SC_IInv
<1> SUFFICES ASSUME SC_Init PROVE SC_IInv
  OBVIOUS
<1>1. SC_TypeOK
  <2>1. {FreeKey, Made("other", "template")} \subseteq SC_Spaces
    BY DEF SC_Spaces, FreeKey, Made
  <2> QED
    BY <2>1 DEF SC_Init, SC_TypeOK
<1>2. RunsOfEntries /\ NotKept /\ ScanSeenTo
  BY DEF SC_Init, RunsOfEntries, NotKept, ScanSeenTo, SC_Idle
<1>3. SchemesKept
  BY DEF SC_Init, SchemesKept, Live, FreeKey, Made, SC_Idle
<1>4. QuietKeys
  BY DEF SC_Init, QuietKeys, InHand, MakerHasIt, LiveIsOwned, OneUndo, UndoHasIt, TrashedByUndo,
         Deleters, Makes, On, Ours, Live, Undoes, Active, FreeKey, Made, SC_Idle
<1> QED
  BY <1>1, <1>2, <1>3, <1>4 DEF SC_IInv

(* Every step keeps the invariant. *)
LEMMA SC_NextKeeps ==
  SC_IInv /\ [SC_Next]_sp => SC_IInv'
<1> SUFFICES ASSUME SC_IInv, [SC_Next]_sp PROVE SC_IInv'
  OBVIOUS
<1>1. CASE KeepScan \/ \E k \in Keys : Purged(k) \/ SC_Preview(k) \/ SC_Outside(k)
  BY <1>1, SC_KeepScanKeeps, SC_PurgedKeeps, SC_PreviewKeeps, SC_OutsideKeeps
<1>2. CASE \E r \in Runs : \/ \E k \in Keys : SC_Execute(r, k)
                           \/ \E e \in 1..SC_MaxRuns : SC_Undo(r, e)
                           \/ SC_Leave(r)
  BY <1>2, SC_ExecuteKeeps, SC_UndoKeeps, SC_LeaveKeeps
<1>3. CASE \E r \in Runs : Post(r) \/ Trash(r) \/ ReadSchemes(r) \/ Complete(r) \/ SC_Ends(r)
  BY <1>3, SC_PostKeeps, SC_TrashKeeps, SC_ReadSchemesKeeps, SC_CompleteKeeps, SC_EndsKeeps
<1>4. CASE UNCHANGED sp
  BY <1>4, SC_StutterKeeps
<1> QED
  BY <1>1, <1>2, <1>3, <1>4 DEF SC_Next

(* Keys that nobody else had, schemes and scans are in order in every state, *)
(* for any keys, any number of runs on them and any number of attempts: the *)
(* invariant of SpaceCreate that the theorem below rests on.                *)
THEOREM SC_Invariance == SC_Spec => []SC_IInv
<1> QED
  BY SC_InitIInv, SC_NextKeeps, PTL DEF SC_Spec

(* Once nothing is at work, the journal and Jira agree on the spaces the     *)
(* program made, and no outdated scan is kept unless the operator was told   *)
(* (space_create.py: execute_stream, _invalidate); and the scheme that a     *)
(* template set is never overwritten, whatever runs meet on a key.           *)
THEOREM SpacesInOrderAlways == SC_Spec => []SpacesInOrder
<1>1. SC_IInv => SpacesInOrder
  <2> SUFFICES ASSUME SC_IInv PROVE SpacesAccounted /\ TemplateKept
    BY DEF SpacesInOrder
  <2>1. TemplateKept
    <3> SUFFICES ASSUME NEW k \in Keys \ handed
                 PROVE  /\ (Live(k) /\ space[k].template # "none") =>
                             space[k].scheme = space[k].template
                        /\ \A r \in Runs :
                              (At(r, "item") /\ run[r].op = "create" /\ run[r].ok
                                  /\ ~run[r].caveat) =>
                                (Live(k) /\ space[k].by = r /\ run[r].key = k
                                   => space[k].completed)
      BY DEF TemplateKept
    <3>1. \A r \in Runs : At(r, "item") => run[r] # SC_Idle
      BY DEF At, SC_Idle
    <3> QED
      BY <3>1 DEF SC_IInv, SchemesKept
  <2>2. ASSUME AtRest, NEW k \in Keys \ (sc_told \union handed)
        PROVE  (Live(k) /\ space[k].by # "other") <=>
                 \E e \in DOMAIN log : Active(e) /\ log[e].key = k /\ log[e].op = "delete"
    <3>1. ASSUME Live(k), space[k].by # "other"
          PROVE  \E e \in DOMAIN log : Active(e) /\ log[e].key = k /\ log[e].op = "delete"
      BY <2>2, <3>1 DEF SC_IInv, QuietKeys, InHand, LiveIsOwned, Ours, Undoes, On, AtRest
    <3>2. ASSUME NEW e \in DOMAIN log, Undoes(e, k)
          PROVE  Live(k) /\ space[k].by # "other"
      <4>1. space[k].state # "free" /\ space[k].state # "trash"
        BY <2>2, <3>2 DEF SC_IInv, QuietKeys, InHand, UndoHasIt, TrashedByUndo, On, AtRest
      <4>2. Live(k)
        BY <4>1 DEF SC_IInv, SC_TypeOK, SC_Spaces, Live, FreeKey
      <4> QED
        BY <3>2, <4>2 DEF SC_IInv, NotKept, Undoes
    <3> QED
      BY <3>1, <3>2 DEF Undoes
  <2>3. AtRest /\ cached = "stale" => sc_told # {}
    BY DEF SC_IInv, ScanSeenTo
  <2> QED
    BY <2>1, <2>2, <2>3 DEF SpacesAccounted
<1> QED
  BY <1>1, SC_Invariance, PTL

------------------------------------------------------------------------------
(***************************************************************************)
(* The contexts of a field                                                  *)
(***************************************************************************)

(* Contexts there may be, a change that is stored, an entry and a request.   *)
FC_Contexts == UNION {[D -> States] : D \in SUBSET Nat}

(* A change that is stored: what an edit, a deletion or a creation needs.   *)
FC_Changes ==
  [op : {"edit", "create", "delete"}, ctx : Nat, state : SUBSET States, global : BOOLEAN]

(* A request to Jira, each part of a context with what can be done to it.   *)
FC_Writes ==
  [field : {"name"}, how : {"set"}, value : Names]
    \union [field : {"default"}, how : {"set"}, value : Defaults]
    \union [field : {"projects"}, how : {"add", "remove"}, value : SUBSET Projects]
    \union [field : {"types"}, how : {"add", "remove"}, value : SUBSET IssueTypes]

(* A request of the operator at work.                                       *)
FC_Requests ==
  [op : {"edit", "create", "delete"}, change : FC_Changes, undoOf : Nat,
   phase : {"capture", "write", "name", "projects", "types", "default", "refresh", "done"},
   before : SUBSET FC_Changes, todo : Seq(FC_Writes), was : FC_Contexts, exact : BOOLEAN]

(* An entry of the journal.                                                 *)
FC_Entries ==
  [inverse : SUBSET FC_Changes, status : {"active", "rolled_back"}, undo : BOOLEAN,
   was : FC_Contexts, made : FC_Contexts]

(* The state has the types it has in the source.                            *)
FC_Typed ==
  /\ ctx \in FC_Contexts /\ DOMAIN ctx \subseteq 1..lastId /\ trail \in FC_Contexts
  /\ lastId \in Nat /\ outside \in Nat /\ changes \in Nat
  /\ journal \in Seq(FC_Entries)
  /\ req \in FC_Requests \union {NoRequest}
  /\ odd \subseteq {"paged", "refused"} /\ told \in BOOLEAN

(* What makes or edits a context says how it shall be.                      *)
Says(change) == \E state \in States : change.state = {state}

(* A change stored or captured says one state; only a deletion need not.    *)
StatesSaid ==
  /\ \A e \in DOMAIN journal : \A change \in journal[e].inverse : Says(change)
  /\ req # NoRequest =>
       /\ req.op = req.change.op
       /\ req.op # "delete" \/ req.undoOf # 0 => Says(req.change)
       /\ \A change \in req.before : Says(change)

(* A request that undoes has the change of its entry; it starts from what     *)
(* that left, if it is exact.                                               *)
UndoesItsEntry ==
  (req # NoRequest /\ req.undoOf # 0) =>
    /\ req.undoOf \in DOMAIN journal
    /\ \E change \in journal[req.undoOf].inverse :
         /\ change.op = req.op /\ change.state = req.change.state
         /\ req.op # "create" => change.ctx = req.change.ctx
    /\ req.exact => req.was = journal[req.undoOf].made

(* More is still to be added and less to be taken out until field is value.  *)
Leaves(field, value) ==
  \E more, less \in SUBSET (Projects \union IssueTypes) :
    /\ req.todo = Add(field, more) \o TakeOut(field, less)
    /\ (ctx[req.change.ctx][field] \union more) \ less = value

(* A part of the edit that is behind has been done, one that is not yet ...   *)
Behind(phase) ==
  \/ req.phase \in {"refresh", "done"}
  \/ phase = "types" /\ req.phase = "default"
  \/ phase = "projects" /\ req.phase \in {"types", "default"}
  \/ phase = "name" /\ req.phase \in {"projects", "types", "default"}

(* ... is true of the context once it is behind or has no more to send.     *)
Settled(phase, done) == (Behind(phase) \/ (req.phase = phase /\ req.todo = <<>>)) => done

(* An edit on its way: what is done, and what there is still to send.       *)
EditUnderWay ==
  (req # NoRequest /\ req.op = "edit" /\ req.phase # "capture" /\ req.before # {}) =>
    LET c == req.change.ctx IN
    /\ c \in DOMAIN ctx /\ DOMAIN ctx = DOMAIN req.was
    /\ \A d \in DOMAIN ctx \ {c} : ctx[d] = req.was[d]
    /\ \A change \in req.before :
         change.op = "edit" /\ change.ctx = c /\ change.state = {req.was[c]}
    /\ req.phase \in {"refresh", "done"} => req.todo = <<>>
    /\ req.phase = "name" /\ req.todo # <<>> => req.todo = <<Put("name", Wanted.name)>>
    /\ req.phase = "default" /\ req.todo # <<>> => req.todo = <<Put("default", Wanted.default)>>
    /\ req.phase = "projects" =>
         IF req.change.global THEN req.todo = <<>> ELSE Leaves("projects", Wanted.projects)
    /\ req.phase = "types" =>
         \E more, less \in SUBSET IssueTypes :
           /\ req.todo = Add("types", more) \o TakeOut("types", less)
           /\ ("paged" \in odd \/ (ctx[c].types \union more) \ less = Wanted.types)
    /\ Settled("name", ctx[c].name = Wanted.name)
    /\ Settled("projects", req.change.global \/ ctx[c].projects = Wanted.projects)
    /\ Settled("types", "paged" \in odd \/ ctx[c].types = Wanted.types)
    /\ Settled("default", ctx[c].default = Wanted.default)

(* Nothing is seen of a context that is gone, and its edit gets nowhere.     *)
EditOfNothing ==
  (req # NoRequest /\ req.op = "edit" /\ req.phase # "capture") =>
    IF req.before = {}
    THEN req.phase = "name" /\ req.todo # <<>> /\ req.change.ctx \notin DOMAIN ctx
    ELSE req.change.ctx \in DOMAIN ctx

(* The contexts the request found, and one that it made.                    *)
With(c, state) == [d \in DOMAIN req.was \union {c} |-> IF d = c THEN state ELSE req.was[d]]

(* Creations and deletions: before their request to Jira and after it.      *)
OthersUnderWay ==
  req # NoRequest =>
    /\ req.phase = "capture" => ctx = req.was /\ req.todo = <<>>
    /\ req.op = "create" =>
         IF req.phase = "write" THEN ctx = req.was
         ELSE /\ req.phase \in {"refresh", "done"}
              /\ req.change.ctx \notin DOMAIN req.was
              /\ ctx = With(req.change.ctx, Wanted)
    /\ req.op = "delete" =>
         IF req.phase \in {"capture", "write"} THEN ctx = req.was
         ELSE /\ req.phase \in {"refresh", "done"}
              /\ "refused" \in odd \/ ctx = Restrict(req.was, DOMAIN req.was \ {req.change.ctx})
              /\ "refused" \in odd \/ req.change.ctx \in DOMAIN req.was

(* What is known of the request at work, if nobody else interferes.         *)
RequestsTrue == EditOfNothing /\ (outside = 0 => EditUnderWay /\ OthersUnderWay)

(* An entry whose change leads back from made to was.                       *)
EntryTrue(change, was, made) ==
  LET c == change.ctx
  IN CASE change.op = "edit" ->
            /\ c \in DOMAIN was /\ DOMAIN made = DOMAIN was
            /\ \A d \in DOMAIN was \ {c} : made[d] = was[d]
            /\ change.state = {was[c]}
       [] change.op = "delete" -> c \notin DOMAIN was /\ was = Restrict(made, DOMAIN made \ {c})
       [] OTHER -> \E k \in DOMAIN was : made = Restrict(was, DOMAIN was \ {k})

(* Every entry does, unless Jira refused or held back something.            *)
JournalTrue ==
  (outside = 0 /\ odd = {}) =>
    \A e \in DOMAIN journal : \A change \in journal[e].inverse :
      EntryTrue(change, journal[e].was, journal[e].made)


------------------------------------------------------------------------------

(* What a request to Jira does to a context.                                *)
LEMMA NameApplied ==
  ASSUME NEW s \in States, NEW v \in Names
  PROVE  Applied(s, Put("name", v)) = [s EXCEPT !.name = v]
  BY DEF Applied, Put, States

(* The same of the default,                                                 *)
LEMMA DefaultApplied ==
  ASSUME NEW s \in States, NEW v \in Defaults
  PROVE  Applied(s, Put("default", v)) = [s EXCEPT !.default = v]
  BY DEF Applied, Put, States

(* ... of the projects,                                                     *)
LEMMA ProjectsApplied ==
  ASSUME NEW s \in States, NEW v
  PROVE  /\ Applied(s, [field |-> "projects", value |-> v, how |-> "add"])
              = [s EXCEPT !.projects = @ \union v]
         /\ Applied(s, [field |-> "projects", value |-> v, how |-> "remove"])
              = [s EXCEPT !.projects = @ \ v]
  BY DEF Applied, States

(* ... and of the issue types.                                              *)
LEMMA TypesApplied ==
  ASSUME NEW s \in States, NEW v
  PROVE  /\ Applied(s, [field |-> "types", value |-> v, how |-> "add"])
              = [s EXCEPT !.types = @ \union v]
         /\ Applied(s, [field |-> "types", value |-> v, how |-> "remove"])
              = [s EXCEPT !.types = @ \ v]
  BY DEF Applied, States

(* The requests that add and take out are sent one after the other.         *)
LEMMA AddsThenTakesOut ==
  ASSUME NEW field, NEW more, NEW less
  PROVE  LET todo(m, l) == Add(field, m) \o TakeOut(field, l)
         IN /\ (todo(more, less) = <<>> <=> more = {} /\ less = {})
            /\ more # {} =>
                 /\ Head(todo(more, less)) = [field |-> field, value |-> more, how |-> "add"]
                 /\ Tail(todo(more, less)) = todo({}, less)
            /\ (more = {} /\ less # {}) =>
                 /\ Head(todo(more, less)) = [field |-> field, value |-> less, how |-> "remove"]
                 /\ Tail(todo(more, less)) = todo({}, {})
<1> DEFINE a == [field |-> field, value |-> more, how |-> "add"]
           b == [field |-> field, value |-> less, how |-> "remove"]
<1>1. CASE more = {} /\ less = {}
  BY <1>1 DEF Add, TakeOut
<1>2. CASE more = {} /\ less # {}
  BY <1>2 DEF Add, TakeOut
<1>3. CASE more # {} /\ less = {}
  <2>1. Add(field, more) = <<a>> /\ TakeOut(field, less) = <<>> /\ Add(field, {}) = <<>>
    BY <1>3 DEF Add, TakeOut
  <2> HIDE DEF a
  <2>2. <<a>> \o <<>> = <<a>> /\ <<>> \o <<>> = <<>> /\ Head(<<a>>) = a /\ Tail(<<a>>) = <<>>
        /\ <<a>> # <<>>
    OBVIOUS
  <2> QED
    BY <1>3, <2>1, <2>2 DEF a
<1>4. CASE more # {} /\ less # {}
  <2>1. Add(field, more) = <<a>> /\ TakeOut(field, less) = <<b>> /\ Add(field, {}) = <<>>
    BY <1>4 DEF Add, TakeOut
  <2> HIDE DEF a, b
  <2>2. <<>> \o <<b>> = <<b>>
    OBVIOUS
  <2> DEFINE t == <<a>> \o <<b>>
  <2>3. t \in Seq({a, b}) /\ Len(t) = 2 /\ t[1] = a /\ t[2] = b
    OBVIOUS
  <2> HIDE DEF t
  <2>4. t # <<>> /\ Head(t) = a
    BY <2>3
  <2>5. Tail(t) \in Seq({a, b}) /\ Len(Tail(t)) = 1 /\ Tail(t)[1] = b
    BY <2>3
  <2>6. Tail(t) = <<b>>
    <3>1. <<b>> \in Seq({a, b}) /\ Len(<<b>>) = 1 /\ <<b>>[1] = b
      OBVIOUS
    <3>2. \A i \in 1..1 : i = 1
      OBVIOUS
    <3> QED
      BY <2>5, <3>1, <3>2, SeqEqual
  <2> QED
    BY <1>4, <2>1, <2>2, <2>4, <2>6 DEF a, t
<1> QED
  BY <1>1, <1>2, <1>3, <1>4

(* Marking an entry leaves what it says.                                    *)
LEMMA MarkedKeeps ==
  ASSUME NEW j \in Seq(FC_Entries), NEW u \in Nat, u = 0 \/ u \in DOMAIN j
  PROVE  /\ Marked(u, j) \in Seq(FC_Entries) /\ DOMAIN Marked(u, j) = DOMAIN j
         /\ \A e \in DOMAIN j : /\ Marked(u, j)[e].inverse = j[e].inverse
                                /\ Marked(u, j)[e].was = j[e].was
                                /\ Marked(u, j)[e].made = j[e].made
<1>1. CASE u = 0
  BY <1>1 DEF Marked
<1>2. CASE u # 0
  <2>1. j[u] \in FC_Entries
    BY <1>2
  <2> DEFINE n == [j[u] EXCEPT !.status = "rolled_back"]
  <2>2. /\ n \in FC_Entries /\ n.inverse = j[u].inverse /\ n.was = j[u].was
        /\ n.made = j[u].made
    BY <2>1 DEF FC_Entries
  <2>3. Marked(u, j) = [j EXCEPT ![u] = n]
    BY <1>2 DEF Marked
  <2> HIDE DEF n
  <2>4. [j EXCEPT ![u] = n] \in Seq(FC_Entries) /\ DOMAIN [j EXCEPT ![u] = n] = DOMAIN j
    BY <1>2, <2>2
  <2>5. \A e \in DOMAIN j : [j EXCEPT ![u] = n][e] = IF e = u THEN n ELSE j[e]
    BY <1>2
  <2> QED
    BY <2>2, <2>3, <2>4, <2>5
<1> QED
  BY <1>1, <1>2

(* The one state that a change says is the one wanted.                      *)
LEMMA WantedIs ==
  ASSUME NEW s, req.change.state = {s}
  PROVE  Wanted = s
  BY DEF Wanted

(* Whoever says something is at work.                                       *)
LEMMA AtWork ==
  ASSUME FC_Typed, req.op \in {"edit", "create", "delete"}
  PROVE  req \in FC_Requests /\ req # NoRequest
  BY DEF FC_Typed, NoRequest

(* The journal goes on: it is as long as it was or longer, and the entries    *)
(* that there were say what they said.                                      *)
JournalKept ==
  /\ journal' \in Seq(FC_Entries) /\ DOMAIN journal' = DOMAIN journal
  /\ \A e \in DOMAIN journal : /\ journal'[e].inverse = journal[e].inverse
                              /\ journal'[e].was = journal[e].was
                              /\ journal'[e].made = journal[e].made

(* What is known of the request at work and of the journal.                 *)
Core == StatesSaid /\ UndoesItsEntry /\ RequestsTrue /\ JournalTrue

(* A request is over.                                                       *)
LEMMA OverKeeps ==
  ASSUME FC_Typed, Core, req' = NoRequest, UNCHANGED <<outside, odd>>,
         JournalKept
  PROVE  Core'
<1>1. StatesSaid'
  BY DEF Core, StatesSaid, JournalKept
<1>2. UndoesItsEntry' /\ RequestsTrue'
  BY DEF UndoesItsEntry, RequestsTrue, EditUnderWay, EditOfNothing, OthersUnderWay
<1>3. JournalTrue'
  BY DEF Core, JournalTrue, JournalKept
<1> QED
  BY <1>1, <1>2, <1>3 DEF Core

(* The journal is kept when it is left alone,                               *)
LEMMA UnchangedJournalKept ==
  ASSUME FC_Typed, UNCHANGED journal
  PROVE  JournalKept
  BY DEF FC_Typed, JournalKept

(* ... and when the entry undone is marked.                                 *)
LEMMA MarkedJournalKept ==
  ASSUME FC_Typed, UndoesItsEntry, req # NoRequest, journal' = Marked(req.undoOf, journal)
  PROVE  JournalKept
<1>1. req \in FC_Requests /\ req.undoOf \in Nat /\ journal \in Seq(FC_Entries)
  BY DEF FC_Typed, FC_Requests
<1>2. req.undoOf = 0 \/ req.undoOf \in DOMAIN journal
  BY DEF UndoesItsEntry
<1> QED
  BY <1>1, <1>2, MarkedKeeps DEF JournalKept

(* A request begins with what there is.                                     *)
LEMMA BeginKeeps ==
  ASSUME FC_Typed, Core, req = NoRequest,
         NEW change \in FC_Changes, NEW u \in Nat, NEW phase \in {"capture", "write"},
         change.op # "delete" \/ u # 0 => Says(change),
         change.op = "edit" => phase = "capture",
         change.op = "create" => phase = "write",
         u # 0 => u \in DOMAIN journal /\ change \in journal[u].inverse,
         req' = Request(change, u, phase),
         UNCHANGED <<ctx, journal, outside, odd>>
  PROVE  Core' /\ req' \in FC_Requests
<1> DEFINE ex == u # 0 /\ ctx = journal[IF u = 0 THEN 1 ELSE u].made
<1>1. req' = [op |-> change.op, change |-> change, undoOf |-> u, phase |-> phase,
              before |-> {}, todo |-> <<>>, was |-> ctx, exact |-> ex]
  BY DEF Request
<1>2. ex \in BOOLEAN /\ (ex => ctx = journal[u].made)
  OBVIOUS
<1> HIDE DEF ex
<1>3. /\ change.op \in {"edit", "create", "delete"} /\ ctx \in FC_Contexts
      /\ <<>> \in Seq(FC_Writes)
  BY DEF FC_Typed, FC_Changes
<1>4. req' \in FC_Requests
  BY <1>1, <1>2, <1>3 DEF FC_Requests
<1>5. StatesSaid'
  BY <1>1 DEF Core, StatesSaid, Says
<1>6. UndoesItsEntry'
  BY <1>1, <1>2 DEF UndoesItsEntry
<1>7. RequestsTrue'
  BY <1>1 DEF RequestsTrue, EditUnderWay, EditOfNothing, OthersUnderWay
<1>8. JournalTrue'
  BY DEF Core, JournalTrue
<1> QED
  BY <1>4, <1>5, <1>6, <1>7, <1>8 DEF Core

(* It is recorded: what there is is what it made of what was.               *)
LEMMA RecordedKeeps ==
  ASSUME FC_Typed, Core, req # NoRequest, req.phase = "refresh",
         NEW inverse \in SUBSET FC_Changes, \A change \in inverse : Says(change),
         (outside = 0 /\ odd = {}) => \A change \in inverse : EntryTrue(change, req.was, ctx),
         Recorded(inverse), UNCHANGED <<ctx, outside, odd>>
  PROVE  Core' /\ req' \in FC_Requests /\ journal' \in Seq(FC_Entries)
<1>1. /\ req \in FC_Requests /\ journal \in Seq(FC_Entries) /\ ctx \in FC_Contexts
      /\ req.undoOf \in Nat /\ req.was \in FC_Contexts
  BY DEF FC_Typed, FC_Requests
<1> DEFINE new == Entry(inverse)
           longer == Append(journal, new)
<1>2. new \in FC_Entries /\ new.inverse = inverse /\ new.was = req.was /\ new.made = ctx
  BY <1>1 DEF Entry, FC_Entries
<1> HIDE DEF new
<1>3. /\ longer \in Seq(FC_Entries) /\ DOMAIN longer = 1..(Len(journal) + 1)
      /\ DOMAIN journal = 1..Len(journal) /\ Len(journal) \in Nat
      /\ longer[Len(journal) + 1] = new
      /\ \A e \in 1..Len(journal) : longer[e] = journal[e]
  BY <1>1, <1>2
<1> HIDE DEF longer
<1>4. req.undoOf = 0 \/ req.undoOf \in DOMAIN journal
  BY DEF Core, UndoesItsEntry
<1>5. req.undoOf = 0 \/ req.undoOf \in DOMAIN longer
  BY <1>3, <1>4
<1>6. journal' = Marked(req.undoOf, longer) /\ req' = [req EXCEPT !.phase = "done"]
  BY DEF Recorded, longer, new
<1>7. /\ journal' \in Seq(FC_Entries) /\ DOMAIN journal' = DOMAIN longer
      /\ \A e \in DOMAIN longer : /\ journal'[e].inverse = longer[e].inverse
                                 /\ journal'[e].was = longer[e].was
                                 /\ journal'[e].made = longer[e].made
  BY <1>1, <1>3, <1>5, <1>6, MarkedKeeps
<1>8. /\ \A e \in DOMAIN journal : /\ e \in DOMAIN journal'
                                 /\ journal'[e].inverse = journal[e].inverse
                                 /\ journal'[e].was = journal[e].was
                                 /\ journal'[e].made = journal[e].made
      /\ \A e \in DOMAIN journal' \ DOMAIN journal :
            /\ journal'[e].inverse = inverse /\ journal'[e].was = req.was
            /\ journal'[e].made = ctx
  BY <1>2, <1>3, <1>7
<1>9. /\ req' \in FC_Requests /\ req' # NoRequest /\ req'.phase = "done"
      /\ req'.op = req.op /\ req'.change = req.change /\ req'.undoOf = req.undoOf
      /\ req'.before = req.before /\ req'.todo = req.todo /\ req'.was = req.was
      /\ req'.exact = req.exact
  BY <1>1, <1>6 DEF FC_Requests, NoRequest
<1>10. StatesSaid'
  BY <1>8, <1>9 DEF Core, StatesSaid, Says
<1>11. UndoesItsEntry'
  BY <1>8, <1>9 DEF Core, UndoesItsEntry
<1>12. Wanted' = Wanted
  BY <1>9 DEF Wanted
<1>13. RequestsTrue'
  <2>1. outside = 0 => EditUnderWay'
    BY <1>9, <1>12 DEF Core, RequestsTrue, EditUnderWay, Settled, Behind
  <2>2. EditOfNothing'
    BY <1>9 DEF Core, RequestsTrue, EditOfNothing
  <2>3. outside = 0 => OthersUnderWay'
    BY <1>9, <1>12 DEF Core, RequestsTrue, OthersUnderWay, With
  <2> QED
    BY <2>1, <2>2, <2>3 DEF RequestsTrue
<1>14. JournalTrue'
  <2> SUFFICES ASSUME outside = 0, odd = {}, NEW e \in DOMAIN journal',
                      NEW change \in journal'[e].inverse
               PROVE  EntryTrue(change, journal'[e].was, journal'[e].made)
    BY DEF JournalTrue
  <2>1. CASE e \in DOMAIN journal
    BY <1>8, <2>1 DEF Core, JournalTrue
  <2>2. CASE e \notin DOMAIN journal
    BY <1>8, <2>2
  <2> QED
    BY <2>1, <2>2
<1> QED
  BY <1>7, <1>9, <1>10, <1>11, <1>13, <1>14 DEF Core

(* The invariant: what was typed, what a request and an entry say, and that   *)
(* whatever is not in the journal was told.                                 *)
FC_IInv == FC_Typed /\ Core /\ TrailComplete

(* What a failure ends was told.                                            *)
LEMMA FailedKeeps ==
  ASSUME FC_IInv, req # NoRequest, Failed, ctx' \in FC_Contexts, DOMAIN ctx' \subseteq 1..lastId',
         lastId' \in Nat, UNCHANGED <<changes, outside, odd, trail>>
  PROVE  FC_IInv'
<1>1. req' = NoRequest /\ told' = TRUE /\ journal' = Marked(req.undoOf, journal)
  BY DEF Failed
<1>2. JournalKept
  BY <1>1, MarkedJournalKept DEF FC_IInv, Core
<1>3. Core'
  BY <1>1, <1>2, OverKeeps DEF FC_IInv
<1>4. FC_Typed'
  BY <1>1, <1>2 DEF FC_IInv, FC_Typed, JournalKept
<1>5. TrailComplete'
  BY <1>1 DEF TrailComplete
<1> QED
  BY <1>3, <1>4, <1>5 DEF FC_IInv

(* A read that fails fails the request.                                     *)
LEMMA ReadFailsKeeps ==
  ASSUME FC_IInv, ReadFails
  PROVE  FC_IInv'
<1>1. req # NoRequest /\ Failed /\ UNCHANGED <<changes, ctx, lastId, outside, odd, trail>>
  BY DEF ReadFails, NoRequest
<1>2. ctx \in FC_Contexts /\ DOMAIN ctx \subseteq 1..lastId /\ lastId \in Nat
  BY DEF FC_IInv, FC_Typed
<1> QED
  BY <1>1, <1>2, FailedKeeps

(* The requests that begin.                                                 *)
LEMMA BegunKeeps ==
  ASSUME FC_IInv, req = NoRequest,
         NEW change \in FC_Changes, NEW u \in Nat, NEW phase \in {"capture", "write"},
         change.op # "delete" \/ u # 0 => Says(change),
         change.op = "edit" => phase = "capture",
         change.op = "create" => phase = "write",
         u # 0 => u \in DOMAIN journal /\ change \in journal[u].inverse,
         req' = Request(change, u, phase), changes' \in Nat,
         UNCHANGED <<ctx, lastId, journal, outside, odd, told, trail>>
  PROVE  FC_IInv'
<1>1. Core' /\ req' \in FC_Requests
  BY BeginKeeps DEF FC_IInv
<1>2. FC_Typed'
  BY <1>1 DEF FC_IInv, FC_Typed
<1>3. TrailComplete'
  BY DEF FC_IInv, TrailComplete
<1> QED
  BY <1>1, <1>2, <1>3 DEF FC_IInv

(* An edit,                                                                 *)
LEMMA BeginEditKeeps ==
  ASSUME FC_IInv, NEW c \in Ids, NEW state \in States, BeginEdit(c, state)
  PROVE  FC_IInv'
<1>1. PICK global \in BOOLEAN : req' = Request(EditOf(c, state, global), 0, "capture")
  BY DEF BeginEdit, Global
<1>2. /\ EditOf(c, state, global) \in FC_Changes /\ Says(EditOf(c, state, global))
      /\ EditOf(c, state, global).op = "edit"
  BY DEF EditOf, FC_Changes, Ids, Says
<1>3. /\ req = NoRequest /\ changes' \in Nat
      /\ UNCHANGED <<ctx, lastId, journal, outside, odd, told, trail>>
  BY DEF BeginEdit, Asked, Free, FC_IInv, FC_Typed
<1> QED
  BY <1>1, <1>2, <1>3, BegunKeeps

(* ... a creation,                                                          *)
LEMMA BeginCreateKeeps ==
  ASSUME FC_IInv, NEW state \in States, BeginCreate(state)
  PROVE  FC_IInv'
<1>1. req' = Request(CreateOf({state}), 0, "write")
  BY DEF BeginCreate
<1>2. /\ CreateOf({state}) \in FC_Changes /\ Says(CreateOf({state}))
      /\ CreateOf({state}).op = "create"
  BY DEF CreateOf, FC_Changes, Says
<1>3. /\ req = NoRequest /\ changes' \in Nat
      /\ UNCHANGED <<ctx, lastId, journal, outside, odd, told, trail>>
  BY DEF BeginCreate, Asked, Free, FC_IInv, FC_Typed
<1> QED
  BY <1>1, <1>2, <1>3, BegunKeeps

(* ... a deletion,                                                          *)
LEMMA BeginDeleteKeeps ==
  ASSUME FC_IInv, NEW c \in Ids, BeginDelete(c)
  PROVE  FC_IInv'
<1>1. req' = Request(DeleteOf(c, {}), 0, "capture")
  BY DEF BeginDelete
<1>2. DeleteOf(c, {}) \in FC_Changes /\ DeleteOf(c, {}).op = "delete"
  BY DEF DeleteOf, FC_Changes, Ids
<1>3. /\ req = NoRequest /\ changes' \in Nat
      /\ UNCHANGED <<ctx, lastId, journal, outside, odd, told, trail>>
  BY DEF BeginDelete, Asked, Free, FC_IInv, FC_Typed
<1> QED
  BY <1>1, <1>2, <1>3, BegunKeeps

(* ... and the undo of an entry, which does what its inverse says.          *)
LEMMA BeginUndoKeeps ==
  ASSUME FC_IInv, NEW e \in 1..MaxEntries, BeginUndo(e)
  PROVE  FC_IInv'
<1>1. e \in DOMAIN journal /\ e \in Nat /\ e # 0
  BY DEF BeginUndo
<1>2. PICK change \in journal[e].inverse :
        req' = Request(change, e, IF change.op = "edit" THEN "capture" ELSE "write")
  BY DEF BeginUndo
<1>3. change \in FC_Changes /\ Says(change)
  <2>1. journal[e] \in FC_Entries
    BY <1>1 DEF FC_IInv, FC_Typed
  <2> QED
    BY <1>1, <2>1 DEF FC_IInv, Core, StatesSaid, FC_Entries
<1>4. /\ req = NoRequest /\ changes' \in Nat
      /\ UNCHANGED <<ctx, lastId, journal, outside, odd, told, trail>>
  BY DEF BeginUndo, Free, FC_IInv, FC_Typed
<1>5. CASE change.op = "edit"
  <2>1. req' = Request(change, e, "capture")
    BY <1>2, <1>5
  <2> QED
    BY <1>1, <1>2, <1>3, <1>4, <1>5, <2>1, BegunKeeps
<1>6. CASE change.op # "edit"
  <2>1. req' = Request(change, e, "write")
    BY <1>2, <1>6
  <2> QED
    BY <1>1, <1>2, <1>3, <1>4, <1>6, <2>1, BegunKeeps
<1> QED
  BY <1>5, <1>6

(* Another administrator: little is known from then on.                     *)
LEMMA ElsewhereKeeps ==
  ASSUME FC_IInv, NEW c \in Ids, NEW state \in States, Elsewhere(c, state)
  PROVE  FC_IInv'
<1>1. /\ c \in DOMAIN ctx /\ ctx' = [ctx EXCEPT ![c] = state] /\ outside' = outside + 1
      /\ UNCHANGED <<changes, lastId, journal, req, odd, told, trail>>
  BY DEF Elsewhere
<1>2. ctx' \in FC_Contexts /\ DOMAIN ctx' = DOMAIN ctx
  BY <1>1 DEF FC_IInv, FC_Typed, FC_Contexts
<1>3. outside \in Nat /\ outside' \in Nat /\ outside' # 0 /\ outside' > 0
  BY <1>1 DEF FC_IInv, FC_Typed
<1>4. FC_Typed'
  BY <1>1, <1>2, <1>3 DEF FC_IInv, FC_Typed
<1>5. StatesSaid' /\ UndoesItsEntry'
  BY <1>1 DEF FC_IInv, Core, StatesSaid, UndoesItsEntry, Says
<1>6. RequestsTrue' /\ JournalTrue' /\ TrailComplete'
  BY <1>1, <1>2, <1>3 DEF FC_IInv, Core, RequestsTrue, EditOfNothing, JournalTrue, TrailComplete
<1> QED
  BY <1>4, <1>5, <1>6 DEF FC_IInv, Core

(* The answer is out, or nobody waits for it any more.                      *)
LEMMA AbandonedKeeps ==
  ASSUME FC_IInv, Abandoned \/ Answered
  PROVE  FC_IInv'
<1>1. req' = NoRequest /\ UNCHANGED <<changes, ctx, lastId, journal, outside, odd, trail>>
  BY DEF Abandoned, Answered
<1>2. JournalKept
  BY <1>1, UnchangedJournalKept DEF FC_IInv
<1>3. Core'
  BY <1>1, <1>2, OverKeeps DEF FC_IInv
<1>4. told' \in BOOLEAN
  BY DEF Abandoned, Answered, FC_IInv, FC_Typed
<1>5. FC_Typed'
  BY <1>1, <1>4 DEF FC_IInv, FC_Typed
<1>6. TrailComplete'
  BY DEF FC_IInv, TrailComplete, Abandoned, Answered, Succeeded
<1> QED
  BY <1>3, <1>5, <1>6 DEF FC_IInv

(* A request goes on: all it says stays, up to the context it made.          *)
GoesOn ==
  /\ req' \in FC_Requests /\ req' # NoRequest
  /\ req'.op = req.op /\ req'.change.op = req.change.op /\ req'.change.state = req.change.state
  /\ req'.change.global = req.change.global
  /\ req.op # "create" => req'.change.ctx = req.change.ctx
  /\ req'.undoOf = req.undoOf /\ req'.was = req.was /\ req'.exact = req.exact

(* What a request that goes on need not show again.                         *)
LEMMA GoesOnKeeps ==
  ASSUME FC_IInv, req # NoRequest, GoesOn, \A change \in req'.before : Says(change),
         UNCHANGED <<journal, outside>>, odd \subseteq odd', RequestsTrue'
  PROVE  Core' /\ Wanted' = Wanted
<1>1. StatesSaid'
  BY DEF FC_IInv, Core, StatesSaid, Says, GoesOn
<1>2. UndoesItsEntry'
  BY DEF FC_IInv, Core, UndoesItsEntry, GoesOn
<1>3. JournalTrue'
  BY DEF FC_IInv, Core, JournalTrue
<1>4. Wanted' = Wanted
  BY DEF Wanted, GoesOn
<1> QED
  BY <1>1, <1>2, <1>3, <1>4 DEF Core

(* What is wanted does not change on the way.                               *)
LEMMA WantedStays ==
  ASSUME GoesOn
  PROVE  Wanted' = Wanted
  BY DEF Wanted, GoesOn

(* What an edit says is a state.                                            *)
LEMMA EditSays ==
  ASSUME FC_IInv, req.op = "edit"
  PROVE  /\ req \in FC_Requests /\ req # NoRequest /\ req.change \in FC_Changes
         /\ req.change.ctx \in Nat /\ Wanted \in States
<1>1. req \in FC_Requests /\ req # NoRequest
  BY AtWork DEF FC_IInv
<1>2. req.change \in FC_Changes /\ req.change.ctx \in Nat
  BY <1>1 DEF FC_Requests, FC_Changes
<1>3. PICK s \in States : req.change.state = {s}
  BY <1>1 DEF FC_IInv, Core, StatesSaid, Says
<1>4. Wanted = s
  BY <1>3, WantedIs
<1> QED
  BY <1>1, <1>2, <1>3, <1>4

(* What capture_context_state saw, and the first request after it.           *)
LEMMA CaptureKeeps ==
  ASSUME FC_IInv, Capture
  PROVE  FC_IInv'
<1> DEFINE c == req.change.ctx
           seen == IF c \in DOMAIN ctx THEN {EditOf(c, ctx[c], Global(c))} ELSE {}
           onwards == IF req.op = "edit" THEN "name" ELSE "write"
           next == IF req.op = "edit" THEN <<Put("name", Wanted.name)>> ELSE <<>>
<1>1. /\ req.op \in {"edit", "delete"} /\ req.phase = "capture"
      /\ req' = [req EXCEPT !.before = seen, !.phase = onwards, !.todo = next]
      /\ UNCHANGED <<changes, ctx, lastId, journal, outside, odd, told, trail>>
  BY DEF Capture
<1>2. req \in FC_Requests /\ req # NoRequest
  BY <1>1, AtWork DEF FC_IInv
<1>3. req.change \in FC_Changes /\ c \in Nat
  BY <1>2 DEF FC_Requests, FC_Changes
<1>4. /\ seen \in SUBSET FC_Changes /\ (seen # {} <=> c \in DOMAIN ctx)
      /\ \A change \in seen : /\ Says(change) /\ change.op = "edit" /\ change.ctx = c
                               /\ change.state = {ctx[c]}
  <2>1. CASE c \in DOMAIN ctx
    <3>1. ctx[c] \in States
      BY <2>1 DEF FC_IInv, FC_Typed, FC_Contexts
    <3> DEFINE s == EditOf(c, ctx[c], Global(c))
    <3>2. s \in FC_Changes /\ s.op = "edit" /\ s.ctx = c /\ s.state = {ctx[c]}
      BY <1>3, <3>1 DEF EditOf, FC_Changes, Global
    <3>3. Says(s)
      BY <3>1, <3>2 DEF Says
    <3> QED
      BY <2>1, <3>2, <3>3
  <2>2. CASE c \notin DOMAIN ctx
    BY <2>2
  <2> QED
    BY <2>1, <2>2
<1>5. /\ next \in Seq(FC_Writes)
      /\ req.op = "edit" => next = <<Put("name", Wanted.name)>> /\ next # <<>>
  <2>1. CASE req.op = "edit"
    <3>1. Wanted.name \in Names
      BY <2>1, EditSays DEF States
    <3>2. Put("name", Wanted.name) \in FC_Writes
      BY <3>1 DEF Put, FC_Writes
    <3> QED
      BY <2>1, <3>2
  <2>2. CASE req.op # "edit"
    BY <2>2
  <2> QED
    BY <2>1, <2>2
<1> HIDE DEF seen, next
<1>6. /\ GoesOn /\ req'.before = seen /\ req'.todo = next /\ req'.phase = onwards
      /\ req'.change = req.change
  BY <1>1, <1>2, <1>4, <1>5 DEF FC_Requests, NoRequest, GoesOn
<1>7. FC_Typed'
  BY <1>1, <1>6 DEF FC_IInv, FC_Typed, GoesOn
<1>8. RequestsTrue'
  <2>1. outside = 0 => ctx = req.was
    BY <1>1, <1>2 DEF FC_IInv, Core, RequestsTrue, OthersUnderWay
  <2>2. Wanted' = Wanted
    BY <1>6, WantedStays
  <2> HIDE DEF c
  <2>3. c = req.change.ctx
    BY DEF c
  <2>4. outside = 0 => EditUnderWay'
    BY <1>1, <1>4, <1>5, <1>6, <2>1, <2>2, <2>3 DEF EditUnderWay, Settled, Behind, GoesOn
  <2>5. EditOfNothing'
    BY <1>1, <1>4, <1>5, <1>6, <2>3 DEF EditOfNothing, GoesOn
  <2>6. outside = 0 => OthersUnderWay'
    BY <1>1, <1>6, <2>1 DEF OthersUnderWay, GoesOn
  <2> QED
    BY <1>1, <2>4, <2>5, <2>6 DEF RequestsTrue
<1>9. Core'
  BY <1>1, <1>2, <1>4, <1>6, <1>8, GoesOnKeeps
<1>10. TrailComplete'
  BY <1>1, <1>6 DEF TrailComplete, Succeeded, GoesOn
<1> QED
  BY <1>7, <1>9, <1>10 DEF FC_IInv


(* The parts of an edit, one after the other.                               *)
LEMMA PhasesOfAnEdit ==
  /\ DOMAIN Order \ {"capture"} = {"name", "projects", "types", "default"}
  /\ Order["name"] = "projects" /\ Order["projects"] = "types"
  /\ Order["types"] = "default" /\ Order["default"] = "refresh"
  BY DEF Order

(* The requests of an edit are typed.                                       *)
LEMMA WritesTyped ==
  ASSUME NEW field, NEW more, NEW less,
         \/ field = "projects" /\ more \in SUBSET Projects /\ less \in SUBSET Projects
         \/ field = "types" /\ more \in SUBSET IssueTypes /\ less \in SUBSET IssueTypes
  PROVE  Add(field, more) \o TakeOut(field, less) \in Seq(FC_Writes)
<1>1. Add(field, more) \in Seq(FC_Writes)
  <2> DEFINE a == [field |-> field, value |-> more, how |-> "add"]
  <2>1. a \in FC_Writes
    BY DEF FC_Writes
  <2>2. <<a>> \in Seq(FC_Writes) /\ <<>> \in Seq(FC_Writes)
    BY <2>1
  <2> QED
    BY <2>2 DEF Add
<1>2. TakeOut(field, less) \in Seq(FC_Writes)
  <2> DEFINE b == [field |-> field, value |-> less, how |-> "remove"]
  <2>1. b \in FC_Writes
    BY DEF FC_Writes
  <2>2. <<b>> \in Seq(FC_Writes) /\ <<>> \in Seq(FC_Writes)
    BY <2>1
  <2> QED
    BY <2>2 DEF TakeOut
<1> QED
  BY <1>1, <1>2

(* Nothing to add and nothing to take out is nothing to send,               *)
LEMMA NothingToSend ==
  ASSUME NEW field
  PROVE  Add(field, {}) \o TakeOut(field, {}) = <<>>
  BY DEF Add, TakeOut

(* ... and the other way round.                                             *)
LEMMA SomethingToSend ==
  ASSUME NEW field, NEW more, NEW less, Add(field, more) \o TakeOut(field, less) = <<>>
  PROVE  more = {} /\ less = {}
  BY AddsThenTakesOut

(* First what is new is added,                                              *)
LEMMA AddingFirst ==
  ASSUME NEW field, NEW more, NEW less, more # {}
  PROVE  /\ Head(Add(field, more) \o TakeOut(field, less))
              = [field |-> field, value |-> more, how |-> "add"]
         /\ Tail(Add(field, more) \o TakeOut(field, less))
              = Add(field, {}) \o TakeOut(field, less)
  BY AddsThenTakesOut

(* ... then what is no longer wanted is taken out.                          *)
LEMMA ThenTakingOut ==
  ASSUME NEW field, NEW less, less # {}
  PROVE  /\ Head(Add(field, {}) \o TakeOut(field, less))
              = [field |-> field, value |-> less, how |-> "remove"]
         /\ Tail(Add(field, {}) \o TakeOut(field, less))
              = Add(field, {}) \o TakeOut(field, {})
<1>1. {} = {}
  OBVIOUS
<1> QED
  BY <1>1, AddsThenTakesOut

(* One page holds all the issue types there are, unless there are more than  *)
(* it has room for.                                                         *)
LEMMA WholePage ==
  ASSUME NEW all \in SUBSET IssueTypes, NEW page \in FirstPage(all),
         ~(Cardinality(all) > TypesPage)
  PROVE  page = all
<1>1. IsFiniteSet(all)
  BY FieldContextsAssumption, FS_Subset
<1>2. page \in SUBSET all /\ Cardinality(page) = Cardinality(all)
  BY DEF FirstPage
<1> QED
  BY <1>1, <1>2, FS_Subset

(* The edit has gone on by a request.                                       *)
Stepped ==
  /\ GoesOn /\ req'.before = req.before /\ req'.change = req.change
  /\ req'.phase \notin {"capture", "done"}
  /\ outside = 0 => EditUnderWay'

(* The next part of an edit.                                                *)
LEMMA AdvanceKeeps ==
  ASSUME FC_IInv, Advance
  PROVE  FC_IInv'
<1> DEFINE c == req.change.ctx
           phase == Order[req.phase]
<1>1. /\ req.op = "edit" /\ req.phase \in {"name", "projects", "types", "default"}
      /\ req.todo = <<>>
      /\ UNCHANGED <<changes, ctx, lastId, journal, outside, told, trail>>
  BY PhasesOfAnEdit DEF Advance
<1>2. PICK page \in FirstPage(ctx[c].types) :
        req' = [req EXCEPT !.phase = phase, !.todo = Requests(phase, Wanted, c, page)]
  BY DEF Advance
<1>3. odd' = IF phase = "types" /\ Cardinality(ctx[c].types) > TypesPage
             THEN odd \union {"paged"} ELSE odd
  BY DEF Advance
<1>4. /\ req \in FC_Requests /\ req # NoRequest /\ req.change \in FC_Changes /\ c \in Nat
      /\ Wanted \in States
  BY <1>1, EditSays
<1>5. req.before # {} /\ c \in DOMAIN ctx
  BY <1>1, <1>4 DEF FC_IInv, Core, RequestsTrue, EditOfNothing
<1>6. ctx[c] \in States
  BY <1>5 DEF FC_IInv, FC_Typed, FC_Contexts
<1>7. /\ ctx[c].projects \in SUBSET Projects /\ ctx[c].types \in SUBSET IssueTypes
      /\ Wanted.projects \in SUBSET Projects /\ Wanted.types \in SUBSET IssueTypes
      /\ Wanted.default \in Defaults
  BY <1>4, <1>6 DEF States
<1>8. page \in SUBSET IssueTypes
  BY <1>7 DEF FirstPage
<1> DEFINE next == Requests(phase, Wanted, c, page)
           took == IF Wanted.types = {} THEN page ELSE page \ Wanted.types
           put == IF Wanted.types = {} THEN {} ELSE Wanted.types \ page
<1>9. req.phase = "name" => Stepped
  <2> HAVE req.phase = "name"
  <2>1. phase = "projects"
    BY PhasesOfAnEdit
  <2> DEFINE more == Wanted.projects \ ctx[c].projects
             less == ctx[c].projects \ Wanted.projects
  <2>2. next = IF req.change.global THEN <<>>
               ELSE Add("projects", more) \o TakeOut("projects", less)
    BY <2>1 DEF Requests
  <2> HIDE DEF next
  <2>3. next \in Seq(FC_Writes)
    <3>1. more \in SUBSET Projects /\ less \in SUBSET Projects
      BY <1>7
    <3> HIDE DEF more, less
    <3>2. Add("projects", more) \o TakeOut("projects", less) \in Seq(FC_Writes)
      BY <3>1, WritesTyped
    <3>3. <<>> \in Seq(FC_Writes)
      OBVIOUS
    <3> QED
      BY <2>2, <3>2, <3>3
  <2>4. /\ GoesOn /\ req'.todo = next /\ req'.phase = "projects"
        /\ req'.change = req.change /\ req'.before = req.before
    BY <1>2, <1>4, <2>1, <2>3 DEF FC_Requests, NoRequest, GoesOn, next
  <2>5. odd' = odd
    BY <1>3, <2>1
  <2>6. Wanted' = Wanted
    BY <2>4, WantedStays
  <2>7. ~req.change.global => Leaves("projects", Wanted.projects)'
    <3>1. (ctx[c].projects \union more) \ less = Wanted.projects
      OBVIOUS
    <3>2. /\ more \in SUBSET (Projects \union IssueTypes)
          /\ less \in SUBSET (Projects \union IssueTypes)
      BY <1>7
    <3> HIDE DEF more, less
    <3> QED
      BY <1>1, <2>2, <2>4, <2>6, <3>1, <3>2 DEF Leaves
  <2>8. next = <<>> => req.change.global \/ ctx[c].projects = Wanted.projects
    <3> SUFFICES ASSUME next = <<>>, ~req.change.global
                 PROVE  ctx[c].projects = Wanted.projects
      OBVIOUS
    <3> HIDE DEF more, less
    <3>1. Add("projects", more) \o TakeOut("projects", less) = <<>>
      BY <2>2
    <3>2. more = {} /\ less = {}
      BY <3>1, SomethingToSend
    <3> QED
      BY <3>2 DEF more, less
  <2> HIDE DEF c, phase
  <2>9. c = req.change.ctx
    BY DEF c
  <2>10. outside = 0 => EditUnderWay'
    BY <1>1, <1>4, <1>5, <2>2, <2>4, <2>5, <2>6, <2>7, <2>8, <2>9
       DEF FC_IInv, Core, RequestsTrue, EditUnderWay, Settled, Behind, GoesOn
  <2> QED
    BY <2>4, <2>10 DEF Stepped
<1>10. req.phase = "projects" => Stepped
  <2> HAVE req.phase = "projects"
  <2>1. phase = "types"
    BY PhasesOfAnEdit
  <2>2. next = Add("types", put) \o TakeOut("types", took)
    <3>1. CASE Wanted.types = {}
      <4>1. next = TakeOut("types", page) /\ took = page /\ put = {}
        BY <2>1, <3>1 DEF Requests
      <4>2. Add("types", {}) \o TakeOut("types", page) = TakeOut("types", page)
        BY DEF Add, TakeOut
      <4> QED
        BY <4>1, <4>2
    <3>2. CASE Wanted.types # {}
      BY <2>1, <3>2 DEF Requests
    <3> QED
      BY <3>1, <3>2
  <2> HIDE DEF next
  <2>3. put \in SUBSET IssueTypes /\ took \in SUBSET IssueTypes
    BY <1>7, <1>8
  <2>4. next \in Seq(FC_Writes)
    <3> HIDE DEF put, took
    <3> QED
      BY <2>2, <2>3, WritesTyped
  <2>5. /\ GoesOn /\ req'.todo = next /\ req'.phase = "types"
        /\ req'.change = req.change /\ req'.before = req.before
    BY <1>2, <1>4, <2>1, <2>4 DEF FC_Requests, NoRequest, GoesOn, next
  <2>6. "paged" \in odd' \/ (ctx[c].types \union put) \ took = Wanted.types
    <3>1. CASE Cardinality(ctx[c].types) > TypesPage
      BY <1>3, <2>1, <3>1
    <3>2. CASE ~(Cardinality(ctx[c].types) > TypesPage)
      <4>1. page = ctx[c].types
        BY <1>7, <3>2, WholePage
      <4> QED
        BY <4>1
    <3> QED
      BY <3>1, <3>2
  <2>7. next = <<>> => put = {} /\ took = {}
    <3> HIDE DEF put, took
    <3> QED
      BY <2>2, SomethingToSend
  <2>8. odd \subseteq odd'
    BY <1>3
  <2>9. Wanted' = Wanted
    BY <2>5, WantedStays
  <2> HIDE DEF c, phase, put, took
  <2>10. c = req.change.ctx
    BY DEF c
  <2>11. next = <<>> => "paged" \in odd' \/ ctx[c].types = Wanted.types
    BY <2>6, <2>7
  <2>12. \E more, less \in SUBSET IssueTypes :
            /\ req'.todo = Add("types", more) \o TakeOut("types", less)
            /\ "paged" \in odd' \/ (ctx[c].types \union more) \ less = Wanted.types
    BY <2>2, <2>3, <2>5, <2>6
  <2>13. outside = 0 => EditUnderWay'
    BY <1>1, <1>4, <1>5, <2>5, <2>8, <2>9, <2>10, <2>11, <2>12
       DEF FC_IInv, Core, RequestsTrue, EditUnderWay, Settled, Behind, GoesOn
  <2> QED
    BY <2>5, <2>13 DEF Stepped
<1>11. req.phase = "types" => Stepped
  <2> HAVE req.phase = "types"
  <2>1. phase = "default"
    BY PhasesOfAnEdit
  <2>2. next = <<Put("default", Wanted.default)>>
    BY <2>1 DEF Requests
  <2> HIDE DEF next
  <2>3. next \in Seq(FC_Writes) /\ next # <<>>
    <3>1. Put("default", Wanted.default) \in FC_Writes
      BY <1>7 DEF Put, FC_Writes
    <3> QED
      BY <2>2, <3>1
  <2>4. /\ GoesOn /\ req'.todo = next /\ req'.phase = "default"
        /\ req'.change = req.change /\ req'.before = req.before
    BY <1>2, <1>4, <2>1, <2>3 DEF FC_Requests, NoRequest, GoesOn, next
  <2>5. odd' = odd
    BY <1>3, <2>1
  <2>6. Wanted' = Wanted
    BY <2>4, WantedStays
  <2> HIDE DEF c, phase
  <2>7. c = req.change.ctx
    BY DEF c
  <2>8. outside = 0 => EditUnderWay'
    BY <1>1, <1>4, <1>5, <2>2, <2>3, <2>4, <2>5, <2>6, <2>7
       DEF FC_IInv, Core, RequestsTrue, EditUnderWay, Settled, Behind, GoesOn
  <2> QED
    BY <2>4, <2>8 DEF Stepped
<1>12. req.phase = "default" => Stepped
  <2> HAVE req.phase = "default"
  <2>1. phase = "refresh"
    BY PhasesOfAnEdit
  <2>2. next = <<>>
    BY <2>1 DEF Requests
  <2> HIDE DEF next
  <2>3. next \in Seq(FC_Writes)
    BY <2>2
  <2>4. /\ GoesOn /\ req'.todo = next /\ req'.phase = "refresh"
        /\ req'.change = req.change /\ req'.before = req.before
    BY <1>2, <1>4, <2>1, <2>3 DEF FC_Requests, NoRequest, GoesOn, next
  <2>5. odd' = odd
    BY <1>3, <2>1
  <2>6. Wanted' = Wanted
    BY <2>4, WantedStays
  <2> HIDE DEF c, phase
  <2>7. c = req.change.ctx
    BY DEF c
  <2>8. outside = 0 => EditUnderWay'
    BY <1>1, <1>4, <1>5, <2>2, <2>4, <2>5, <2>6, <2>7
       DEF FC_IInv, Core, RequestsTrue, EditUnderWay, Settled, Behind, GoesOn
  <2> QED
    BY <2>4, <2>8 DEF Stepped
<1>13. Stepped
  BY <1>1, <1>9, <1>10, <1>11, <1>12
<1> HIDE DEF c, phase, next, took, put
<1>14. EditOfNothing'
  BY <1>1, <1>4, <1>5, <1>13 DEF EditOfNothing, Stepped, c
<1>15. outside = 0 => OthersUnderWay'
  BY <1>1, <1>13 DEF OthersUnderWay, Stepped, GoesOn
<1>16. RequestsTrue'
  BY <1>1, <1>13, <1>14, <1>15 DEF RequestsTrue, Stepped
<1>17. odd \subseteq odd' /\ odd' \subseteq {"paged", "refused"}
  BY <1>3 DEF FC_IInv, FC_Typed
<1>18. \A change \in req'.before : Says(change)
  BY <1>4, <1>13 DEF FC_IInv, Core, StatesSaid, Stepped
<1>19. Core'
  BY <1>1, <1>4, <1>13, <1>16, <1>17, <1>18, GoesOnKeeps DEF Stepped
<1>20. FC_Typed'
  BY <1>1, <1>13, <1>17 DEF FC_IInv, FC_Typed, Stepped, GoesOn
<1>21. TrailComplete'
  BY <1>1, <1>13 DEF TrailComplete, Succeeded, Stepped, GoesOn
<1> QED
  BY <1>19, <1>20, <1>21 DEF FC_IInv

(* A request to Jira leaves a context a context.                            *)
LEMMA AppliedTyped ==
  ASSUME NEW s \in States, NEW w \in FC_Writes
  PROVE  Applied(s, w) \in States
<1>1. CASE w.field = "name"
  BY <1>1 DEF Applied, States, FC_Writes
<1>2. CASE w.field = "default"
  BY <1>2 DEF Applied, States, FC_Writes
<1>3. CASE w.field = "projects"
  BY <1>3 DEF Applied, States, FC_Writes
<1>4. CASE w.field = "types"
  BY <1>4 DEF Applied, States, FC_Writes
<1> QED
  BY <1>1, <1>2, <1>3, <1>4 DEF FC_Writes

(* A request to Jira that lands changes its context and no other.           *)
LEMMA WriteLands ==
  ASSUME FC_IInv, req.op = "edit", req.todo # <<>>, req.change.ctx \in DOMAIN ctx,
         ctx' = [ctx EXCEPT ![req.change.ctx] = Applied(ctx[req.change.ctx], Head(req.todo))]
  PROVE  /\ ctx' \in FC_Contexts /\ DOMAIN ctx' = DOMAIN ctx
         /\ Head(req.todo) \in FC_Writes /\ Tail(req.todo) \in Seq(FC_Writes)
         /\ ctx[req.change.ctx] \in States
         /\ ctx'[req.change.ctx] = Applied(ctx[req.change.ctx], Head(req.todo))
         /\ \A d \in DOMAIN ctx \ {req.change.ctx} : ctx'[d] = ctx[d]
<1> DEFINE c == req.change.ctx
<1>1. req \in FC_Requests /\ req.todo \in Seq(FC_Writes)
  BY EditSays DEF FC_Requests
<1>2. Head(req.todo) \in FC_Writes /\ Tail(req.todo) \in Seq(FC_Writes)
  BY <1>1
<1>3. ctx \in FC_Contexts /\ ctx[c] \in States
  BY DEF FC_IInv, FC_Typed, FC_Contexts
<1> DEFINE new == Applied(ctx[c], Head(req.todo))
<1>4. new \in States
  BY <1>2, <1>3, AppliedTyped
<1> HIDE DEF new
<1>5. ctx' = [ctx EXCEPT ![c] = new]
  BY DEF new
<1>6. ctx' \in FC_Contexts /\ DOMAIN ctx' = DOMAIN ctx
  BY <1>3, <1>4, <1>5 DEF FC_Contexts
<1>7. ctx'[c] = new /\ \A d \in DOMAIN ctx \ {c} : ctx'[d] = ctx[d]
  BY <1>3, <1>5 DEF FC_Contexts
<1> QED
  BY <1>2, <1>3, <1>6, <1>7 DEF new

(* The request goes on when its answer arrives.                             *)
LEMMA WrittenKeeps ==
  ASSUME FC_IInv, req.op = "edit", req.todo # <<>>, req.change.ctx \in DOMAIN ctx,
         ctx' = [ctx EXCEPT ![req.change.ctx] = Applied(ctx[req.change.ctx], Head(req.todo))],
         req' = [req EXCEPT !.todo = Tail(@)],
         UNCHANGED <<changes, lastId, journal, outside, odd, told, trail>>
  PROVE  FC_IInv'
<1> DEFINE c == req.change.ctx
<1>1. /\ req \in FC_Requests /\ req # NoRequest /\ c \in Nat /\ Wanted \in States
  BY EditSays
<1>2. /\ ctx' \in FC_Contexts /\ DOMAIN ctx' = DOMAIN ctx
      /\ Head(req.todo) \in FC_Writes /\ Tail(req.todo) \in Seq(FC_Writes)
      /\ ctx[c] \in States /\ ctx'[c] = Applied(ctx[c], Head(req.todo))
      /\ \A d \in DOMAIN ctx \ {c} : ctx'[d] = ctx[d]
  BY WriteLands
<1>3. /\ GoesOn /\ req'.todo = Tail(req.todo) /\ req'.phase = req.phase
      /\ req'.change = req.change /\ req'.before = req.before
  BY <1>1, <1>2 DEF FC_Requests, NoRequest, GoesOn
<1>4. Wanted' = Wanted
  BY <1>3, WantedStays
<1>5. outside = 0 => EditUnderWay'
  <2> SUFFICES ASSUME outside = 0, req.phase # "capture", req.before # {}
               PROVE  EditUnderWay'
    BY <1>3 DEF EditUnderWay, GoesOn
  <2>1. EditUnderWay
    BY DEF FC_IInv, Core, RequestsTrue
  <2>2. /\ c \in DOMAIN ctx /\ DOMAIN ctx = DOMAIN req.was
        /\ \A d \in DOMAIN ctx \ {c} : ctx[d] = req.was[d]
        /\ \A change \in req.before :
             change.op = "edit" /\ change.ctx = c /\ change.state = {req.was[c]}
        /\ req.phase \notin {"refresh", "done"}
    BY <1>1, <2>1 DEF EditUnderWay
  <2>3. CASE req.phase = "name"
    <3>1. req.todo = <<Put("name", Wanted.name)>>
      BY <1>1, <2>1, <2>3 DEF EditUnderWay
    <3>2. Head(req.todo) = Put("name", Wanted.name) /\ Tail(req.todo) = <<>>
      BY <3>1
    <3>3. ctx'[c] = [ctx[c] EXCEPT !.name = Wanted.name]
      BY <1>1, <1>2, <3>2, NameApplied DEF States
    <3>4. ctx'[c].name = Wanted.name
      BY <1>2, <3>3 DEF States
    <3> HIDE DEF c
    <3>5. c = req.change.ctx
      BY DEF c
    <3> QED
      BY <1>2, <1>3, <1>4, <2>2, <2>3, <3>2, <3>4, <3>5 DEF EditUnderWay, Settled, Behind, GoesOn
  <2>4. CASE req.phase = "projects"
    <3>1. ~req.change.global /\ Leaves("projects", Wanted.projects)
      BY <1>1, <2>1, <2>4 DEF EditUnderWay
    <3>2. PICK more \in SUBSET (Projects \union IssueTypes),
               less \in SUBSET (Projects \union IssueTypes) :
            /\ req.todo = Add("projects", more) \o TakeOut("projects", less)
            /\ (ctx[c].projects \union more) \ less = Wanted.projects
      BY <3>1 DEF Leaves
    <3>3. ctx[c].name = Wanted.name
      BY <1>1, <2>1, <2>4 DEF EditUnderWay, Settled, Behind
    <3>4. /\ ctx'[c].name = ctx[c].name
          /\ \E m, l \in SUBSET (Projects \union IssueTypes) :
               /\ Tail(req.todo) = Add("projects", m) \o TakeOut("projects", l)
               /\ (ctx'[c].projects \union m) \ l = Wanted.projects
               /\ Tail(req.todo) = <<>> => m = {} /\ l = {}
      <4>1. CASE more # {}
        <5>1. /\ Head(req.todo) = [field |-> "projects", value |-> more, how |-> "add"]
              /\ Tail(req.todo) = Add("projects", {}) \o TakeOut("projects", less)
          BY <3>2, <4>1, AddingFirst
        <5>2. ctx'[c] = [ctx[c] EXCEPT !.projects = @ \union more]
          <6>1. ctx'[c] = Applied(ctx[c], [field |-> "projects", value |-> more, how |-> "add"])
            BY <1>2, <5>1
          <6> QED
            BY ONLY <1>2, <6>1, ProjectsApplied
        <5>3. ctx'[c].projects = ctx[c].projects \union more /\ ctx'[c].name = ctx[c].name
          BY <1>2, <5>2 DEF States
        <5>4. Tail(req.todo) = <<>> => less = {}
          BY <5>1, SomethingToSend
        <5> QED
          BY <3>2, <5>1, <5>3, <5>4
      <4>2. CASE more = {}
        <5>1. less # {}
          BY <3>2, <4>2, NothingToSend
        <5>2. /\ Head(req.todo) = [field |-> "projects", value |-> less, how |-> "remove"]
              /\ Tail(req.todo) = Add("projects", {}) \o TakeOut("projects", {})
          BY <3>2, <4>2, <5>1, ThenTakingOut
        <5>3. ctx'[c] = [ctx[c] EXCEPT !.projects = @ \ less]
          <6>1. ctx'[c]
                  = Applied(ctx[c], [field |-> "projects", value |-> less, how |-> "remove"])
            BY <1>2, <5>2
          <6> QED
            BY ONLY <1>2, <6>1, ProjectsApplied
        <5>4. ctx'[c].projects = ctx[c].projects \ less /\ ctx'[c].name = ctx[c].name
          BY <1>2, <5>3 DEF States
        <5> QED
          BY <3>2, <4>2, <5>2, <5>4
      <4> QED
        BY <4>1, <4>2
    <3> HIDE DEF c
    <3>5. c = req.change.ctx
      BY DEF c
    <3>6. Leaves("projects", Wanted.projects)'
      <4>1. PICK m \in SUBSET (Projects \union IssueTypes),
                 l \in SUBSET (Projects \union IssueTypes) :
              /\ Tail(req.todo) = Add("projects", m) \o TakeOut("projects", l)
              /\ (ctx'[c].projects \union m) \ l = Wanted.projects
        BY <3>4
      <4>2. /\ req'.todo = Add("projects", m) \o TakeOut("projects", l)
            /\ (ctx'[req'.change.ctx]["projects"] \union m) \ l = (Wanted.projects)'
        BY <1>3, <1>4, <3>5, <4>1
      <4> QED
        BY <4>2 DEF Leaves
    <3>7. Tail(req.todo) = <<>> => ctx'[c].projects = Wanted.projects
      BY <3>4
    <3> QED
      BY <1>2, <1>3, <1>4, <2>2, <2>4, <3>1, <3>3, <3>4, <3>5, <3>6, <3>7
         DEF EditUnderWay, Settled, Behind, GoesOn
  <2>5. CASE req.phase = "types"
    <3>1. PICK more \in SUBSET IssueTypes, less \in SUBSET IssueTypes :
            /\ req.todo = Add("types", more) \o TakeOut("types", less)
            /\ "paged" \in odd \/ (ctx[c].types \union more) \ less = Wanted.types
      BY <1>1, <2>1, <2>5 DEF EditUnderWay
    <3>2. /\ ctx[c].name = Wanted.name
          /\ req.change.global \/ ctx[c].projects = Wanted.projects
      BY <1>1, <2>1, <2>5 DEF EditUnderWay, Settled, Behind
    <3>3. /\ ctx'[c].name = ctx[c].name /\ ctx'[c].projects = ctx[c].projects
          /\ \E m, l \in SUBSET IssueTypes :
               /\ Tail(req.todo) = Add("types", m) \o TakeOut("types", l)
               /\ "paged" \in odd \/ (ctx'[c].types \union m) \ l = Wanted.types
               /\ Tail(req.todo) = <<>> => m = {} /\ l = {}
      <4>1. CASE more # {}
        <5>1. /\ Head(req.todo) = [field |-> "types", value |-> more, how |-> "add"]
              /\ Tail(req.todo) = Add("types", {}) \o TakeOut("types", less)
          BY <3>1, <4>1, AddingFirst
        <5>2. ctx'[c] = [ctx[c] EXCEPT !.types = @ \union more]
          <6>1. ctx'[c] = Applied(ctx[c], [field |-> "types", value |-> more, how |-> "add"])
            BY <1>2, <5>1
          <6> QED
            BY ONLY <1>2, <6>1, TypesApplied
        <5>3. /\ ctx'[c].types = ctx[c].types \union more /\ ctx'[c].name = ctx[c].name
              /\ ctx'[c].projects = ctx[c].projects
          BY <1>2, <5>2 DEF States
        <5>4. Tail(req.todo) = <<>> => less = {}
          BY <5>1, SomethingToSend
        <5> QED
          BY <3>1, <5>1, <5>3, <5>4
      <4>2. CASE more = {}
        <5>1. less # {}
          BY <3>1, <4>2, NothingToSend
        <5>2. /\ Head(req.todo) = [field |-> "types", value |-> less, how |-> "remove"]
              /\ Tail(req.todo) = Add("types", {}) \o TakeOut("types", {})
          BY <3>1, <4>2, <5>1, ThenTakingOut
        <5>3. ctx'[c] = [ctx[c] EXCEPT !.types = @ \ less]
          <6>1. ctx'[c] = Applied(ctx[c], [field |-> "types", value |-> less, how |-> "remove"])
            BY <1>2, <5>2
          <6> QED
            BY ONLY <1>2, <6>1, TypesApplied
        <5>4. /\ ctx'[c].types = ctx[c].types \ less /\ ctx'[c].name = ctx[c].name
              /\ ctx'[c].projects = ctx[c].projects
          BY <1>2, <5>3 DEF States
        <5> QED
          BY <3>1, <4>2, <5>2, <5>4
      <4> QED
        BY <4>1, <4>2
    <3> HIDE DEF c
    <3>4. c = req.change.ctx
      BY DEF c
    <3>5. Tail(req.todo) = <<>> => "paged" \in odd \/ ctx'[c].types = Wanted.types
      BY <3>3
    <3>6. \E m, l \in SUBSET IssueTypes :
            /\ req'.todo = Add("types", m) \o TakeOut("types", l)
            /\ "paged" \in odd' \/ (ctx'[c].types \union m) \ l = Wanted.types
      BY <1>3, <3>3
    <3>7. /\ ctx'[c].name = Wanted.name
          /\ req.change.global \/ ctx'[c].projects = Wanted.projects
      BY <3>2, <3>3
    <3>8. /\ c \in DOMAIN ctx' /\ DOMAIN ctx' = DOMAIN req.was
          /\ \A d \in DOMAIN ctx' \ {c} : ctx'[d] = req.was[d]
      BY <1>2, <2>2
    <3>9. req'.phase = "types" /\ odd' = odd
      BY <1>3, <2>5
    <3>10. /\ req'.change.ctx = c /\ req'.change.global = req.change.global
           /\ req'.before = req.before /\ req'.was = req.was
      BY <1>3, <3>4 DEF GoesOn
    <3>11. /\ req'.phase \notin {"refresh", "done", "name", "default", "projects"}
           /\ Settled("name", ctx[req.change.ctx].name = Wanted.name)'
           /\ Settled("projects", \/ req.change.global
                                  \/ ctx[req.change.ctx].projects = Wanted.projects)'
           /\ Settled("types", "paged" \in odd \/ ctx[req.change.ctx].types = Wanted.types)'
           /\ Settled("default", ctx[req.change.ctx].default = Wanted.default)'
      <4> USE DEF Settled, Behind
      <4>1. req'.phase \notin {"refresh", "done", "name", "default", "projects"}
        BY <3>9
      <4>2. Settled("name", ctx[req.change.ctx].name = Wanted.name)'
        BY <1>4, <3>4, <3>7, <3>10
      <4>3. Settled("projects", \/ req.change.global
                                \/ ctx[req.change.ctx].projects = Wanted.projects)'
        BY <1>4, <3>4, <3>7, <3>10
      <4>4. Settled("types", "paged" \in odd \/ ctx[req.change.ctx].types = Wanted.types)'
        BY <1>3, <1>4, <3>4, <3>5, <3>9, <3>10
      <4>5. Settled("default", ctx[req.change.ctx].default = Wanted.default)'
        BY <3>9
      <4> QED
        BY <4>1, <4>2, <4>3, <4>4, <4>5
    <3>12. \A change \in req'.before :
             change.op = "edit" /\ change.ctx = c /\ change.state = {req'.was[c]}
      BY <2>2, <3>10
    <3> QED
      BY ONLY <1>4, <3>6, <3>8, <3>9, <3>10, <3>11, <3>12 DEF EditUnderWay
  <2>6. CASE req.phase = "default"
    <3>1. req.todo = <<Put("default", Wanted.default)>>
      BY <1>1, <2>1, <2>6 DEF EditUnderWay
    <3>2. Head(req.todo) = Put("default", Wanted.default) /\ Tail(req.todo) = <<>>
      BY <3>1
    <3>3. ctx'[c] = [ctx[c] EXCEPT !.default = Wanted.default]
      BY <1>1, <1>2, <3>2, DefaultApplied DEF States
    <3>4. /\ ctx'[c].default = Wanted.default /\ ctx'[c].name = ctx[c].name
          /\ ctx'[c].projects = ctx[c].projects /\ ctx'[c].types = ctx[c].types
      BY <1>2, <3>3 DEF States
    <3>5. /\ ctx[c].name = Wanted.name
          /\ req.change.global \/ ctx[c].projects = Wanted.projects
          /\ "paged" \in odd \/ ctx[c].types = Wanted.types
      BY <1>1, <2>1, <2>6 DEF EditUnderWay, Settled, Behind
    <3> HIDE DEF c
    <3>6. c = req.change.ctx
      BY DEF c
    <3> QED
      BY <1>2, <1>3, <1>4, <2>2, <2>6, <3>2, <3>4, <3>5, <3>6
         DEF EditUnderWay, Settled, Behind, GoesOn
  <2>7. CASE req.phase = "write"
    <3> HIDE DEF c
    <3>1. c = req.change.ctx
      BY DEF c
    <3> QED
      BY <1>2, <1>3, <1>4, <2>2, <2>7, <3>1 DEF EditUnderWay, Settled, Behind, GoesOn
  <2>8. req.phase \in {"write", "name", "projects", "types", "default"}
    BY <1>1, <2>2 DEF FC_Requests
  <2> QED
    BY <2>3, <2>4, <2>5, <2>6, <2>7, <2>8
<1>6. EditOfNothing'
  BY <1>1, <1>2, <1>3 DEF FC_IInv, Core, RequestsTrue, EditOfNothing, GoesOn
<1>7. outside = 0 => OthersUnderWay'
  BY <1>1, <1>3 DEF FC_IInv, Core, RequestsTrue, OthersUnderWay, GoesOn
<1>8. Core'
  <2>1. RequestsTrue'
    BY <1>5, <1>6, <1>7 DEF RequestsTrue
  <2>2. \A change \in req'.before : Says(change)
    BY <1>1, <1>3 DEF FC_IInv, Core, StatesSaid
  <2> QED
    BY <1>1, <1>3, <2>1, <2>2, GoesOnKeeps
<1>9. FC_Typed'
  BY <1>2, <1>3 DEF FC_IInv, FC_Typed, GoesOn
<1>10. TrailComplete'
  <2> SUFFICES ASSUME outside = 0
               PROVE  req.phase # "done"
    BY <1>3 DEF FC_IInv, FC_Typed, TrailComplete, Succeeded, GoesOn
  <2> SUFFICES ASSUME req.phase = "done"
               PROVE  FALSE
    OBVIOUS
  <2>1. req.before # {}
    BY <1>1 DEF FC_IInv, Core, RequestsTrue, EditOfNothing
  <2> QED
    BY <1>1, <2>1 DEF FC_IInv, Core, RequestsTrue, EditUnderWay
<1> QED
  BY <1>8, <1>9, <1>10 DEF FC_IInv

(* Done, refused, or done with its answer lost.                             *)
LEMMA WriteKeeps ==
  ASSUME FC_IInv, Write
  PROVE  FC_IInv'
<1> DEFINE c == req.change.ctx
           lands == c \in DOMAIN ctx
           after == [ctx EXCEPT ![c] = Applied(ctx[c], Head(req.todo))]
<1>1. /\ req.op = "edit" /\ req.todo # <<>> /\ UNCHANGED <<changes, lastId, outside, odd, trail>>
      /\ \/ lands /\ ctx' = after /\ req' = [req EXCEPT !.todo = Tail(@)]
            /\ UNCHANGED <<journal, told>>
         \/ Failed /\ UNCHANGED ctx
         \/ lands /\ Failed /\ ctx' = after
  BY DEF Write
<1>2. CASE lands /\ ctx' = after /\ req' = [req EXCEPT !.todo = Tail(@)]
           /\ UNCHANGED <<journal, told>>
  BY <1>1, <1>2, WrittenKeeps
<1>3. req # NoRequest /\ lastId' \in Nat
  BY <1>1, EditSays DEF FC_IInv, FC_Typed
<1>4. CASE Failed /\ UNCHANGED ctx
  BY <1>1, <1>3, <1>4, FailedKeeps DEF FC_IInv, FC_Typed
<1>5. CASE lands /\ Failed /\ ctx' = after
  <2>1. ctx' \in FC_Contexts /\ DOMAIN ctx' = DOMAIN ctx
    BY <1>1, <1>5, WriteLands
  <2>2. DOMAIN ctx' \subseteq 1..lastId'
    BY <1>1, <2>1 DEF FC_IInv, FC_Typed
  <2> QED
    BY <1>1, <1>3, <1>5, <2>1, <2>2, FailedKeeps
<1> QED
  BY <1>1, <1>2, <1>4, <1>5

(* Recorded, the trail leads to what there is.                              *)
LEMMA RecordedIsComplete ==
  ASSUME FC_IInv, req # NoRequest, req.phase = "refresh",
         NEW inverse \in SUBSET FC_Changes, \A change \in inverse : Says(change),
         (outside = 0 /\ odd = {}) => \A change \in inverse : EntryTrue(change, req.was, ctx),
         Recorded(inverse), UNCHANGED <<changes, ctx, lastId, outside, odd, told>>
  PROVE  FC_IInv'
<1>1. Core' /\ req' \in FC_Requests /\ journal' \in Seq(FC_Entries)
  BY RecordedKeeps DEF FC_IInv
<1>2. trail' = ctx
  BY DEF Recorded
<1>3. FC_Typed'
  BY <1>1, <1>2 DEF FC_IInv, FC_Typed
<1>4. TrailComplete'
  BY <1>2 DEF TrailComplete
<1> QED
  BY <1>1, <1>3, <1>4 DEF FC_IInv

(* An edit is recorded with what was captured before it.                    *)
LEMMA EditEndsKeeps ==
  ASSUME FC_IInv, EditEnds
  PROVE  FC_IInv'
<1>1. /\ req.op = "edit" /\ req.phase = "refresh"
      /\ UNCHANGED <<changes, ctx, lastId, outside, odd, told>>
  BY DEF EditEnds
<1>2. req \in FC_Requests /\ req # NoRequest
  BY <1>1, EditSays
<1>3. req.before # {}
  BY <1>1, <1>2 DEF FC_IInv, Core, RequestsTrue, EditOfNothing
<1>4. Recorded(req.before)
  BY <1>3 DEF EditEnds
<1>5. req.before \in SUBSET FC_Changes /\ \A change \in req.before : Says(change)
  BY <1>2 DEF FC_IInv, Core, StatesSaid, FC_Requests
<1>6. (outside = 0 /\ odd = {}) => \A change \in req.before : EntryTrue(change, req.was, ctx)
  BY <1>1, <1>2, <1>3 DEF FC_IInv, Core, RequestsTrue, EditUnderWay, EntryTrue
<1> QED
  BY <1>1, <1>2, <1>4, <1>5, <1>6, RecordedIsComplete

(* What was created says a state.                                           *)
LEMMA OtherSays ==
  ASSUME FC_IInv, req.op \in {"create", "delete"}
  PROVE  /\ req \in FC_Requests /\ req # NoRequest /\ req.change \in FC_Changes
         /\ req.change.ctx \in Nat /\ req.op = req.change.op /\ req.undoOf \in Nat
         /\ req.op = "create" \/ req.undoOf # 0 =>
              Wanted \in States /\ req.change.state = {Wanted}
<1>1. req \in FC_Requests /\ req # NoRequest
  BY AtWork DEF FC_IInv
<1>2. req.change \in FC_Changes /\ req.change.ctx \in Nat /\ req.undoOf \in Nat
  BY <1>1 DEF FC_Requests, FC_Changes
<1>3. req.op = req.change.op
  BY <1>1 DEF FC_IInv, Core, StatesSaid
<1>4. ASSUME req.op = "create" \/ req.undoOf # 0
      PROVE  Wanted \in States /\ req.change.state = {Wanted}
  <2>1. PICK s \in States : req.change.state = {s}
    BY <1>1, <1>4 DEF FC_IInv, Core, StatesSaid, Says
  <2> QED
    BY <2>1, WantedIs
<1> QED
  BY <1>1, <1>2, <1>3, <1>4

(* Jira makes a context under an id it never gave before.                   *)
LEMMA CreatesKeeps ==
  ASSUME FC_IInv, Creates
  PROVE  FC_IInv'
<1>0. PICK new : new = lastId + 1
  OBVIOUS
<1> DEFINE after(state) == [c \in DOMAIN ctx \union {new} |-> IF c = new THEN state ELSE ctx[c]]
<1>1. /\ req.op = "create" /\ req.phase = "write" /\ UNCHANGED <<changes, outside, odd, trail>>
      /\ \/ Failed /\ UNCHANGED <<ctx, lastId>>
         \/ \E state \in req.change.state :
              /\ ctx' = after(state) /\ lastId' = new
              /\ \/ Failed
                 \/ /\ req' = [req EXCEPT !.phase = "refresh", !.change.ctx = new]
                    /\ UNCHANGED <<journal, told>>
  BY <1>0 DEF Creates
<1>2. /\ req \in FC_Requests /\ req # NoRequest /\ req.change \in FC_Changes
      /\ Wanted \in States /\ req.change.state = {Wanted} /\ req.op = req.change.op
  BY <1>1, OtherSays
<1>3. /\ ctx \in FC_Contexts /\ DOMAIN ctx \subseteq 1..lastId /\ lastId \in Nat /\ new \in Nat
      /\ DOMAIN ctx \in SUBSET Nat /\ ctx \in [DOMAIN ctx -> States]
  BY <1>0 DEF FC_IInv, FC_Typed, FC_Contexts
<1>4. new \notin DOMAIN ctx
  BY <1>0, <1>3
<1>5. CASE Failed /\ UNCHANGED <<ctx, lastId>>
  BY <1>1, <1>2, <1>3, <1>5, FailedKeeps
<1>6. CASE ctx' = after(Wanted) /\ lastId' = new
  <2>1. /\ ctx' \in FC_Contexts /\ DOMAIN ctx' = DOMAIN ctx \union {new}
        /\ ctx'[new] = Wanted /\ \A d \in DOMAIN ctx : ctx'[d] = ctx[d]
    <3>1. ctx' \in [DOMAIN ctx \union {new} -> States]
      BY <1>2, <1>3, <1>6
    <3>2. DOMAIN ctx \union {new} \in SUBSET Nat
      BY <1>3
    <3>3. ctx' \in FC_Contexts
      BY <3>1, <3>2 DEF FC_Contexts
    <3> QED
      BY <1>4, <1>6, <3>3
  <2>2. DOMAIN ctx' \subseteq 1..lastId' /\ lastId' \in Nat
    BY <1>0, <1>3, <1>6, <2>1
  <2>3. CASE Failed
    BY <1>1, <1>2, <2>1, <2>2, <2>3, FailedKeeps
  <2>4. CASE /\ req' = [req EXCEPT !.phase = "refresh", !.change.ctx = new]
             /\ UNCHANGED <<journal, told>>
    <3> DEFINE made == [req.change EXCEPT !.ctx = new]
    <3>1. /\ made \in FC_Changes /\ made.op = req.change.op /\ made.state = req.change.state
          /\ made.global = req.change.global /\ made.ctx = new
      BY <1>2, <1>3 DEF FC_Changes
    <3>2. req' = [req EXCEPT !.phase = "refresh", !.change = made]
      BY <1>2, <2>4 DEF FC_Requests
    <3> HIDE DEF made, after
    <3>3. /\ GoesOn /\ req'.change.ctx = new /\ req'.phase = "refresh" /\ req'.before = req.before
      BY <1>1, <1>2, <3>1, <3>2 DEF FC_Requests, NoRequest, GoesOn
    <3>4. Wanted' = Wanted
      BY <3>3, WantedStays
    <3>5. outside = 0 => OthersUnderWay'
      <4> SUFFICES ASSUME outside = 0
                   PROVE  OthersUnderWay'
        OBVIOUS
      <4>1. ctx = req.was
        BY <1>1, <1>2 DEF FC_IInv, Core, RequestsTrue, OthersUnderWay
      <4>2. ctx' = With(req.change.ctx, Wanted)'
        BY <1>6, <3>3, <3>4, <4>1 DEF after, With, GoesOn
      <4> QED
        BY <1>1, <1>4, <3>3, <4>1, <4>2 DEF OthersUnderWay, GoesOn
    <3>6. RequestsTrue'
      BY <1>1, <3>3, <3>5 DEF RequestsTrue, EditUnderWay, EditOfNothing, GoesOn
    <3>7. \A change \in req'.before : Says(change)
      BY <1>2, <3>3 DEF FC_IInv, Core, StatesSaid
    <3>8. Core'
      BY <1>1, <1>2, <2>4, <3>3, <3>6, <3>7, GoesOnKeeps
    <3>9. FC_Typed'
      BY <1>1, <2>1, <2>2, <2>4, <3>3 DEF FC_IInv, FC_Typed, GoesOn
    <3>10. TrailComplete'
      BY <3>3 DEF TrailComplete, Succeeded, GoesOn
    <3> QED
      BY <3>8, <3>9, <3>10 DEF FC_IInv
  <2> QED
    BY <1>1, <1>2, <1>6, <2>3, <2>4
<1> QED
  BY <1>1, <1>2, <1>5, <1>6

(* A creation is recorded with the deletion that undoes it.                 *)
LEMMA CreateEndsKeeps ==
  ASSUME FC_IInv, CreateEnds
  PROVE  FC_IInv'
<1> DEFINE d == DeleteOf(req.change.ctx, req.change.state)
<1>1. /\ req.op = "create" /\ req.phase = "refresh" /\ Recorded({d})
      /\ UNCHANGED <<changes, ctx, lastId, outside, odd, told>>
  BY DEF CreateEnds
<1>2. /\ req \in FC_Requests /\ req # NoRequest /\ req.change \in FC_Changes
      /\ Wanted \in States /\ req.change.state = {Wanted} /\ req.change.ctx \in Nat
  BY <1>1, OtherSays
<1>3. d \in FC_Changes /\ Says(d) /\ d.op = "delete" /\ d.ctx = req.change.ctx
  BY <1>2 DEF DeleteOf, FC_Changes, Says
<1> HIDE DEF d
<1>4. (outside = 0 /\ odd = {}) => EntryTrue(d, req.was, ctx)
  <2> SUFFICES ASSUME outside = 0
               PROVE  EntryTrue(d, req.was, ctx)
    OBVIOUS
  <2>1. req.change.ctx \notin DOMAIN req.was /\ ctx = With(req.change.ctx, Wanted)
    BY <1>1, <1>2 DEF FC_IInv, Core, RequestsTrue, OthersUnderWay
  <2>2. req.was \in FC_Contexts
    BY <1>2 DEF FC_Requests
  <2>3. req.was = Restrict(ctx, DOMAIN ctx \ {req.change.ctx})
    BY <2>1, <2>2 DEF With, Restrict, FC_Contexts
  <2> QED
    BY <1>3, <2>1, <2>3 DEF EntryTrue
<1> QED
  BY <1>1, <1>2, <1>3, <1>4, RecordedIsComplete

(* A deletion is done, refused unseen, or lost.                             *)
LEMMA DeletesKeeps ==
  ASSUME FC_IInv, Deletes
  PROVE  FC_IInv'
<1> DEFINE c == req.change.ctx
           after == Restrict(ctx, DOMAIN ctx \ {c})
           onwards == req' = [req EXCEPT !.phase = "refresh"] /\ UNCHANGED <<journal, told>>
<1>1. /\ req.op = "delete" /\ req.phase = "write"
      /\ UNCHANGED <<changes, lastId, outside, trail>>
      /\ \/ c \in DOMAIN ctx /\ ctx' = after /\ onwards /\ UNCHANGED odd
         \/ onwards /\ odd' = odd \union {"refused"} /\ UNCHANGED ctx
         \/ Failed /\ UNCHANGED <<ctx, odd>>
         \/ Failed /\ ctx' = after /\ UNCHANGED odd
  BY DEF Deletes
<1>2. /\ req \in FC_Requests /\ req # NoRequest
  BY <1>1, OtherSays
<1>3. after \in FC_Contexts /\ DOMAIN after \subseteq DOMAIN ctx
  <2> DEFINE rest == DOMAIN ctx \ {c}
  <2>1. ctx \in [DOMAIN ctx -> States] /\ DOMAIN ctx \in SUBSET Nat
    BY DEF FC_IInv, FC_Typed, FC_Contexts
  <2>2. after \in [rest -> States] /\ rest \in SUBSET Nat
    BY <2>1 DEF Restrict
  <2>3. after \in FC_Contexts
    BY <2>2 DEF FC_Contexts
  <2> QED
    BY <2>2, <2>3
<1> HIDE DEF after
<1>4. /\ ctx' \in FC_Contexts /\ DOMAIN ctx' \subseteq 1..lastId' /\ lastId' \in Nat
      /\ odd \subseteq odd' /\ odd' \subseteq {"paged", "refused"}
  BY <1>1, <1>3 DEF FC_IInv, FC_Typed
<1>5. CASE Failed /\ UNCHANGED odd
  BY <1>1, <1>2, <1>4, <1>5, FailedKeeps
<1>6. CASE onwards /\ (\/ c \in DOMAIN ctx /\ ctx' = after
                       \/ "refused" \in odd')
  <2>1. /\ GoesOn /\ req'.change = req.change
        /\ req'.phase = "refresh" /\ req'.before = req.before
    BY <1>2, <1>6 DEF FC_Requests, NoRequest, GoesOn
  <2>2. outside = 0 => OthersUnderWay'
    <3> SUFFICES ASSUME outside = 0
                 PROVE  OthersUnderWay'
      OBVIOUS
    <3>1. ctx = req.was
      BY <1>1, <1>2 DEF FC_IInv, Core, RequestsTrue, OthersUnderWay
    <3> QED
      BY <1>1, <1>6, <2>1, <3>1 DEF OthersUnderWay, GoesOn, after
  <2>3. RequestsTrue'
    BY <1>1, <2>1, <2>2 DEF RequestsTrue, EditUnderWay, EditOfNothing, GoesOn
  <2>4. \A change \in req'.before : Says(change)
    BY <1>2, <2>1 DEF FC_IInv, Core, StatesSaid
  <2>5. Core'
    BY <1>1, <1>2, <1>4, <1>6, <2>1, <2>3, <2>4, GoesOnKeeps
  <2>6. FC_Typed'
    BY <1>1, <1>4, <1>6, <2>1 DEF FC_IInv, FC_Typed, GoesOn
  <2>7. TrailComplete'
    BY <2>1 DEF TrailComplete, Succeeded, GoesOn
  <2> QED
    BY <2>5, <2>6, <2>7 DEF FC_IInv
<1> QED
  BY <1>1, <1>5, <1>6

(* Undone, a creation can be made again.                                    *)
LEMMA DeleteEndsKeeps ==
  ASSUME FC_IInv, DeleteEnds
  PROVE  FC_IInv'
<1> DEFINE inverse == IF req.undoOf = 0 THEN {} ELSE {CreateOf(req.change.state)}
<1>1. /\ req.op = "delete" /\ req.phase = "refresh" /\ Recorded(inverse)
      /\ UNCHANGED <<changes, ctx, lastId, outside, odd, told>>
  BY DEF DeleteEnds
<1>2. /\ req \in FC_Requests /\ req # NoRequest
      /\ req.undoOf # 0 => Wanted \in States /\ req.change.state = {Wanted}
  BY <1>1, OtherSays
<1>3. /\ inverse \in SUBSET FC_Changes
      /\ \A change \in inverse : change.op = "create" /\ Says(change)
  BY <1>2 DEF CreateOf, FC_Changes, Says
<1>4. (outside = 0 /\ odd = {}) => \A change \in inverse : EntryTrue(change, req.was, ctx)
  <2> HIDE DEF inverse
  <2> SUFFICES ASSUME outside = 0, odd = {}, NEW change \in inverse
               PROVE  EntryTrue(change, req.was, ctx)
    OBVIOUS
  <2>1. /\ ctx = Restrict(req.was, DOMAIN req.was \ {req.change.ctx})
        /\ req.change.ctx \in DOMAIN req.was
    BY <1>1, <1>2 DEF FC_IInv, Core, RequestsTrue, OthersUnderWay
  <2> QED
    BY <1>3, <2>1 DEF EntryTrue
<1> HIDE DEF inverse
<1> QED
  BY <1>1, <1>2, <1>3, <1>4, RecordedIsComplete

(* At first there is one context and nothing to undo.                       *)
LEMMA FC_InitIInv ==
  ASSUME FC_Init
  PROVE  FC_IInv
<1>1. PICK first \in States : ctx = [c \in {1} |-> first]
  BY DEF FC_Init
<1>2. /\ lastId = 1 /\ journal = <<>> /\ req = NoRequest /\ changes = 0 /\ outside = 0
      /\ odd = {} /\ told = FALSE /\ trail = ctx
  BY DEF FC_Init
<1>3. ctx \in FC_Contexts /\ DOMAIN ctx = {1}
  <2>1. ctx \in [{1} -> States] /\ {1} \in SUBSET Nat
    BY <1>1
  <2> QED
    BY <2>1 DEF FC_Contexts
<1>4. journal \in Seq(FC_Entries) /\ DOMAIN journal = {}
  BY <1>2
<1>5. FC_Typed
  <2>1. {1} \subseteq 1..1
    OBVIOUS
  <2> HIDE DEF FC_Contexts, FC_Entries, FC_Requests, NoRequest
  <2>2. req \in FC_Requests \union {NoRequest}
    BY <1>2
  <2> QED
    BY <1>2, <1>3, <1>4, <2>1, <2>2 DEF FC_Typed
<1>6. Core
  BY <1>2, <1>4 DEF Core, StatesSaid, UndoesItsEntry, RequestsTrue, EditOfNothing, EditUnderWay,
                    OthersUnderWay, JournalTrue
<1>7. TrailComplete
  BY <1>2 DEF TrailComplete
<1> QED
  BY <1>5, <1>6, <1>7 DEF FC_IInv

(* Every step of the field view keeps the invariant.                        *)
LEMMA FC_NextKeeps ==
  ASSUME FC_IInv, [FC_Next]_FC_vars
  PROVE  FC_IInv'
<1>1. CASE UNCHANGED FC_vars
  <2>1. /\ ctx' = ctx /\ lastId' = lastId /\ journal' = journal /\ req' = req
        /\ changes' = changes /\ outside' = outside /\ odd' = odd /\ told' = told
        /\ trail' = trail
    BY <1>1 DEF FC_vars
  <2>2. Wanted' = Wanted
    BY <2>1 DEF Wanted
  <2>3. FC_Typed' /\ TrailComplete'
    BY <2>1 DEF FC_IInv, FC_Typed, TrailComplete, Succeeded
  <2>4. StatesSaid' /\ UndoesItsEntry' /\ JournalTrue'
    BY <2>1 DEF FC_IInv, Core, StatesSaid, UndoesItsEntry, JournalTrue, Says
  <2>5. RequestsTrue'
    BY <2>1, <2>2 DEF FC_IInv, Core, RequestsTrue, EditOfNothing, EditUnderWay, OthersUnderWay,
                      Settled, Behind, Leaves, With
  <2> QED
    BY <2>3, <2>4, <2>5 DEF FC_IInv, Core
<1>2. CASE \E state \in States : BeginCreate(state)
  BY <1>2, BeginCreateKeeps
<1>3. CASE \E state \in States : \E c \in Ids : BeginEdit(c, state)
  BY <1>3, BeginEditKeeps
<1>4. CASE \E state \in States : \E c \in Ids : Elsewhere(c, state)
  BY <1>4, ElsewhereKeeps
<1>5. CASE \E c \in Ids : BeginDelete(c)
  BY <1>5, BeginDeleteKeeps
<1>6. CASE \E e \in 1..MaxEntries : BeginUndo(e)
  BY <1>6, BeginUndoKeeps
<1>7. CASE Capture \/ Advance \/ Write \/ EditEnds \/ ReadFails
  BY <1>7, CaptureKeeps, AdvanceKeeps, WriteKeeps, EditEndsKeeps, ReadFailsKeeps
<1>8. CASE Creates \/ CreateEnds \/ Deletes \/ DeleteEnds
  BY <1>8, CreatesKeeps, CreateEndsKeeps, DeletesKeeps, DeleteEndsKeeps
<1>9. CASE Answered \/ Abandoned
  BY <1>9, AbandonedKeeps
<1> QED
  BY <1>1, <1>2, <1>3, <1>4, <1>5, <1>6, <1>7, <1>8, <1>9 DEF FC_Next

(* What a request at work and the journal say of the contexts holds of every  *)
(* state the field view can be in.                                          *)
THEOREM FC_Invariance == FC_Spec => []FC_IInv
<1>1. FC_Init => FC_IInv
  BY FC_InitIInv
<1>2. FC_IInv /\ [FC_Next]_FC_vars => FC_IInv'
  BY FC_NextKeeps
<1> QED
  BY <1>1, <1>2, PTL DEF FC_Spec

(* Whatever changed is in the journal or was told (app.py:803).             *)
THEOREM TrailCompleteAlways == FC_Spec => []TrailComplete
<1>1. FC_IInv => TrailComplete
  BY DEF FC_IInv
<1> QED
  BY <1>1, FC_Invariance, PTL

(* A request that succeeded is an edit whose context was there.             *)
LEMMA EditSucceeded ==
  ASSUME FC_IInv, Succeeded, req.op = "edit", outside = 0
  PROVE  LET c == req.change.ctx IN
         /\ c \in DOMAIN ctx /\ DOMAIN ctx = DOMAIN req.was
         /\ \A d \in DOMAIN ctx \ {c} : ctx[d] = req.was[d]
         /\ ctx[c].name = Wanted.name /\ ctx[c].default = Wanted.default
         /\ req.change.global \/ ctx[c].projects = Wanted.projects
         /\ "paged" \in odd \/ ctx[c].types = Wanted.types
<1>1. req # NoRequest /\ req.phase = "done"
  BY EditSays DEF Succeeded
<1>2. req.before # {}
  BY <1>1 DEF FC_IInv, Core, RequestsTrue, EditOfNothing
<1>3. EditUnderWay
  BY DEF FC_IInv, Core, RequestsTrue
<1> QED
  BY <1>1, <1>2, <1>3 DEF EditUnderWay, Settled, Behind

(* A creation or a deletion that succeeded has done just that.              *)
LEMMA OtherSucceeded ==
  ASSUME FC_IInv, Succeeded, outside = 0
  PROVE  LET c == req.change.ctx IN
         /\ req.op = "create" => c \notin DOMAIN req.was /\ ctx = With(c, Wanted)
         /\ req.op = "delete" =>
              "refused" \in odd \/ ctx = Restrict(req.was, DOMAIN req.was \ {c})
<1>1. req # NoRequest /\ req.phase = "done"
  BY DEF Succeeded, NoRequest
<1> QED
  BY <1>1 DEF FC_IInv, Core, RequestsTrue, OthersUnderWay

(* Done is what was asked for (app.py:784, 823, 853).                       *)
THEOREM SuccessIsAsAskedAlways == FC_Spec => []SuccessIsAsAsked
<1>1. ASSUME FC_IInv
      PROVE  SuccessIsAsAsked
  <2> SUFFICES ASSUME Succeeded, outside = 0
               PROVE  LET c == req.change.ctx IN
                      CASE req.op = "edit" ->
                             /\ ctx[c].name = Wanted.name /\ ctx[c].default = Wanted.default
                             /\ req.change.global \/ ctx[c].projects = Wanted.projects
                             /\ "paged" \in odd \/ ctx[c].types = Wanted.types
                        [] req.op = "create" -> c \in DOMAIN ctx /\ ctx[c] = Wanted
                        [] OTHER -> c \notin DOMAIN ctx \/ "refused" \in odd
    BY DEF SuccessIsAsAsked
  <2>1. req.op \in {"edit", "create", "delete"}
    BY <1>1 DEF FC_IInv, FC_Typed, Succeeded, NoRequest, FC_Requests
  <2>2. CASE req.op = "edit"
    BY <1>1, <2>2, EditSucceeded
  <2>3. CASE req.op = "create"
    BY <1>1, <2>3, OtherSucceeded DEF With
  <2>4. CASE req.op = "delete"
    BY <1>1, <2>4, OtherSucceeded DEF Restrict
  <2> QED
    BY <2>1, <2>2, <2>3, <2>4
<1> QED
  BY <1>1, FC_Invariance, PTL

------------------------------------------------------------------------------
(* The same contexts under the same ids are alike.                          *)
LEMMA SameIsAlike ==
  ASSUME NEW a
  PROVE  Alike(a, a)
<1> DEFINE f == [c \in DOMAIN a |-> c]
<1>1. f \in Bijection(DOMAIN a, DOMAIN a)
  BY DEF Bijection, Injection, Surjection, IsInjective
<1>2. \A c \in DOMAIN a : a[c] = a[f[c]]
  OBVIOUS
<1> QED
  BY <1>1, <1>2 DEF Alike

(* So are those of which one has got a new id.                              *)
LEMMA RenumberedIsAlike ==
  ASSUME NEW a, NEW b, NEW k \in DOMAIN b, NEW n \in DOMAIN a,
         n \notin DOMAIN b \ {k},
         DOMAIN a = (DOMAIN b \ {k}) \union {n},
         \A c \in DOMAIN b \ {k} : a[c] = b[c], a[n] = b[k]
  PROVE  Alike(a, b)
<1> DEFINE f == [c \in DOMAIN a |-> IF c = n THEN k ELSE c]
<1>1. f \in Bijection(DOMAIN a, DOMAIN b)
  <2>1. f \in [DOMAIN a -> DOMAIN b]
    OBVIOUS
  <2>2. \A c, d \in DOMAIN a : f[c] = f[d] => c = d
    OBVIOUS
  <2>3. \A d \in DOMAIN b : \E c \in DOMAIN a : f[c] = d
    <3> SUFFICES ASSUME NEW d \in DOMAIN b
                 PROVE  \E c \in DOMAIN a : f[c] = d
      OBVIOUS
    <3>1. CASE d = k
      BY <3>1
    <3>2. CASE d # k
      BY <3>2
    <3> QED
      BY <3>1, <3>2
  <2> HIDE DEF f
  <2> QED
    BY <2>1, <2>2, <2>3 DEF Bijection, Injection, Surjection, IsInjective
<1>2. \A c \in DOMAIN a : a[c] = b[f[c]]
  OBVIOUS
<1> QED
  BY <1>1, <1>2 DEF Alike

(* An undo that starts from what its entry left gives back what was there    *)
(* before (app.py:795).                                                     *)
THEOREM UndoGivesBackAlways == FC_Spec => []UndoGivesBack
<1>1. ASSUME FC_IInv
      PROVE  UndoGivesBack
  <2> DEFINE u == req.undoOf
             c == req.change.ctx
             was == journal[u].was
             made == journal[u].made
  <2> SUFFICES ASSUME Succeeded, u # 0, req.exact, odd = {}, outside = 0,
                      ~(req.change.global /\ Wanted.projects # ctx[c].projects), ~EditsLost
               PROVE  Alike(ctx, was)
    BY DEF UndoGivesBack
  <2>1. req \in FC_Requests /\ req # NoRequest /\ u \in Nat
    BY <1>1 DEF FC_IInv, FC_Typed, Succeeded, NoRequest, FC_Requests
  <2>2. /\ u \in DOMAIN journal /\ req.was = made
    BY <1>1, <2>1 DEF FC_IInv, Core, UndoesItsEntry
  <2>3. PICK change \in journal[u].inverse :
          /\ change.op = req.op /\ change.state = req.change.state
          /\ req.op # "create" => change.ctx = c
    BY <1>1, <2>1 DEF FC_IInv, Core, UndoesItsEntry
  <2>4. EntryTrue(change, was, made)
    BY <1>1, <2>2 DEF FC_IInv, Core, JournalTrue
  <2>5. was \in FC_Contexts /\ made \in FC_Contexts /\ ctx \in FC_Contexts
    <3>1. journal[u] \in FC_Entries
      BY <1>1, <2>2 DEF FC_IInv, FC_Typed
    <3> QED
      BY <1>1, <3>1 DEF FC_IInv, FC_Typed, FC_Entries
  <2>6. req.op \in {"edit", "create", "delete"}
    BY <2>1 DEF FC_Requests
  <2> HIDE DEF was, made
  <2>7. CASE req.op = "edit"
    <3>1. /\ c \in DOMAIN was /\ DOMAIN made = DOMAIN was
          /\ \A d \in DOMAIN was \ {c} : made[d] = was[d]
          /\ req.change.state = {was[c]}
      BY <2>3, <2>4, <2>7 DEF EntryTrue
    <3>2. Wanted = was[c]
      BY <3>1, WantedIs
    <3>3. /\ c \in DOMAIN ctx /\ DOMAIN ctx = DOMAIN made
          /\ \A d \in DOMAIN ctx \ {c} : ctx[d] = made[d]
          /\ ctx[c].name = Wanted.name /\ ctx[c].default = Wanted.default
          /\ ctx[c].projects = Wanted.projects /\ ctx[c].types = Wanted.types
      BY <1>1, <2>2, <2>7, EditSucceeded
    <3>4. ctx[c] = was[c]
      <4> HIDE DEF c
      <4>1. ctx[c] \in States
        BY <2>5, <3>3 DEF FC_Contexts
      <4>2. was[c] \in States
        <5>1. c \in DOMAIN was /\ was \in FC_Contexts
          BY <2>5, <3>1
        <5> QED
          BY ONLY <5>1 DEF FC_Contexts
      <4> QED
        BY <3>2, <3>3, <4>1, <4>2 DEF States
    <3>5. ctx = was
      BY <2>5, <3>1, <3>3, <3>4 DEF FC_Contexts
    <3> QED
      BY <3>5, SameIsAlike
  <2>8. CASE req.op = "delete"
    <3>1. was = Restrict(made, DOMAIN made \ {c})
      BY <2>3, <2>4, <2>8 DEF EntryTrue
    <3>2. ctx = Restrict(made, DOMAIN made \ {c})
      BY <1>1, <2>2, <2>8, OtherSucceeded
    <3> QED
      BY <3>1, <3>2, SameIsAlike
  <2>9. CASE req.op = "create"
    <3>1. PICK k \in DOMAIN was : made = Restrict(was, DOMAIN was \ {k})
      BY <2>3, <2>4, <2>9 DEF EntryTrue
    <3>2. /\ DOMAIN made = DOMAIN was \ {k}
          /\ \A d \in DOMAIN was \ {k} : made[d] = was[d]
      BY <3>1 DEF Restrict
    <3>3. c \notin DOMAIN made /\ ctx = With(c, Wanted)
      BY <1>1, <2>2, <2>9, OtherSucceeded
    <3>4. /\ DOMAIN ctx = DOMAIN made \union {c} /\ ctx[c] = Wanted
          /\ \A d \in DOMAIN made : ctx[d] = made[d]
      BY <2>2, <3>3 DEF With
    <3>5. was[k] = Wanted
      BY <2>9, <3>2 DEF EditsLost, was, made
    <3> QED
      BY <3>2, <3>3, <3>4, <3>5, RenumberedIsAlike
  <2> QED
    BY <2>6, <2>7, <2>8, <2>9
<1> QED
  BY <1>1, FC_Invariance, PTL
==============================================================================
