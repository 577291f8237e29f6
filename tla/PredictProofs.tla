---------------------------- MODULE PredictProofs ----------------------------
(****************************************************************************)
(* predict() and the history it keeps of the hosts, for every set of hosts, *)
(* callers and artifacts and every bound: however threads interleave, the   *)
(* dict overshoots its bound by one host for each further thread at most,   *)
(* and the heavy model sees rows of the host it scores, in order; with one  *)
(* caller the hosts of the latest flows are the ones that are kept, the     *)
(* heavy model gets the sequence that build_sequences makes of the same     *)
(* flows, and a call that begins when every artifact is there does not fail. *)
(****************************************************************************)
EXTENDS Predict, FiniteSetTheorems, SequenceTheorems, WellFoundedInduction, TLAPS

Item == [host : Hosts, rows : Seq(Nat)]
Pushed == [host : Hosts, row : Nat]

(* The history as one caller sees it: items with their rows, a host reached *)
(* in one step, a row pushed and a window read in another.  That the steps  *)
(* of append and window amount to these is proved below.                    *)
Reach(items, host) ==
  IF Holds(items, host) THEN MoveToEnd(items, host)
  ELSE Append(IF Len(items) >= max_hosts THEN Tail(items) ELSE items,
              [host |-> host, rows |-> <<>>])

Push(items, host, row) ==
  [i \in DOMAIN items |->
     IF items[i].host = host
       THEN [items[i] EXCEPT !.rows = Capped(Append(@, row))] ELSE items[i]]

------------------------------------------------------------------------------
(* The rows of one host                                                     *)

(* deque(maxlen=seq_len): a row stays until seq_len newer ones came.        *)
LEMMA CappedRows ==
  ASSUME NEW rows \in Seq(Nat), NEW row \in Nat, Len(rows) <= seq_len
  PROVE  LET new == Capped(Append(rows, row))
         IN  /\ new \in Seq(Nat)
             /\ Len(new) = IF Len(rows) < seq_len THEN Len(rows) + 1 ELSE seq_len
             /\ new[Len(new)] = row
             /\ \A l \in Nat : l + 1 < Len(new) =>
                  l < Len(rows) /\ new[Len(new) - (l + 1)] = rows[Len(rows) - l]
<1> DEFINE all == Append(rows, row)
           new == Capped(all)
<1>1. PICK n \in Nat : n = Len(rows)
  OBVIOUS
<1>2. seq_len \in Nat /\ seq_len > 0
  BY HostHistoryAssumption
<1>3. /\ all \in Seq(Nat) /\ Len(all) = n + 1 /\ all[n + 1] = row
      /\ \A i \in 1 .. n : all[i] = rows[i]
  BY <1>1, AppendProperties
<1> HIDE DEF all
<1>4. CASE n < seq_len
  <2>1. new = all
    BY <1>2, <1>3, <1>4 DEF Capped
  <2> HIDE DEF new
  <2>2. \A l \in Nat : l + 1 < n + 1 => l < n /\ (n + 1) - (l + 1) = n - l /\ n - l \in 1 .. n
    BY <1>1
  <2> QED BY <1>1, <1>3, <1>4, <2>1, <2>2 DEF new, all
<1>5. CASE ~(n < seq_len)
  <2>1. n = seq_len
    BY <1>1, <1>2, <1>5
  <2>2. new = SubSeq(all, 2, n + 1)
    BY <1>2, <1>3, <2>1 DEF Capped
  <2>3. \A i \in 2 .. n + 1 : all[i] \in Nat
    BY <1>3, ElementOfSeq
  <2>4. /\ new \in Seq(Nat) /\ Len(new) = n
        /\ \A i \in 1 .. n : new[i] = all[i + 1]
    <3>1. 2 <= n + 1 + 1
      BY <1>1
    <3> QED BY <1>1, <1>3, <2>2, <2>3, <3>1, SubSeqProperties
  <2> HIDE DEF new
  <2>5. new[Len(new)] = row
    BY <1>2, <1>3, <2>1, <2>4
  <2>6. ASSUME NEW l \in Nat, l + 1 < n
        PROVE  l < n /\ new[n - (l + 1)] = rows[n - l]
    <3>1. n - (l + 1) \in 1 .. n /\ (n - (l + 1)) + 1 = n - l /\ n - l \in 1 .. n
      BY <1>1, <2>6
    <3> QED BY <1>3, <2>4, <3>1
  <2> QED BY <1>1, <2>1, <2>4, <2>5, <2>6 DEF new, all
<1> QED BY <1>4, <1>5

(* The positions of a host's rows among those pushed.                       *)
PushesIn(pushes, host) == { i \in DOMAIN pushes : pushes[i].host = host }

LEMMA PushesGrow ==
  ASSUME NEW pushes \in Seq(Pushed), NEW p \in Pushed
  PROVE  /\ DOMAIN Append(pushes, p) = 1 .. Len(pushes) + 1
         /\ Append(pushes, p)[Len(pushes) + 1] = p
         /\ \A i \in 1 .. Len(pushes) : Append(pushes, p)[i] = pushes[i]
         /\ \A host : /\ PushesIn(pushes, host) \subseteq 1 .. Len(pushes)
                      /\ IsFiniteSet(PushesIn(pushes, host))
                      /\ host # p.host =>
                           PushesIn(Append(pushes, p), host) = PushesIn(pushes, host)
         /\ PushesIn(Append(pushes, p), p.host)
              = PushesIn(pushes, p.host) \cup {Len(pushes) + 1}
<1> DEFINE new == Append(pushes, p)
<1>1. PICK n \in Nat : n = Len(pushes) /\ DOMAIN pushes = 1 .. n
  OBVIOUS
<1>2. /\ DOMAIN new = 1 .. n + 1 /\ new[n + 1] = p
      /\ \A i \in 1 .. n : new[i] = pushes[i]
  BY <1>1, AppendProperties
<1> HIDE DEF new
<1>3. 1 .. n + 1 = (1 .. n) \cup {n + 1} /\ n + 1 \notin 1 .. n
  OBVIOUS
<1>4. \A host : PushesIn(pushes, host) \subseteq 1 .. n
  BY <1>1 DEF PushesIn
<1>5. IsFiniteSet(1 .. n)
  BY FS_Interval
<1>6. \A host : IsFiniteSet(PushesIn(pushes, host))
  BY <1>4, <1>5, FS_Subset
<1>7. \A host : host # p.host => PushesIn(new, host) = PushesIn(pushes, host)
  BY <1>1, <1>2, <1>3 DEF PushesIn
<1>8. PushesIn(new, p.host) = PushesIn(pushes, p.host) \cup {n + 1}
  BY <1>1, <1>2, <1>3 DEF PushesIn
<1> QED BY <1>1, <1>2, <1>4, <1>6, <1>7, <1>8 DEF new

(* The rows are the latest of those at the given positions, in order.       *)
LatestRows(rows, mine, pushes) ==
  LET later(k) == Cardinality({ m \in mine : m > k })
  IN  /\ Len(rows) <= Cardinality(mine) /\ Len(rows) <= seq_len
      /\ \A k \in mine : later(k) < Len(rows) =>
           rows[Len(rows) - later(k)] = pushes[k].row

(* One more position, greater than the others.                              *)
LEMMA LaterGrows ==
  ASSUME NEW n \in Nat, NEW mine \in SUBSET (1 .. n), IsFiniteSet(mine)
  PROVE  /\ Cardinality(mine) \in Nat
         /\ Cardinality(mine \cup {n + 1}) = Cardinality(mine) + 1
         /\ Cardinality({ m \in mine \cup {n + 1} : m > n + 1 }) = 0
         /\ \A k \in mine :
              /\ Cardinality({ m \in mine : m > k }) \in Nat
              /\ Cardinality({ m \in mine \cup {n + 1} : m > k })
                   = Cardinality({ m \in mine : m > k }) + 1
<1>1. n + 1 \notin mine /\ \A m \in mine : ~(m > n + 1) /\ n + 1 > m
  OBVIOUS
<1>2. Cardinality(mine) \in Nat /\ Cardinality(mine \cup {n + 1}) = Cardinality(mine) + 1
  BY <1>1, FS_AddElement, FS_CardinalityType
<1>3. { m \in mine \cup {n + 1} : m > n + 1 } = {}
  <2>1. ~(n + 1 > n + 1)
    OBVIOUS
  <2>2. \A m \in mine \cup {n + 1} : ~(m > n + 1)
    BY <1>1, <2>1
  <2> QED BY <2>2
<1>4. ASSUME NEW k \in mine
      PROVE  /\ Cardinality({ m \in mine : m > k }) \in Nat
             /\ Cardinality({ m \in mine \cup {n + 1} : m > k })
                  = Cardinality({ m \in mine : m > k }) + 1
  <2> DEFINE after == { m \in mine : m > k }
  <2>1. IsFiniteSet(after) /\ n + 1 \notin after
    BY <1>1, FS_Subset
  <2>2. { m \in mine \cup {n + 1} : m > k } = after \cup {n + 1}
    BY <1>1, <1>4
  <2> HIDE DEF after
  <2>3. Cardinality(after) \in Nat /\ Cardinality(after \cup {n + 1}) = Cardinality(after) + 1
    BY <2>1, FS_AddElement, FS_CardinalityType
  <2> QED BY <2>2, <2>3 DEF after
<1> QED BY <1>2, <1>3, <1>4, FS_EmptySet

(* The row of the next position enters at the end.                          *)
LEMMA LatestRowsGrow ==
  ASSUME NEW n \in Nat, NEW mine \in SUBSET (1 .. n), NEW rows \in Seq(Nat),
         NEW pushes, pushes[n + 1].row \in Nat, LatestRows(rows, mine, pushes)
  PROVE  LatestRows(Capped(Append(rows, pushes[n + 1].row)), mine \cup {n + 1}, pushes)
<1> DEFINE row == pushes[n + 1].row
           new == Capped(Append(rows, row))
           Later(k) == Cardinality({ m \in mine : m > k })
           LaterNew(k) == Cardinality({ m \in mine \cup {n + 1} : m > k })
<1>1. IsFiniteSet(mine)
  <2>1. IsFiniteSet(1 .. n)
    BY FS_Interval
  <2> QED BY <2>1, FS_Subset
<1>2. /\ Cardinality(mine) \in Nat
      /\ Cardinality(mine \cup {n + 1}) = Cardinality(mine) + 1
      /\ LaterNew(n + 1) = 0
      /\ \A k \in mine : Later(k) \in Nat /\ LaterNew(k) = Later(k) + 1
  BY <1>1, LaterGrows
<1>3. /\ Len(rows) \in Nat /\ Len(rows) <= Cardinality(mine) /\ Len(rows) <= seq_len
      /\ \A k \in mine : Later(k) < Len(rows) => rows[Len(rows) - Later(k)] = pushes[k].row
  BY DEF LatestRows
<1> HIDE DEF row
<1>4. /\ new \in Seq(Nat)
      /\ Len(new) = IF Len(rows) < seq_len THEN Len(rows) + 1 ELSE seq_len
      /\ new[Len(new)] = row
      /\ \A l \in Nat : l + 1 < Len(new) =>
           l < Len(rows) /\ new[Len(new) - (l + 1)] = rows[Len(rows) - l]
  BY <1>3, CappedRows DEF row
<1> HIDE DEF new, Later, LaterNew
<1>5. Len(new) <= Cardinality(mine \cup {n + 1}) /\ Len(new) <= seq_len
  BY <1>2, <1>3, <1>4, HostHistoryAssumption
<1>6. ASSUME NEW k \in mine \cup {n + 1}, LaterNew(k) < Len(new)
      PROVE  new[Len(new) - LaterNew(k)] = pushes[k].row
  <2>1. CASE k = n + 1
    <3>1. Len(new) - 0 = Len(new)
      BY <1>4
    <3> QED BY <1>2, <1>4, <2>1, <3>1 DEF row
  <2>2. CASE k \in mine
    <3>1. PICK l \in Nat : l = Later(k) /\ LaterNew(k) = l + 1
      BY <1>2, <2>2
    <3>2. l < Len(rows) /\ new[Len(new) - (l + 1)] = rows[Len(rows) - l]
      BY <1>4, <1>6, <3>1
    <3> QED BY <1>3, <2>2, <3>1, <3>2
  <2> QED BY <1>6, <2>1, <2>2
<1> QED BY <1>5, <1>6 DEF LatestRows, LaterNew, new, row

------------------------------------------------------------------------------
(* The hosts                                                                *)

(* The items of the OrderedDict: one per host.                              *)
OneEach(items) == \A i, j \in DOMAIN items : items[i].host = items[j].host => i = j

IsDict(items) == items \in Seq(Item) /\ OneEach(items)

(* The hosts behind the one at position p: those touched after it.          *)
Behind(items, p) == { items[q].host : q \in { r \in DOMAIN items : r > p } }

LEMMA MovedItems ==
  ASSUME NEW S, NEW items \in Seq(S), OneEach(items), NEW p \in DOMAIN items
  PROVE  LET moved == MoveToEnd(items, items[p].host)
         IN  /\ moved \in Seq(S) /\ Len(moved) = Len(items)
             /\ \A i \in 1 .. p - 1 : moved[i] = items[i]
             /\ \A i \in p .. Len(items) - 1 : moved[i] = items[i + 1]
             /\ moved[Len(items)] = items[p]
<1> DEFINE host == items[p].host
           moved == MoveToEnd(items, host)
           chosen == CHOOSE i \in DOMAIN items : items[i].host = host
<1>1. PICK n \in Nat : n = Len(items) /\ DOMAIN items = 1 .. n
  OBVIOUS
<1>2. chosen = p
  BY DEF OneEach
<1>3. moved = [i \in 1 .. n |-> IF i < p THEN items[i]
                                ELSE IF i < n THEN items[i + 1] ELSE items[p]]
  BY <1>1, <1>2 DEF MoveToEnd
<1> HIDE DEF moved
<1>4. \A i \in 1 .. n : moved[i] \in S
  <2>1. \A i \in 1 .. n : items[i] \in S
    BY <1>1
  <2>2. \A i \in 1 .. n : i < n => i + 1 \in 1 .. n
    OBVIOUS
  <2> QED BY <1>1, <1>3, <2>1, <2>2
<1>5. moved \in Seq(S) /\ Len(moved) = n
  <2>1. moved \in [1 .. n -> S]
    BY <1>3, <1>4
  <2> QED BY <2>1
<1>6. /\ \A i \in 1 .. p - 1 : moved[i] = items[i]
      /\ \A i \in p .. n - 1 : moved[i] = items[i + 1]
      /\ moved[n] = items[p]
  <2>1. p \in 1 .. n
    BY <1>1
  <2> QED BY <1>3, <2>1
<1> QED BY <1>1, <1>5, <1>6 DEF moved

(* What Reach and MoveToEnd do: the host is the last one, the hosts before  *)
(* it keep their rows and their order, and one is evicted only for a new    *)
(* host and only when the dict is full.                                     *)
Touched(items, new, host) ==
  /\ IsDict(new)
  /\ Len(new) > 0 /\ new[Len(new)].host = host
  /\ \A i \in DOMAIN new : new[i].host # host =>
       \E j \in DOMAIN items : /\ items[j] = new[i]
                               /\ Behind(new, i) = Behind(items, j) \cup {host}
  /\ \A j \in DOMAIN items :
       \/ \E i \in DOMAIN new : new[i] = items[j]
       \/ /\ \A i \in DOMAIN items : items[i].host # host
          /\ j = 1 /\ Len(items) >= max_hosts

LEMMA MoveTouches ==
  ASSUME NEW items, IsDict(items), NEW p \in DOMAIN items
  PROVE  LET new == MoveToEnd(items, items[p].host)
         IN  /\ Touched(items, new, items[p].host)
             /\ Len(new) = Len(items) /\ new[Len(new)] = items[p]
<1> DEFINE host == items[p].host
           new == MoveToEnd(items, host)
<1>1. PICK n \in Nat : n = Len(items) /\ DOMAIN items = 1 .. n
  BY DEF IsDict, OneEach
<1>2. /\ new \in Seq(Item) /\ Len(new) = n
      /\ \A i \in 1 .. p - 1 : new[i] = items[i]
      /\ \A i \in p .. n - 1 : new[i] = items[i + 1]
      /\ new[n] = items[p]
  BY <1>1, MovedItems DEF IsDict, OneEach
<1> HIDE DEF new
<1>3. p \in 1 .. n /\ DOMAIN new = 1 .. n /\ n \in 1 .. n
  BY <1>1, <1>2
<1>4. \A i \in 1 .. n : i \in 1 .. p - 1 \/ i \in p .. n - 1 \/ i = n
  BY <1>3
<1>5. \A i, j \in 1 .. n : items[i].host = items[j].host => i = j
  BY <1>1 DEF IsDict, OneEach
(* Where the item at a position of the new dict was. *)
<1> DEFINE Was(i) == IF i < p THEN i ELSE IF i < n THEN i + 1 ELSE p
<1>6. \A i \in 1 .. n : Was(i) \in 1 .. n /\ new[i] = items[Was(i)]
  BY <1>2, <1>3, <1>4
<1>7. /\ \A i, j \in 1 .. n : i < n /\ j < n => (i < j <=> Was(i) < Was(j))
      /\ \A i \in 1 .. n : i < n => Was(i) # p
      /\ Was(n) = p
  BY <1>3
<1>8. \A j \in 1 .. n : \E i \in 1 .. n : Was(i) = j
  <2> SUFFICES ASSUME NEW j \in 1 .. n PROVE \E i \in 1 .. n : Was(i) = j
    OBVIOUS
  <2>1. CASE j < p
    BY <2>1
  <2>2. CASE j = p
    BY <1>3, <2>2
  <2>3. CASE j > p
    <3>1. j - 1 \in 1 .. n /\ Was(j - 1) = j
      BY <1>3, <2>3
    <3> QED BY <3>1
  <2> QED BY <1>3, <2>1, <2>2, <2>3
<1> HIDE DEF Was
<1>9. \A i, j \in 1 .. n : Was(i) = Was(j) => i = j
  <2> SUFFICES ASSUME NEW i \in 1 .. n, NEW j \in 1 .. n, Was(i) = Was(j) PROVE i = j
    OBVIOUS
  <2>1. Was(i) \in Int /\ Was(j) \in Int
    BY <1>6
  <2>2. i = n <=> j = n
    BY <1>3, <1>7
  <2>3. CASE i # n
    <3>1. i < n /\ j < n
      BY <2>2, <2>3
    <3> QED BY <1>7, <2>1, <3>1
  <2> QED BY <2>2, <2>3
<1>10. IsDict(new)
  <2>1. \A i, j \in 1 .. n : new[i].host = new[j].host => Was(i) = Was(j)
    BY <1>5, <1>6
  <2> QED BY <1>2, <1>3, <1>9, <2>1 DEF IsDict, OneEach
<1>11. ASSUME NEW i \in 1 .. n, new[i].host # host
       PROVE  Behind(new, i) = Behind(items, Was(i)) \cup {host}
  <2>1. i < n
    BY <1>2, <1>3, <1>11
  <2> DEFINE was == Was(i)
  <2>2. was \in 1 .. n
    BY <1>6
  <2>3. ASSUME NEW q \in 1 .. n, q > i
        PROVE  new[q].host \in Behind(items, was) \cup {host}
    <3>1. CASE q = n
      BY <1>2, <3>1
    <3>2. CASE q # n
      <4>1. Was(q) \in 1 .. n /\ Was(q) > was /\ new[q].host = items[Was(q)].host
        BY <1>6, <1>7, <2>1, <2>3, <3>2
      <4> HIDE DEF was
      <4> QED BY <1>1, <4>1 DEF Behind
    <3> QED BY <3>1, <3>2
  <2>4. ASSUME NEW r \in 1 .. n, r > was
        PROVE  items[r].host \in Behind(new, i)
    <3>1. PICK q \in 1 .. n : Was(q) = r
      BY <1>8
    <3>2. q > i
      BY <1>7, <2>1, <2>4, <3>1
    <3>3. new[q].host = items[r].host
      BY <1>6, <3>1
    <3> HIDE DEF was
    <3> QED BY <1>3, <3>2, <3>3 DEF Behind
  <2>5. host \in Behind(new, i)
    <3>1. n > i /\ new[n].host = host
      BY <1>2, <2>1
    <3> QED BY <1>3, <3>1 DEF Behind
  <2> HIDE DEF was, host
  <2> QED BY <1>1, <1>3, <2>3, <2>4, <2>5 DEF Behind, was
<1>12. \A i \in DOMAIN new : new[i].host # host =>
         \E j \in DOMAIN items : items[j] = new[i] /\ Behind(new, i) = Behind(items, j) \cup {host}
  BY <1>1, <1>3, <1>6, <1>11
<1>13. \A j \in DOMAIN items : \E i \in DOMAIN new : new[i] = items[j]
  BY <1>1, <1>3, <1>6, <1>8
<1>14. Len(new) > 0 /\ new[Len(new)].host = host /\ new[Len(new)] = items[p]
  BY <1>2, <1>3
<1>15. Touched(items, new, host)
  BY <1>10, <1>12, <1>13, <1>14 DEF Touched
<1> QED BY <1>1, <1>2, <1>14, <1>15 DEF new

LEMMA ReachTouches ==
  ASSUME NEW items, IsDict(items), Len(items) <= max_hosts, NEW host \in Hosts
  PROVE  /\ Touched(items, Reach(items, host), host)
         /\ Len(Reach(items, host)) <= max_hosts
         /\ \/ \E j \in DOMAIN items : Reach(items, host)[Len(Reach(items, host))] = items[j]
            \/ Reach(items, host)[Len(Reach(items, host))] = [host |-> host, rows |-> <<>>]
<1> DEFINE new == Reach(items, host)
<1>1. PICK n \in Nat : n = Len(items) /\ DOMAIN items = 1 .. n
  BY DEF IsDict, OneEach
<1>2. CASE Holds(items, host)
  <2>1. PICK p \in DOMAIN items : items[p].host = host
    BY <1>2 DEF Holds
  <2>2. new = MoveToEnd(items, items[p].host)
    BY <1>2, <2>1 DEF Reach
  <2> HIDE DEF new
  <2>3. /\ Touched(items, new, host)
        /\ Len(new) = Len(items) /\ new[Len(new)] = items[p]
    BY <2>1, <2>2, MoveTouches
  <2> QED BY <2>3 DEF new
<1>3. CASE ~Holds(items, host)
  <2> DEFINE full == Len(items) >= max_hosts
             rest == IF full THEN Tail(items) ELSE items
             item == [host |-> host, rows |-> <<>>]
             (* how far the items move to the front *)
             d == IF full THEN 1 ELSE 0
  <2>1. new = Append(rest, item)
    BY <1>3 DEF Reach
  <2>2. item \in Item /\ max_hosts \in Nat /\ max_hosts > 0
    BY HostHistoryAssumption DEF Item
  <2>3. PICK k \in Nat : k = n - d /\ k < max_hosts
    <3>1. n <= max_hosts
      BY <1>1
    <3>2. CASE full
      BY <1>1, <2>2, <3>1, <3>2
    <3>3. CASE ~full
      BY <1>1, <2>2, <3>1, <3>3
    <3> QED BY <3>2, <3>3
  <2>4. /\ rest \in Seq(Item) /\ Len(rest) = k
        /\ \A i \in 1 .. k : rest[i] = items[i + d] /\ i + d \in 1 .. n
    <3>1. CASE full
      <4>1. items # <<>>
        BY <1>1, <2>2, <3>1, EmptySeq
      <4>2. /\ Tail(items) \in Seq(Item) /\ Len(Tail(items)) = n - 1
            /\ \A i \in 1 .. n - 1 : Tail(items)[i] = items[i + 1]
        BY <1>1, <4>1, HeadTailProperties DEF IsDict, OneEach
      <4> QED BY <2>3, <3>1, <4>2
    <3>2. CASE ~full
      BY <1>1, <2>3, <3>2 DEF IsDict, OneEach
    <3> QED BY <3>1, <3>2
  <2> HIDE DEF rest
  <2>5. /\ new \in Seq(Item) /\ Len(new) = k + 1 /\ new[k + 1] = item
        /\ DOMAIN new = 1 .. k + 1
        /\ \A i \in 1 .. k : new[i] = items[i + d]
    <3> HIDE DEF new, item, d
    <3>1. new \in Seq(Item) /\ Len(new) = k + 1 /\ new[k + 1] = item
          /\ \A i \in 1 .. k : new[i] = rest[i]
      BY <2>1, <2>2, <2>4, AppendProperties
    <3> QED BY <2>4, <3>1
  <2> HIDE DEF new
  <2>6. \A i \in 1 .. n : items[i].host # host
    BY <1>1, <1>3 DEF Holds
  <2>7. \A i \in 1 .. k + 1 : i \in 1 .. k \/ i = k + 1
    OBVIOUS
  <2>8. IsDict(new)
    <3>1. \A i, j \in 1 .. n : items[i].host = items[j].host => i = j
      BY <1>1 DEF IsDict, OneEach
    <3>2. \A i, j \in 1 .. k : new[i].host = new[j].host => i = j
      BY <2>4, <2>5, <3>1
    <3>3. \A i \in 1 .. k : new[i].host # new[k + 1].host
      BY <2>4, <2>5, <2>6
    <3> HIDE DEF d, item
    <3> QED BY <2>5, <2>7, <3>2, <3>3 DEF IsDict, OneEach
  <2>9. ASSUME NEW i \in 1 .. k PROVE Behind(new, i) = Behind(items, i + d) \cup {host}
    <3>1. ASSUME NEW q \in 1 .. k + 1, q > i
          PROVE  new[q].host \in Behind(items, i + d) \cup {host}
      <4>1. CASE q = k + 1
        BY <2>5, <4>1
      <4>2. CASE q \in 1 .. k
        <5>1. q + d \in 1 .. n /\ q + d > i + d /\ new[q].host = items[q + d].host
          BY <2>3, <2>4, <2>5, <3>1, <4>2
        <5> HIDE DEF d
        <5> QED BY <1>1, <5>1 DEF Behind
      <4> QED BY <2>7, <4>1, <4>2
    <3>2. ASSUME NEW r \in 1 .. n, r > i + d
          PROVE  items[r].host \in Behind(new, i)
      <4>1. PICK q \in 1 .. k : q + d = r /\ q > i
        <5>1. r - d \in 1 .. k /\ (r - d) + d = r /\ r - d > i
          BY <1>1, <2>3, <3>2
        <5> QED BY <5>1
      <4>2. new[q].host = items[r].host /\ q \in DOMAIN new
        BY <2>4, <2>5, <4>1
      <4> HIDE DEF d
      <4> QED BY <4>1, <4>2 DEF Behind
    <3>3. host \in Behind(new, i)
      <4>1. k + 1 > i /\ new[k + 1].host = host
        BY <2>5
      <4> HIDE DEF item, d
      <4> QED BY <2>5, <4>1 DEF Behind
    <3> HIDE DEF d, item
    <3> QED BY <1>1, <2>5, <3>1, <3>2, <3>3 DEF Behind
  <2>10. \A i \in DOMAIN new : new[i].host # host =>
           \E j \in DOMAIN items : items[j] = new[i]
                                   /\ Behind(new, i) = Behind(items, j) \cup {host}
    <3>1. \A i \in 1 .. k : i + d \in DOMAIN items /\ new[i] = items[i + d]
      BY <1>1, <2>4, <2>5
    <3>2. new[k + 1].host = host
      BY <2>5
    <3> HIDE DEF d, item
    <3> QED BY <2>5, <2>7, <2>9, <3>1, <3>2
  <2>11. ASSUME NEW j \in DOMAIN items
         PROVE  \/ \E i \in DOMAIN new : new[i] = items[j]
                \/ j = 1 /\ Len(items) >= max_hosts
    <3>1. CASE j > d
      <4>1. j - d \in 1 .. k /\ (j - d) + d = j
        BY <1>1, <2>3, <2>11, <3>1
      <4>2. new[j - d] = items[j] /\ j - d \in DOMAIN new
        BY <2>5, <4>1
      <4> QED BY <4>2
    <3>2. CASE ~(j > d)
      BY <1>1, <2>11, <3>2
    <3> QED BY <3>1, <3>2
  <2>12. Touched(items, new, host)
    <3>1. Len(new) > 0 /\ new[Len(new)].host = host
      BY <2>5
    <3>2. \A i \in DOMAIN items : items[i].host # host
      BY <1>1, <2>6
    <3> HIDE DEF item, full, d
    <3> QED BY <2>8, <2>10, <2>11, <3>1, <3>2 DEF Touched
  <2>13. Len(new) <= max_hosts /\ new[Len(new)] = item
    BY <2>2, <2>3, <2>5
  <2> QED BY <2>12, <2>13 DEF new
<1> QED BY <1>2, <1>3

LEMMA PushesRow ==
  ASSUME NEW items, IsDict(items), NEW host, NEW row \in Nat,
         \A i \in DOMAIN items : Len(items[i].rows) <= seq_len
  PROVE  LET new == Push(items, host, row)
         IN  /\ IsDict(new) /\ Len(new) = Len(items)
             /\ \A i \in DOMAIN items :
                  /\ new[i].host = items[i].host
                  /\ new[i].rows = IF items[i].host = host
                                     THEN Capped(Append(items[i].rows, row)) ELSE items[i].rows
                  /\ Behind(new, i) = Behind(items, i)
<1> DEFINE new == Push(items, host, row)
<1>1. PICK n \in Nat : n = Len(items) /\ DOMAIN items = 1 .. n
  BY DEF IsDict, OneEach
<1>2. \A i \in 1 .. n : items[i] \in Item
  BY <1>1 DEF IsDict, OneEach
<1>3. /\ DOMAIN new = 1 .. n
      /\ \A i \in 1 .. n :
           new[i] = IF items[i].host = host
                      THEN [items[i] EXCEPT !.rows = Capped(Append(items[i].rows, row))]
                      ELSE items[i]
  BY <1>1 DEF Push
<1>4. ASSUME NEW i \in 1 .. n
      PROVE  /\ new[i] \in Item
             /\ new[i].host = items[i].host
             /\ new[i].rows = IF items[i].host = host
                                THEN Capped(Append(items[i].rows, row)) ELSE items[i].rows
  <2>1. items[i].rows \in Seq(Nat) /\ items[i].host \in Hosts /\ Len(items[i].rows) <= seq_len
    BY <1>1, <1>2 DEF Item
  <2>2. Capped(Append(items[i].rows, row)) \in Seq(Nat)
    BY <2>1, CappedRows
  <2>3. CASE items[i].host = host
    <3>1. new[i] = [items[i] EXCEPT !.rows = Capped(Append(items[i].rows, row))]
      BY <1>3, <2>3
    <3> HIDE DEF new
    <3> QED BY <1>2, <2>2, <2>3, <3>1 DEF Item
  <2>4. CASE items[i].host # host
    BY <1>2, <1>3, <2>4
  <2> QED BY <2>3, <2>4
<1>5. new \in Seq(Item) /\ Len(new) = n
  <2>1. new \in [1 .. n -> Item]
    <3>1. new = [i \in 1 .. n |-> new[i]]
      BY <1>1 DEF Push
    <3> HIDE DEF new
    <3> QED BY <1>4, <3>1
  <2> HIDE DEF new
  <2> QED BY <2>1
<1> HIDE DEF new
<1>6. IsDict(new)
  BY <1>1, <1>3, <1>4, <1>5 DEF IsDict, OneEach
<1>7. \A i \in 1 .. n : Behind(new, i) = Behind(items, i)
  BY <1>1, <1>3, <1>4 DEF Behind
<1> QED BY <1>1, <1>4, <1>5, <1>6, <1>7 DEF new

------------------------------------------------------------------------------
(* The threads                                                              *)

Labels == {"idle", "load", "triage", "append", "move", "admit", "evict", "insert", "lookup",
           "push", "window", "renew", "take", "read", "verify", "explain"}

Fields == {"row", "host", "next", "complete", "calibrated", "calibrator", "model_used",
           "deque", "sequence"}

IsCall(c) ==
  DOMAIN c = Fields /\ c.row \in Nat /\ c.next \in 1 .. 7 /\ c.complete \in BOOLEAN

ThreadsTyped ==
  /\ calls \in Nat
  /\ pc \in [Threads -> Labels]
  /\ DOMAIN call = Threads
  /\ \A t \in Threads : /\ IsCall(call[t])
                        /\ pc[t] # "idle" => call[t].host \in Hosts
                        /\ pc[t] = "load" => call[t].next \in 1 .. 6

(* A step of one thread: what it does to its own label and call.            *)
Steps(t) ==
  /\ scenario' = scenario /\ calls' \in {calls, calls + 1}
  /\ DOMAIN call' = DOMAIN call /\ \A u \in Threads \ {t} : call'[u] = call[u]
  /\ pc' = [pc EXCEPT ![t] = pc'[t]]
  /\ IsCall(call'[t]) /\ pc'[t] \in Labels
  /\ pc'[t] # "idle" => call'[t].host \in Hosts
  /\ pc'[t] = "load" => call'[t].next \in 1 .. 6

(* The items of the dict as the threads share it. *)
Entry == [host : Hosts, deque : Nat]
IsTable(entries) == entries \in Seq(Entry) /\ OneEach(entries)

LEMMA NoCallIs ==
  DOMAIN NoCall = Fields /\ NoCall.row = 0 /\ NoCall.next = 1 /\ ~NoCall.complete
BY DEF NoCall, Fields

LEMMA CallSteps ==
  ASSUME ThreadsTyped, NEW t \in Threads, NEW host \in Hosts, Call(t, host)
  PROVE  Steps(t)
<1> DEFINE c == [NoCall EXCEPT !.row = calls + 1, !.host = host,
                               !.complete = Artifacts \ Optional \subseteq disk,
                               !.calibrator = "calibrator" \in disk]
<1>1. /\ DOMAIN c = Fields /\ c.row = calls + 1 /\ c.host = host /\ c.next = 1
      /\ c.complete = (Artifacts \ Optional \subseteq disk)
  BY NoCallIs DEF Fields
<1>2. call' = [call EXCEPT ![t] = c]
  BY DEF Call
<1> HIDE DEF c
<1>3. IsCall(c)
  BY <1>1 DEF IsCall, ThreadsTyped
<1>4. pc'[t] \in Labels /\ pc' = [pc EXCEPT ![t] = pc'[t]]
  BY DEF Call, Goto, Labels, ThreadsTyped
<1>5. /\ UNCHANGED scenario /\ calls' = calls + 1
      /\ pc'[t] = "load" => c.next \in 1 .. 6
  BY <1>1 DEF Call
<1>6. DOMAIN call = Threads /\ call'[t] = c
  BY <1>2 DEF ThreadsTyped
<1> QED BY <1>1, <1>2, <1>3, <1>4, <1>5, <1>6 DEF Steps

LEMMA LoadSteps ==
  ASSUME ThreadsTyped, NEW t \in Threads, LoadStep(t)
  PROVE  Steps(t)
<1>1. IsCall(call[t]) /\ pc[t] = "load" /\ call[t].host \in Hosts
  BY DEF ThreadsTyped, LoadStep, LoadNext, PickleMissing, WeightsMissing
<1>2. CASE LoadNext(t)
  <2> DEFINE c == [call[t] EXCEPT !.next = call[t].next + 1]
  <2>1. call' = [call EXCEPT ![t] = c] /\ DOMAIN c = Fields
    BY <1>1, <1>2 DEF LoadNext, IsCall
  <2>2. c.row = call[t].row /\ c.host = call[t].host /\ c.complete = call[t].complete
        /\ c.next = call[t].next + 1
    BY <1>1 DEF IsCall, Fields
  <2> HIDE DEF c
  <2>3. /\ pc'[t] \in {"triage", "load"} /\ pc' = [pc EXCEPT ![t] = pc'[t]]
        /\ pc'[t] = "load" => Wanted(t) # "calibrator"
        /\ DOMAIN pc = Threads
    BY <1>2 DEF LoadNext, Goto, ThreadsTyped, Threads
  <2>4. /\ call[t].next \in 1 .. 6
        /\ Wanted(t) # "calibrator" => call[t].next # 6
    BY <1>1 DEF ThreadsTyped, Wanted, LoadOrder
  <2>5. IsCall(c) /\ (pc'[t] = "load" => c.next \in 1 .. 6)
    BY <1>1, <2>1, <2>2, <2>3, <2>4 DEF IsCall
  <2>6. UNCHANGED <<scenario, calls>>
    BY <1>2 DEF LoadNext
  <2> QED BY <1>1, <2>1, <2>2, <2>3, <2>5, <2>6 DEF Steps, Labels, ThreadsTyped
<1>3. CASE PickleMissing(t) \/ WeightsMissing(t)
  BY <1>1, <1>3 DEF Steps, PickleMissing, WeightsMissing, Fail, Goto, Labels,
                    ThreadsTyped, Threads
<1> QED BY <1>2, <1>3 DEF LoadStep

LEMMA ScoreSteps ==
  ASSUME ThreadsTyped, NEW t \in Threads, ScoreStep(t) \/ ErrorStep(t)
  PROVE  Steps(t)
<1>1. IsCall(call[t]) /\ DOMAIN pc = Threads /\ DOMAIN call = Threads
  BY DEF ThreadsTyped
<1>2. CASE \E model_used \in {"light", "heavy"} : Triage(t, model_used)
  <2>1. PICK model_used \in {"light", "heavy"} : Triage(t, model_used)
    BY <1>2
  <2> DEFINE c == [call[t] EXCEPT !.calibrated = "calibrator" \in loaded,
                                  !.model_used = model_used]
  <2>2. call' = [call EXCEPT ![t] = c] /\ DOMAIN c = Fields
    BY <1>1, <2>1 DEF Triage, IsCall
  <2>3. /\ c.row = call[t].row /\ c.host = call[t].host /\ c.complete = call[t].complete
        /\ c.next = call[t].next
    BY <1>1 DEF IsCall, Fields
  <2> HIDE DEF c
  <2>4. pc[t] = "triage" /\ pc' = [pc EXCEPT ![t] = "append"] /\ UNCHANGED <<scenario, calls>>
    BY <2>1 DEF Triage, Goto
  <2> QED BY <1>1, <2>2, <2>3, <2>4 DEF Steps, IsCall, Labels, ThreadsTyped
<1>3. CASE AskForHost(t) \/ Admit(t) \/ EvictHost(t) \/ InsertHost(t) \/ Renew(t)
            \/ PushRow(t) \/ OpenWindow(t)
  <2>1. /\ pc[t] \in Labels \ {"idle", "load"} /\ pc'[t] \in Labels \ {"idle", "load"}
        /\ pc' = [pc EXCEPT ![t] = pc'[t]] /\ UNCHANGED <<scenario, calls, call>>
    BY <1>1, <1>3 DEF AskForHost, Admit, EvictHost, InsertHost, Renew, PushRow, OpenWindow,
                      Unshared, Goto, Labels
  <2> QED BY <1>1, <2>1 DEF Steps, ThreadsTyped
<1>4. CASE LookUp(t)
  <2> DEFINE c == [call[t] EXCEPT !.deque = DequeOf(data, call[t].host)]
  <2>1. call' = [call EXCEPT ![t] = c] /\ DOMAIN c = Fields
    BY <1>1, <1>4 DEF LookUp, IsCall
  <2>2. /\ c.row = call[t].row /\ c.host = call[t].host /\ c.complete = call[t].complete
        /\ c.next = call[t].next
    BY <1>1 DEF IsCall, Fields
  <2> HIDE DEF c
  <2>3. /\ pc[t] \in {"lookup", "take"} /\ pc'[t] \in {"push", "read"}
        /\ pc' = [pc EXCEPT ![t] = pc'[t]] /\ UNCHANGED <<scenario, calls>>
    BY <1>1, <1>4 DEF LookUp, Unshared, Goto
  <2> QED BY <1>1, <2>1, <2>2, <2>3 DEF Steps, IsCall, Labels, ThreadsTyped
<1>5. CASE ReadRows(t)
  <2> DEFINE c == [call[t] EXCEPT !.sequence = Padded(deques[call[t].deque])]
  <2>1. call' = [call EXCEPT ![t] = c] /\ DOMAIN c = Fields
    BY <1>1, <1>5 DEF ReadRows, IsCall
  <2>2. /\ c.row = call[t].row /\ c.host = call[t].host /\ c.complete = call[t].complete
        /\ c.next = call[t].next
    BY <1>1 DEF IsCall, Fields
  <2> HIDE DEF c
  <2>3. pc[t] = "read" /\ pc' = [pc EXCEPT ![t] = "verify"] /\ UNCHANGED <<scenario, calls>>
    BY <1>5 DEF ReadRows, Unshared, Goto
  <2> QED BY <1>1, <2>1, <2>2, <2>3 DEF Steps, IsCall, Labels, ThreadsTyped
<1>6. CASE Verify(t) \/ Explain(t)
  BY <1>1, <1>6 DEF Verify, Explain, Goto, Steps, Labels, ThreadsTyped
<1>7. CASE ErrorStep(t)
  BY <1>1, <1>7 DEF ErrorStep, GlobalIsNone, HostEvicted, Fail, Goto, Steps, Labels,
                    ThreadsTyped
<1> QED BY <1>2, <1>3, <1>4, <1>5, <1>6, <1>7 DEF ScoreStep, AppendStep, WindowStep

LEMMA InitTyped == Init => ThreadsTyped
<1> SUFFICES ASSUME Init PROVE ThreadsTyped
  OBVIOUS
<1>1. IsCall(NoCall)
  <2>1. NoCall.complete \in BOOLEAN
    BY DEF NoCall
  <2> QED BY <2>1, NoCallIs DEF IsCall
<1>2. \A t \in Threads : call[t] = NoCall /\ pc[t] = "idle"
  BY DEF Init, Threads
<1>3. calls \in Nat /\ DOMAIN call = Threads /\ pc \in [Threads -> Labels]
  BY DEF Init, Threads, Labels
<1> QED BY <1>1, <1>2, <1>3 DEF ThreadsTyped

(* The steps that are none on the history. *)
Aside(t) ==
  /\ UNCHANGED history
  /\ pc'[t] \notin {"push", "read"}
  /\ pc'[t] = "insert" => pc[t] = "admit" /\ Len(data) < max_hosts
  /\ pc[t] # "insert"

LEMMA StepKinds ==
  ASSUME ThreadsTyped, NEW t \in Threads, IsTable(data),
         (\E host \in Hosts : Call(t, host)) \/ LoadStep(t) \/ ScoreStep(t) \/ ErrorStep(t)
  PROVE  Aside(t) \/ Renew(t) \/ EvictHost(t) \/ InsertHost(t) \/ LookUp(t) \/ PushRow(t)
<1>1. DOMAIN pc = Threads
  BY DEF ThreadsTyped
<1>2. ASSUME NEW host, Call(t, host) PROVE Aside(t)
  BY <1>1, <1>2 DEF Call, Goto, Aside
<1>3. CASE LoadStep(t)
  BY <1>1, <1>3 DEF LoadStep, LoadNext, PickleMissing, WeightsMissing, Fail, Goto, Aside
<1>4. CASE ErrorStep(t)
  <2>1. pc[t] # "insert"
    BY <1>4 DEF ErrorStep, GlobalIsNone, Needs, HostEvicted
  <2> QED BY <1>1, <1>4, <2>1 DEF ErrorStep, GlobalIsNone, HostEvicted, Fail, Goto, Aside
<1>5. ASSUME NEW model_used, Triage(t, model_used) PROVE Aside(t)
  BY <1>1, <1>5 DEF Triage, Goto, Aside
<1>6. CASE Admit(t)
  <2>1. ~(Len(data) >= max_hosts) => Len(data) < max_hosts
    BY HostHistoryAssumption DEF IsTable
  <2> QED BY <1>1, <1>6, <2>1 DEF Admit, Goto, Aside
<1>7. CASE AskForHost(t) \/ OpenWindow(t) \/ ReadRows(t) \/ Verify(t) \/ Explain(t)
  BY <1>1, <1>7 DEF AskForHost, OpenWindow, ReadRows, Verify, Explain, Goto, Aside
<1> QED BY <1>2, <1>3, <1>4, <1>5, <1>6, <1>7 DEF ScoreStep, AppendStep, WindowStep

(* Every step is one of a thread, or leaves all threads where they are.     *)
LEMMA ThreadsMove ==
  ASSUME ThreadsTyped, [Next]_vars
  PROVE  /\ ThreadsTyped'
         /\ \/ \E t \in Threads : Steps(t)
            \/ UNCHANGED <<scenario, history, pc, call, returned, failed>>
<1>1. ASSUME NEW t \in Threads, Steps(t) PROVE ThreadsTyped'
  <2>1. Threads' = Threads
    BY <1>1 DEF Steps, Threads
  <2>2. calls' \in Nat
    BY <1>1 DEF Steps, ThreadsTyped
  <2>3. ASSUME NEW u \in Threads
        PROVE  /\ IsCall(call'[u]) /\ pc'[u] \in Labels
               /\ pc'[u] # "idle" => call'[u].host \in Hosts
               /\ pc'[u] = "load" => call'[u].next \in 1 .. 6
    BY <1>1 DEF Steps, ThreadsTyped
  <2>4. DOMAIN call' = Threads
    BY <1>1 DEF Steps, ThreadsTyped
  <2>5. pc' \in [Threads -> Labels]
    BY <1>1, <2>3 DEF Steps, ThreadsTyped
  <2> QED BY <2>1, <2>2, <2>3, <2>4, <2>5 DEF ThreadsTyped
<1>2. CASE \E t \in Threads : Steps(t)
  BY <1>1, <1>2
<1>3. CASE \E artifact \in Artifacts \ disk : Install(artifact)
  BY <1>3 DEF Install, ThreadsTyped, Threads
<1>4. CASE UNCHANGED vars
  BY <1>4 DEF vars, ThreadsTyped, Threads
<1> QED BY <1>2, <1>3, <1>4, CallSteps, LoadSteps, ScoreSteps DEF Next

------------------------------------------------------------------------------
(* Any number of callers: whose rows are in a deque, and in which order     *)

(* The rows were pushed for this host, one after the other.                 *)
InOrder(rows, host, pushes) ==
  \E at \in [1 .. Len(rows) -> PushesIn(pushes, host)] :
    /\ \A n \in 1 .. Len(rows) : rows[n] = pushes[at[n]].row
    /\ \A n \in 1 .. Len(rows) - 1 : at[n] < at[n + 1]

(* The same of a sequence, whose first row may be repeated in front.        *)
Shown(sequence, host, pushes) ==
  \E at \in [1 .. seq_len -> PushesIn(pushes, host)] :
    /\ \A n \in 1 .. seq_len : sequence[n] = pushes[at[n]].row
    /\ \A n \in 1 .. seq_len - 1 :
         at[n] < at[n + 1] \/ (at[n] = at[1] /\ at[n + 1] = at[1])

LEMMA OrderStays ==
  ASSUME NEW pushes \in Seq(Pushed), NEW p \in Pushed, NEW host
  PROVE  /\ \A rows : InOrder(rows, host, pushes) => InOrder(rows, host, Append(pushes, p))
         /\ \A seq : Shown(seq, host, pushes) => Shown(seq, host, Append(pushes, p))
<1> DEFINE all == Append(pushes, p)
<1>1. /\ PushesIn(pushes, host) \subseteq PushesIn(all, host)
      /\ \A k \in PushesIn(pushes, host) : all[k] = pushes[k]
  <2>1. PushesIn(pushes, host) \subseteq 1 .. Len(pushes)
    BY PushesGrow
  <2>2. \A k \in 1 .. Len(pushes) : all[k] = pushes[k]
    BY PushesGrow
  <2>3. PushesIn(pushes, host) \subseteq PushesIn(all, host)
    BY PushesGrow
  <2> QED BY <2>1, <2>2, <2>3
<1> HIDE DEF all
<1>2. ASSUME NEW rows, InOrder(rows, host, pushes) PROVE InOrder(rows, host, all)
  <2>1. PICK at \in [1 .. Len(rows) -> PushesIn(pushes, host)] :
          /\ \A n \in 1 .. Len(rows) : rows[n] = pushes[at[n]].row
          /\ \A n \in 1 .. Len(rows) - 1 : at[n] < at[n + 1]
    BY <1>2 DEF InOrder
  <2>2. /\ at \in [1 .. Len(rows) -> PushesIn(all, host)]
        /\ \A n \in 1 .. Len(rows) : rows[n] = all[at[n]].row
    BY <1>1, <2>1
  <2> QED BY <2>1, <2>2 DEF InOrder
<1>3. ASSUME NEW seq, Shown(seq, host, pushes) PROVE Shown(seq, host, all)
  <2>1. PICK at \in [1 .. seq_len -> PushesIn(pushes, host)] :
          /\ \A n \in 1 .. seq_len : seq[n] = pushes[at[n]].row
          /\ \A n \in 1 .. seq_len - 1 :
               at[n] < at[n + 1] \/ (at[n] = at[1] /\ at[n + 1] = at[1])
    BY <1>3 DEF Shown
  <2>2. /\ at \in [1 .. seq_len -> PushesIn(all, host)]
        /\ \A n \in 1 .. seq_len : seq[n] = all[at[n]].row
    BY <1>1, <2>1
  <2> QED BY <2>1, <2>2 DEF Shown
<1> QED BY <1>2, <1>3 DEF all

(* A row is pushed to a deque of its host; a full deque drops its first.    *)
LEMMA OrderGrows ==
  ASSUME NEW pushes \in Seq(Pushed), NEW p \in Pushed, NEW rows \in Seq(Nat),
         Len(rows) <= seq_len, InOrder(rows, p.host, pushes)
  PROVE  InOrder(Capped(Append(rows, p.row)), p.host, Append(pushes, p))
<1> DEFINE all == Append(pushes, p)
           long == Append(rows, p.row)
<1>1. PICK n \in Nat : n = Len(rows)
  OBVIOUS
<1>2. seq_len \in Nat /\ seq_len > 0 /\ p.row \in Nat
  BY HostHistoryAssumption DEF Pushed
<1>3. PICK k \in Nat : k = Len(pushes)
  OBVIOUS
<1>4. /\ \A i \in 1 .. k : all[i] = pushes[i]
      /\ all[k + 1] = p
      /\ PushesIn(pushes, p.host) \subseteq 1 .. k
      /\ PushesIn(all, p.host) = PushesIn(pushes, p.host) \cup {k + 1}
  BY <1>3, PushesGrow
<1>5. /\ long \in Seq(Nat) /\ Len(long) = n + 1 /\ long[n + 1] = p.row
      /\ \A i \in 1 .. n : long[i] = rows[i]
  BY <1>1, <1>2, AppendProperties
<1> HIDE DEF all, long
<1>6. PICK at \in [1 .. n -> PushesIn(pushes, p.host)] :
        /\ \A i \in 1 .. n : rows[i] = pushes[at[i]].row
        /\ \A i \in 1 .. n - 1 : at[i] < at[i + 1]
  BY <1>1 DEF InOrder
<1> DEFINE to == [i \in 1 .. n + 1 |-> IF i <= n THEN at[i] ELSE k + 1]
<1>7. /\ \A i \in 1 .. n + 1 : to[i] \in PushesIn(all, p.host) /\ long[i] = all[to[i]].row
      /\ \A i \in 1 .. n : to[i] \in Nat /\ to[i + 1] \in Nat /\ to[i] < to[i + 1]
  <2>1. ASSUME NEW i \in 1 .. n
        PROVE  /\ i \in 1 .. n + 1 /\ to[i] = at[i] /\ at[i] \in PushesIn(pushes, p.host)
               /\ at[i] \in 1 .. k
    BY <1>4, <1>6
  <2>2. n + 1 \in 1 .. n + 1 /\ to[n + 1] = k + 1
    OBVIOUS
  <2>3. \A i \in 1 .. n + 1 : i \in 1 .. n \/ i = n + 1
    OBVIOUS
  <2>4. \A i \in 1 .. n : i \in 1 .. n - 1 \/ i = n
    OBVIOUS
  <2> HIDE DEF to
  <2>5. ASSUME NEW i \in 1 .. n + 1
        PROVE  to[i] \in PushesIn(all, p.host) /\ long[i] = all[to[i]].row
    <3>1. CASE i \in 1 .. n
      <4>1. to[i] = at[i] /\ at[i] \in PushesIn(pushes, p.host) /\ at[i] \in 1 .. k
        BY <2>1, <3>1
      <4>2. long[i] = pushes[at[i]].row
        BY <1>5, <1>6, <3>1
      <4> QED BY <1>4, <4>1, <4>2
    <3>2. CASE i = n + 1
      BY <1>4, <1>5, <2>2, <3>2
    <3> QED BY <2>3, <3>1, <3>2
  <2>6. ASSUME NEW i \in 1 .. n
        PROVE  to[i] \in Nat /\ to[i + 1] \in Nat /\ to[i] < to[i + 1]
    <3>1. CASE i \in 1 .. n - 1
      <4>1. i + 1 \in 1 .. n
        BY <3>1
      <4> QED BY <1>6, <2>1, <3>1, <4>1
    <3>2. CASE i = n
      BY <2>1, <2>2, <3>2
    <3> QED BY <2>4, <3>1, <3>2
  <2> QED BY <2>5, <2>6
<1> HIDE DEF to
<1>8. CASE n < seq_len
  <2>1. Capped(long) = long
    BY <1>2, <1>5, <1>8 DEF Capped
  <2> DEFINE by == [i \in 1 .. n + 1 |-> to[i]]
  <2>2. by \in [1 .. n + 1 -> PushesIn(all, p.host)]
    BY <1>7
  <2>3. \A i \in 1 .. n + 1 : long[i] = all[by[i]].row
    BY <1>7
  <2>4. \A i \in 1 .. n : by[i] < by[i + 1]
    BY <1>7
  <2> HIDE DEF by
  <2>5. InOrder(long, p.host, all)
    <3>1. (n + 1) - 1 = n
      OBVIOUS
    <3> QED BY <1>5, <2>2, <2>3, <2>4, <3>1 DEF InOrder
  <2> QED BY <2>1, <2>5 DEF long, all
<1>9. CASE ~(n < seq_len)
  <2>1. n = seq_len
    BY <1>1, <1>2, <1>9
  <2>2. Capped(long) = SubSeq(long, 2, n + 1)
    BY <1>2, <1>5, <2>1 DEF Capped
  <2> DEFINE new == SubSeq(long, 2, n + 1)
             by == [i \in 1 .. n |-> to[i + 1]]
  <2>3. Len(new) = n /\ \A i \in 1 .. n : new[i] = long[i + 1]
    <3>1. \A i \in 2 .. n + 1 : long[i] \in Nat
      BY <1>5
    <3>2. /\ Len(new) = IF 2 <= n + 1 THEN (n + 1) - 2 + 1 ELSE 0
          /\ \A i \in 1 .. (n + 1) - 2 + 1 : new[i] = long[2 + i - 1]
      BY <3>1, SubSeqProperties
    <3>3. (n + 1) - 2 + 1 = n /\ 2 <= n + 1
      BY <1>2, <2>1
    <3>4. \A i \in 1 .. n : 2 + i - 1 = i + 1
      OBVIOUS
    <3> HIDE DEF new
    <3> QED BY <3>2, <3>3, <3>4
  <2> HIDE DEF new
  <2>4. \A i \in 1 .. n : i + 1 \in 1 .. n + 1
    OBVIOUS
  <2>5. by \in [1 .. n -> PushesIn(all, p.host)]
    BY <1>7, <2>4
  <2>6. \A i \in 1 .. n : new[i] = all[by[i]].row
    BY <1>7, <2>3, <2>4
  <2>7. \A i \in 1 .. n - 1 : by[i] < by[i + 1]
    <3>1. \A i \in 1 .. n - 1 : i \in 1 .. n /\ i + 1 \in 1 .. n
      OBVIOUS
    <3> QED BY <1>7, <3>1
  <2> HIDE DEF by
  <2>8. InOrder(new, p.host, all)
    BY <2>3, <2>5, <2>6, <2>7 DEF InOrder
  <2> QED BY <2>2, <2>8 DEF new, long, all
<1> QED BY <1>8, <1>9

LEMMA PaddedShown ==
  ASSUME NEW pushes \in Seq(Pushed), NEW host, NEW rows \in Seq(Nat), rows # <<>>,
         Len(rows) <= seq_len, InOrder(rows, host, pushes)
  PROVE  Shown(Padded(rows), host, pushes)
<1>1. PICK n \in Nat : n = Len(rows) /\ n > 0
  OBVIOUS
<1>2. PICK d \in Nat : d + n = seq_len /\ d = seq_len - n
  <2>1. seq_len - n \in Nat /\ (seq_len - n) + n = seq_len
    BY <1>1, HostHistoryAssumption
  <2> QED BY <2>1
<1>3. PICK at \in [1 .. n -> PushesIn(pushes, host)] :
        /\ \A i \in 1 .. n : rows[i] = pushes[at[i]].row
        /\ \A i \in 1 .. n - 1 : at[i] < at[i + 1]
  BY <1>1 DEF InOrder
<1> DEFINE from(i) == IF i <= d THEN 1 ELSE i - d
           by == [i \in 1 .. seq_len |-> at[from(i)]]
<1>4. ASSUME NEW i \in 1 .. seq_len PROVE from(i) \in 1 .. n
  <2>1. i \in Nat /\ 1 <= i /\ i <= d + n
    BY <1>2, HostHistoryAssumption
  <2>2. CASE i <= d
    BY <1>1, <2>2
  <2>3. CASE ~(i <= d)
    <3>1. i - d \in 1 .. n
      BY <2>1, <2>3
    <3> QED BY <2>3, <3>1
  <2> QED BY <2>2, <2>3
<1>5. Padded(rows) = [i \in 1 .. seq_len |-> rows[from(i)]]
  BY <1>1, <1>2 DEF Padded
<1>6. ASSUME NEW i \in 1 .. seq_len - 1
      PROVE  /\ i \in 1 .. seq_len /\ i + 1 \in 1 .. seq_len
             /\ \/ from(i) \in 1 .. n - 1 /\ from(i + 1) = from(i) + 1
                \/ from(i) = 1 /\ from(i + 1) = 1
  <2>1. /\ i \in Nat /\ 1 <= i /\ i + 1 <= d + n
        /\ i \in 1 .. seq_len /\ i + 1 \in 1 .. seq_len
    BY <1>2, HostHistoryAssumption
  <2>2. CASE i + 1 <= d
    BY <2>1, <2>2
  <2>3. CASE i = d
    <3>1. from(i) = 1 /\ from(i + 1) = 1
      BY <2>1, <2>3
    <3> QED BY <2>1, <3>1
  <2>4. CASE d < i
    <3>1. from(i) = i - d /\ from(i + 1) = (i + 1) - d
      BY <2>1, <2>4
    <3>2. i - d \in 1 .. n - 1 /\ (i + 1) - d = (i - d) + 1
      BY <2>1, <2>4
    <3> HIDE DEF from
    <3> QED BY <2>1, <3>1, <3>2
  <2>5. i + 1 <= d \/ i = d \/ d < i
    BY <2>1
  <2> QED BY <2>2, <2>3, <2>4, <2>5
<1>7. 1 \in 1 .. seq_len /\ from(1) = 1
  BY <1>1, <1>2
<1> HIDE DEF from
<1>8. by \in [1 .. seq_len -> PushesIn(pushes, host)]
  BY <1>3, <1>4
<1>9. \A i \in 1 .. seq_len : Padded(rows)[i] = pushes[by[i]].row
  BY <1>3, <1>4, <1>5
<1>10. \A i \in 1 .. seq_len - 1 : by[i] < by[i + 1] \/ (by[i] = by[1] /\ by[i + 1] = by[1])
  BY <1>3, <1>6, <1>7
<1> HIDE DEF by
<1> QED BY <1>8, <1>9, <1>10 DEF Shown

LEMMA TableMoved ==
  ASSUME NEW entries, IsTable(entries), NEW host, Holds(entries, host)
  PROVE  LET new == MoveToEnd(entries, host)
         IN  /\ IsTable(new) /\ Len(new) = Len(entries)
             /\ \A i \in DOMAIN new : \E j \in DOMAIN entries : new[i] = entries[j]
<1>1. PICK p \in DOMAIN entries : entries[p].host = host
  BY DEF Holds
<1>2. PICK n \in Nat : n = Len(entries) /\ DOMAIN entries = 1 .. n /\ p \in 1 .. n
  BY DEF IsTable
<1> DEFINE new == MoveToEnd(entries, host)
<1>3. /\ new \in Seq(Entry) /\ Len(new) = n
      /\ \A i \in 1 .. p - 1 : new[i] = entries[i]
      /\ \A i \in p .. n - 1 : new[i] = entries[i + 1]
      /\ new[n] = entries[p]
  BY <1>1, <1>2, MovedItems DEF IsTable
<1> HIDE DEF new
<1> DEFINE from(i) == IF i < p THEN i ELSE IF i < n THEN i + 1 ELSE p
<1>4. \A i \in 1 .. n : from(i) \in 1 .. n /\ new[i] = entries[from(i)]
  BY <1>2, <1>3
<1>5. ASSUME NEW i \in 1 .. n, NEW j \in 1 .. n, from(i) = from(j) PROVE i = j
  <2>1. ASSUME NEW k \in 1 .. n
        PROVE  \/ k < p /\ from(k) = k
               \/ p <= k /\ k < n /\ from(k) = k + 1
               \/ k = n /\ from(k) = p
    <3>1. k < p => from(k) = k
      OBVIOUS
    <3>2. ~(k < p) /\ k < n => from(k) = k + 1
      OBVIOUS
    <3>3. ~(k < p) /\ ~(k < n) => from(k) = p
      OBVIOUS
    <3> HIDE DEF from
    <3> QED BY <1>2, <3>1, <3>2, <3>3
  <2> HIDE DEF from
  <2> QED BY <1>2, <1>5, <2>1
<1>6. DOMAIN new = 1 .. n
  BY <1>3
<1> HIDE DEF from
<1>7. OneEach(new)
  <2> SUFFICES ASSUME NEW i \in 1 .. n, NEW j \in 1 .. n, new[i].host = new[j].host
               PROVE  i = j
    BY <1>6 DEF OneEach
  <2>1. entries[from(i)].host = entries[from(j)].host /\ from(i) \in 1 .. n /\ from(j) \in 1 .. n
    BY <1>4
  <2>2. from(i) = from(j)
    BY <1>2, <2>1 DEF OneEach, IsTable
  <2> QED BY <1>5, <2>2
<1> QED BY <1>2, <1>3, <1>4, <1>6, <1>7 DEF IsTable, new

LEMMA TableTail ==
  ASSUME NEW entries, IsTable(entries), entries # <<>>
  PROVE  /\ IsTable(Tail(entries)) /\ Len(Tail(entries)) = Len(entries) - 1
         /\ \A i \in DOMAIN Tail(entries) : i + 1 \in DOMAIN entries /\ Tail(entries)[i] = entries[i + 1]
<1> DEFINE new == Tail(entries)
<1>1. PICK n \in Nat : n = Len(entries) /\ DOMAIN entries = 1 .. n /\ n > 0
  BY DEF IsTable
<1>2. new \in Seq(Entry) /\ Len(new) = n - 1 /\ \A i \in 1 .. n - 1 : new[i] = entries[i + 1]
  BY <1>1, HeadTailProperties DEF IsTable
<1> HIDE DEF new
<1>3. DOMAIN new = 1 .. n - 1 /\ \A i \in 1 .. n - 1 : i + 1 \in 1 .. n
  BY <1>1, <1>2
<1>4. OneEach(new)
  <2> SUFFICES ASSUME NEW i \in 1 .. n - 1, NEW j \in 1 .. n - 1, new[i].host = new[j].host
               PROVE  i = j
    BY <1>3 DEF OneEach
  <2>1. i + 1 \in DOMAIN entries /\ j + 1 \in DOMAIN entries
        /\ entries[i + 1].host = entries[j + 1].host
    BY <1>1, <1>2, <1>3
  <2>2. i + 1 = j + 1
    BY <2>1 DEF IsTable, OneEach
  <2> QED BY <2>2
<1> QED BY <1>1, <1>2, <1>3, <1>4 DEF IsTable, new

LEMMA TableInserted ==
  ASSUME NEW entries, IsTable(entries), NEW host \in Hosts, NEW deque \in Nat
  PROVE  LET new == Insert(entries, host, deque)
         IN  /\ IsTable(new) /\ Len(new) \in {Len(entries), Len(entries) + 1}
             /\ ~Holds(entries, host) => new = Append(entries, [host |-> host, deque |-> deque])
             /\ \A i \in DOMAIN new : \/ new[i] = [host |-> host, deque |-> deque]
                                      \/ \E j \in DOMAIN entries : new[i] = entries[j]
<1> DEFINE new == Insert(entries, host, deque)
           entry == [host |-> host, deque |-> deque]
<1>1. PICK n \in Nat : n = Len(entries) /\ DOMAIN entries = 1 .. n
  BY DEF IsTable
<1>2. entry \in Entry /\ entry.host = host
  BY DEF Entry
<1>3. \A i \in 1 .. n : entries[i] \in Entry
  BY <1>1 DEF IsTable
<1>4. CASE Holds(entries, host)
  <2>1. new = [i \in 1 .. n |-> IF entries[i].host = host THEN entry ELSE entries[i]]
    BY <1>1, <1>4 DEF Insert
  <2> HIDE DEF new, entry
  <2>2. new \in [1 .. n -> Entry]
    BY <1>2, <1>3, <2>1
  <2>3. new \in Seq(Entry) /\ Len(new) = n /\ DOMAIN new = 1 .. n
    BY <2>2
  <2>4. \A i \in 1 .. n : new[i].host = entries[i].host
    BY <1>2, <2>1
  <2>5. OneEach(new)
    BY <1>1, <2>3, <2>4 DEF OneEach, IsTable
  <2> QED BY <1>1, <1>4, <2>1, <2>3, <2>5 DEF IsTable, new, entry
<1>5. CASE ~Holds(entries, host)
  <2>1. new = Append(entries, entry)
    BY <1>5 DEF Insert
  <2> HIDE DEF new, entry
  <2>2. /\ new \in Seq(Entry) /\ Len(new) = n + 1 /\ DOMAIN new = 1 .. n + 1
        /\ new[n + 1] = entry /\ \A i \in 1 .. n : new[i] = entries[i]
    BY <1>1, <1>2, <2>1, AppendProperties DEF IsTable
  <2>3. \A i \in 1 .. n : entries[i].host # host
    BY <1>1, <1>5 DEF Holds
  <2>4. \A i \in 1 .. n + 1 : i \in 1 .. n \/ i = n + 1
    OBVIOUS
  <2>5. OneEach(new)
    BY <1>1, <1>2, <2>2, <2>3, <2>4 DEF OneEach, IsTable
  <2> QED BY <1>1, <2>1, <2>2, <2>4, <2>5 DEF IsTable, new, entry
<1> QED BY <1>4, <1>5

LEMMA DequeIs ==
  ASSUME NEW entries, IsTable(entries)
  PROVE  \A p \in DOMAIN entries : DequeOf(entries, entries[p].host) = entries[p].deque
<1> SUFFICES ASSUME NEW p \in DOMAIN entries
             PROVE  DequeOf(entries, entries[p].host) = entries[p].deque
  OBVIOUS
<1> DEFINE all == { entries[i] : i \in DOMAIN entries }
<1>1. \A item \in all : item.host = entries[p].host => item = entries[p]
  BY DEF IsTable, OneEach
<1>2. (CHOOSE item \in all : item.host = entries[p].host) = entries[p]
  BY <1>1
<1> QED BY <1>2 DEF DequeOf

HeapTyped ==
  /\ ThreadsTyped /\ pushed \in Seq(Pushed) /\ IsTable(data)
  /\ deques \in Seq(Seq(Nat)) /\ \A d \in DOMAIN deques : Len(deques[d]) <= seq_len

(* Every deque belongs to the host it was made for: its rows, the item that *)
(* refers to it and the callers that hold it are that host's.               *)
Owned(owner) ==
  /\ owner \in Seq(Hosts) /\ Len(owner) = Len(deques)
  /\ \A d \in DOMAIN deques : InOrder(deques[d], owner[d], pushed)
  /\ \A i \in DOMAIN data :
       data[i].deque \in DOMAIN deques /\ data[i].host = owner[data[i].deque]
  /\ \A t \in Threads : pc[t] \in {"push", "read"} =>
       call[t].deque \in DOMAIN deques /\ call[t].host = owner[call[t].deque]

HeapInv == HeapTyped /\ \E owner : Owned(owner)

(* Two items have two deques. *)
LEMMA DequesDiffer ==
  ASSUME HeapInv
  PROVE  \A i, j \in DOMAIN data : /\ data[i].deque \in DOMAIN deques
                                   /\ data[i].deque = data[j].deque => i = j
BY DEF HeapInv, HeapTyped, Owned, IsTable, OneEach

LEMMA HeapMoves ==
  ASSUME HeapTyped, NEW owner, Owned(owner), NEW t \in Threads, Steps(t), ThreadsTyped',
         Aside(t) \/ Renew(t) \/ EvictHost(t) \/ InsertHost(t) \/ LookUp(t) \/ PushRow(t)
  PROVE  HeapInv'
<1>1. /\ Threads' = Threads /\ DOMAIN pc = Threads /\ DOMAIN call = Threads
      /\ \A u \in Threads \ {t} : pc'[u] = pc[u] /\ call'[u] = call[u]
      /\ pc[t] # "idle" => call[t].host \in Hosts
      /\ IsCall(call[t])
  BY DEF Steps, Threads, HeapTyped, ThreadsTyped
<1>2. CASE Aside(t)
  <2>1. HeapTyped'
    BY <1>2 DEF Aside, history, HeapTyped
  <2>2. Owned(owner)'
    <3>1. ASSUME NEW u \in Threads', pc'[u] \in {"push", "read"}
          PROVE  call'[u].deque \in DOMAIN deques' /\ call'[u].host = owner[call'[u].deque]
      <4>1. u # t
        BY <1>2, <3>1 DEF Aside
      <4> QED BY <1>1, <1>2, <3>1, <4>1 DEF Owned, Aside, history
    <3> QED BY <1>2, <3>1 DEF Owned, Aside, history
  <2> QED BY <2>1, <2>2 DEF HeapInv
<1>3. CASE Renew(t) \/ EvictHost(t)
  <2>1. /\ IsTable(data') /\ UNCHANGED <<deques, pushed, call>>
        /\ \A i \in DOMAIN data' : \E j \in DOMAIN data : data'[i] = data[j]
    <3>1. CASE Renew(t)
      BY <3>1, TableMoved DEF Renew, HeapTyped
    <3>2. CASE EvictHost(t)
      BY <3>2, TableTail DEF EvictHost, HeapTyped
    <3> QED BY <1>3, <3>1, <3>2
  <2>2. pc'[t] \notin {"push", "read"}
    BY <1>1, <1>3 DEF Renew, EvictHost, Goto
  <2>3. HeapTyped'
    BY <2>1 DEF HeapTyped
  <2>4. Owned(owner)'
    <3>1. ASSUME NEW i \in DOMAIN data'
          PROVE  data'[i].deque \in DOMAIN deques' /\ data'[i].host = owner[data'[i].deque]
      BY <2>1, <3>1 DEF Owned
    <3>2. ASSUME NEW u \in Threads', pc'[u] \in {"push", "read"}
          PROVE  call'[u].deque \in DOMAIN deques' /\ call'[u].host = owner[call'[u].deque]
      BY <1>1, <2>1, <2>2, <3>2 DEF Owned
    <3> QED BY <2>1, <3>1, <3>2 DEF Owned
  <2> QED BY <2>3, <2>4 DEF HeapInv
<1>4. CASE InsertHost(t)
  <2> DEFINE host == call[t].host
  <2>1. PICK n \in Nat : n = Len(deques) /\ n = Len(owner) /\ DOMAIN deques = 1 .. n
    BY DEF HeapTyped, Owned
  <2>2. host \in Hosts
    BY <1>1, <1>4 DEF InsertHost
  <2>3. /\ deques' \in Seq(Seq(Nat)) /\ Len(deques') = n + 1 /\ DOMAIN deques' = 1 .. n + 1
        /\ deques'[n + 1] = <<>> /\ \A d \in 1 .. n : deques'[d] = deques[d]
    <3>1. <<>> \in Seq(Nat) /\ deques' = Append(deques, <<>>)
      BY <1>4 DEF InsertHost
    <3> QED BY <2>1, <3>1, AppendProperties DEF HeapTyped
  <2>4. PICK all :
        /\ all \in Seq(Hosts) /\ Len(all) = n + 1 /\ all[n + 1] = host
        /\ \A d \in 1 .. n : all[d] = owner[d]
    <3>1. owner \in Seq(Hosts)
      BY DEF Owned
    <3>2. /\ Append(owner, host) \in Seq(Hosts) /\ Len(Append(owner, host)) = n + 1
          /\ Append(owner, host)[n + 1] = host
          /\ \A d \in 1 .. n : Append(owner, host)[d] = owner[d]
      BY <2>1, <2>2, <3>1, AppendProperties
    <3> QED BY <3>2
  <2>5. /\ data' = Insert(data, host, n + 1) /\ pc'[t] = "lookup"
        /\ UNCHANGED <<pushed, call>>
    BY <1>1, <1>4, <2>3 DEF InsertHost, Goto
  <2>6. /\ IsTable(data')
        /\ \A i \in DOMAIN data' : \/ data'[i] = [host |-> host, deque |-> n + 1]
                                   \/ \E j \in DOMAIN data : data'[i] = data[j]
    <3>1. n + 1 \in Nat /\ IsTable(data)
      BY DEF HeapTyped
    <3> HIDE DEF host
    <3> QED BY <2>2, <2>5, <3>1, TableInserted
  <2>7. \A d \in 1 .. n + 1 : d \in 1 .. n \/ d = n + 1
    OBVIOUS
  <2>8. HeapTyped'
    <3>1. Len(<<>>) <= seq_len
      BY HostHistoryAssumption
    <3> QED BY <2>1, <2>3, <2>5, <2>6, <2>7, <3>1 DEF HeapTyped
  <2>9. Owned(all)'
    <3>1. ASSUME NEW d \in DOMAIN deques' PROVE InOrder(deques'[d], all[d], pushed')
      <4>1. CASE d \in 1 .. n
        BY <2>1, <2>3, <2>4, <2>5, <4>1 DEF Owned
      <4>2. CASE d = n + 1
        <5>1. InOrder(<<>>, host, pushed)
          <6>1. <<>> \in [1 .. 0 -> PushesIn(pushed, host)] /\ Len(<<>>) = 0
            OBVIOUS
          <6>2. 1 .. 0 = {} /\ 1 .. 0 - 1 = {}
            OBVIOUS
          <6> QED BY <6>1, <6>2 DEF InOrder
        <5> QED BY <2>3, <2>4, <2>5, <4>2, <5>1
      <4> QED BY <2>3, <2>7, <4>1, <4>2
    <3>2. ASSUME NEW i \in DOMAIN data'
          PROVE  data'[i].deque \in DOMAIN deques' /\ data'[i].host = all[data'[i].deque]
      <4>1. CASE data'[i] = [host |-> host, deque |-> n + 1]
        BY <2>3, <2>4, <4>1
      <4>2. CASE \E j \in DOMAIN data : data'[i] = data[j]
        <5>1. PICK j \in DOMAIN data : data'[i] = data[j]
          BY <4>2
        <5>2. data[j].deque \in 1 .. n /\ data[j].host = owner[data[j].deque]
          BY <2>1 DEF Owned
        <5> QED BY <2>3, <2>4, <5>1, <5>2
      <4> QED BY <2>6, <4>1, <4>2
    <3>3. ASSUME NEW u \in Threads', pc'[u] \in {"push", "read"}
          PROVE  call'[u].deque \in DOMAIN deques' /\ call'[u].host = all[call'[u].deque]
      <4>1. u \in Threads \ {t}
        BY <1>1, <2>5, <3>3
      <4>2. call[u].deque \in 1 .. n /\ call[u].host = owner[call[u].deque]
        BY <1>1, <2>1, <3>3, <4>1 DEF Owned
      <4>3. call'[u] = call[u]
        BY <1>1, <4>1
      <4>4. all[call[u].deque] = owner[call[u].deque] /\ call[u].deque \in DOMAIN deques'
        BY <2>3, <2>4, <4>2
      <4> QED BY <4>2, <4>3, <4>4
    <3> QED BY <2>3, <2>4, <3>1, <3>2, <3>3 DEF Owned
  <2> QED BY <2>8, <2>9 DEF HeapInv
<1>5. CASE LookUp(t)
  <2>1. PICK p \in DOMAIN data : data[p].host = call[t].host
    BY <1>5 DEF LookUp, Holds
  <2> DEFINE c == [call[t] EXCEPT !.deque = DequeOf(data, call[t].host)]
  <2>2. c.deque = data[p].deque /\ c.host = call[t].host
    BY <1>1, <2>1, DequeIs DEF HeapTyped, IsCall, Fields
  <2>3. call'[t] = c /\ UNCHANGED history
    BY <1>1, <1>5 DEF LookUp
  <2> HIDE DEF c
  <2>4. HeapTyped'
    BY <2>3 DEF HeapTyped, history
  <2>5. ASSUME NEW u \in Threads', pc'[u] \in {"push", "read"}
        PROVE  call'[u].deque \in DOMAIN deques /\ call'[u].host = owner[call'[u].deque]
    <3>1. CASE u = t
      BY <2>1, <2>2, <2>3, <3>1 DEF Owned
    <3>2. CASE u # t
      BY <1>1, <2>5, <3>2 DEF Owned
    <3> QED BY <3>1, <3>2
  <2>6. Owned(owner)'
    BY <2>3, <2>5 DEF Owned, history
  <2> QED BY <2>4, <2>6 DEF HeapInv
<1>6. CASE PushRow(t)
  <2> DEFINE p == [host |-> call[t].host, row |-> call[t].row]
             d0 == call[t].deque
  <2>1. p \in Pushed /\ p.host = call[t].host /\ p.row = call[t].row /\ p.row \in Nat
    BY <1>1, <1>6 DEF PushRow, IsCall, Pushed
  <2>2. /\ pushed' = Append(pushed, p) /\ UNCHANGED <<data, call>>
        /\ deques' = [deques EXCEPT ![d0] = Capped(Append(deques[d0], p.row))]
        /\ pc[t] = "push" /\ pc'[t] \notin {"push", "read"}
    BY <1>1, <1>6 DEF PushRow, Goto
  <2>3. d0 \in DOMAIN deques /\ p.host = owner[d0]
    BY <2>1, <2>2 DEF Owned
  <2> HIDE DEF p, d0
  <2>4. PICK n \in Nat : n = Len(deques) /\ DOMAIN deques = 1 .. n
    BY DEF HeapTyped
  <2>5. \A d \in 1 .. n : deques[d] \in Seq(Nat) /\ Len(deques[d]) <= seq_len
    <3>1. deques \in Seq(Seq(Nat)) /\ \A d \in 1 .. n : Len(deques[d]) <= seq_len
      BY <2>4 DEF HeapTyped
    <3>2. \A d \in 1 .. n : deques[d] \in Seq(Nat)
      BY <2>4, <3>1, ElementOfSeq
    <3> QED BY <3>1, <3>2
  <2>6. /\ Capped(Append(deques[d0], p.row)) \in Seq(Nat)
        /\ Len(Capped(Append(deques[d0], p.row))) <= seq_len
    <3>1. /\ deques[d0] \in Seq(Nat) /\ Len(deques[d0]) <= seq_len /\ p.row \in Nat
          /\ Len(deques[d0]) \in Nat /\ seq_len \in Nat
      BY <2>1, <2>3, <2>4, <2>5, HostHistoryAssumption
    <3>2. /\ Capped(Append(deques[d0], p.row)) \in Seq(Nat)
          /\ Len(Capped(Append(deques[d0], p.row)))
               = IF Len(deques[d0]) < seq_len THEN Len(deques[d0]) + 1 ELSE seq_len
      BY <3>1, CappedRows
    <3> QED BY <3>1, <3>2
  <2>7. /\ DOMAIN deques' = 1 .. n /\ Len(deques') = n /\ deques' \in Seq(Seq(Nat))
        /\ \A d \in 1 .. n :
             deques'[d] = IF d = d0 THEN Capped(Append(deques[d0], p.row)) ELSE deques[d]
    <3>1. /\ deques' \in [1 .. n -> Seq(Nat)]
          /\ \A d \in 1 .. n :
               deques'[d] = IF d = d0 THEN Capped(Append(deques[d0], p.row)) ELSE deques[d]
      BY <2>2, <2>3, <2>4, <2>5, <2>6 DEF HeapTyped
    <3> QED BY <3>1
  <2>8. pushed' \in Seq(Pushed) /\ pushed \in Seq(Pushed)
    BY <2>1, <2>2, AppendProperties DEF HeapTyped
  <2>9. HeapTyped'
    BY <2>2, <2>5, <2>6, <2>7, <2>8 DEF HeapTyped
  <2>10. ASSUME NEW d \in 1 .. n PROVE InOrder(deques'[d], owner[d], pushed')
    <3>1. InOrder(deques[d], owner[d], pushed)
      BY <2>4 DEF Owned
    <3>2. CASE d = d0
      <4>1. InOrder(Capped(Append(deques[d], p.row)), p.host, Append(pushed, p))
        BY <2>1, <2>3, <2>5, <2>8, <3>1, <3>2, OrderGrows
      <4> QED BY <2>2, <2>3, <2>7, <3>2, <4>1
    <3>3. CASE d # d0
      BY <2>1, <2>2, <2>7, <2>8, <3>1, <3>3, OrderStays
    <3> QED BY <3>2, <3>3
  <2>11. ASSUME NEW u \in Threads', pc'[u] \in {"push", "read"}
         PROVE  call'[u].deque \in DOMAIN deques' /\ call'[u].host = owner[call'[u].deque]
    <3>1. u \in Threads /\ pc[u] \in {"push", "read"} /\ call'[u] = call[u]
      BY <1>1, <2>2, <2>11
    <3> QED BY <2>4, <2>7, <3>1 DEF Owned
  <2>12. \A i \in DOMAIN data' :
           data'[i].deque \in DOMAIN deques' /\ data'[i].host = owner[data'[i].deque]
    BY <2>2, <2>4, <2>7 DEF Owned
  <2>13. Owned(owner)'
    BY <2>4, <2>7, <2>10, <2>11, <2>12 DEF Owned
  <2> QED BY <2>9, <2>13 DEF HeapInv
<1> QED BY <1>2, <1>3, <1>4, <1>5, <1>6

LEMMA HeapStep ==
  ASSUME HeapInv, [Next]_vars
  PROVE  HeapInv' /\ (pushed' = pushed \/ \E p \in Pushed : pushed' = Append(pushed, p))
<1>1. ThreadsTyped /\ ThreadsTyped' /\ IsTable(data)
  BY ThreadsMove DEF HeapInv, HeapTyped
<1>2. ASSUME NEW t \in Threads,
             (\E host \in Hosts : Call(t, host)) \/ LoadStep(t) \/ ScoreStep(t) \/ ErrorStep(t)
      PROVE  HeapInv' /\ (pushed' = pushed \/ \E p \in Pushed : pushed' = Append(pushed, p))
  <2>1. Steps(t)
    BY <1>1, <1>2, CallSteps, LoadSteps, ScoreSteps
  <2>2. Aside(t) \/ Renew(t) \/ EvictHost(t) \/ InsertHost(t) \/ LookUp(t) \/ PushRow(t)
    BY <1>1, <1>2, StepKinds
  <2>3. HeapInv'
    BY <1>1, <2>1, <2>2, HeapMoves DEF HeapInv
  <2>4. CASE PushRow(t)
    <3>1. [host |-> call[t].host, row |-> call[t].row] \in Pushed
      BY <1>1, <2>4 DEF PushRow, ThreadsTyped, IsCall, Pushed
    <3> QED BY <2>3, <2>4, <3>1 DEF PushRow
  <2>5. CASE ~PushRow(t)
    BY <2>2, <2>3, <2>5 DEF Aside, Renew, EvictHost, InsertHost, LookUp, history
  <2> QED BY <2>4, <2>5
<1>3. ASSUME UNCHANGED <<scenario, history, pc, call, calls>> PROVE HeapInv'
  BY <1>3 DEF HeapInv, HeapTyped, Owned, history, ThreadsTyped, Threads
<1>4. ASSUME NEW artifact, Install(artifact)
      PROVE  HeapInv' /\ pushed' = pushed
  BY <1>3, <1>4 DEF Install, history
<1>5. CASE UNCHANGED vars
  BY <1>3, <1>5 DEF vars, history
<1> QED BY <1>2, <1>4, <1>5 DEF Next

LEMMA InitHeap == Init => HeapInv
<1> SUFFICES ASSUME Init PROVE HeapInv
  OBVIOUS
<1>1. /\ data = <<>> /\ pushed = <<>> /\ deques = <<>>
      /\ \A t \in Threads : pc[t] = "idle"
  BY DEF Init, Threads
<1>2. HeapTyped
  BY <1>1, InitTyped DEF HeapTyped, IsTable, OneEach
<1>3. Owned(<<>>)
  BY <1>1 DEF Owned
<1> QED BY <1>2, <1>3 DEF HeapInv

LEMMA HeapInvariance == Spec => []HeapInv
<1>1. HeapInv /\ [Next]_vars => HeapInv'
  BY HeapStep
<1> QED BY <1>1, InitHeap, PTL DEF Spec

(* What the heavy model was shown, and will have been when predict returns. *)
OrderInv ==
  /\ HeapInv
  /\ \A t \in Threads : pc[t] \in {"verify", "explain"} /\ call[t].model_used = "heavy" =>
       Shown(call[t].sequence, call[t].host, pushed)
  /\ \A c \in returned : c.model_used = "heavy" => Shown(c.sequence, c.host, pushed)

(* A call reaches the verdict on the heavy route by reading its window.     *)
LEMMA VerdictStep ==
  ASSUME HeapInv, NEW t \in Threads, [Next]_vars,
         pc'[t] \in {"verify", "explain"}, call'[t].model_used = "heavy"
  PROVE  \/ pc[t] \in {"verify", "explain"} /\ call'[t] = call[t]
         \/ /\ ReadRows(t)
            /\ call'[t].host = call[t].host
            /\ call'[t].sequence = Padded(deques[call[t].deque])
            /\ call'[t] = [call[t] EXCEPT !.sequence = Padded(deques[call[t].deque])]
<1>1. DOMAIN pc = Threads /\ DOMAIN call = Threads /\ IsCall(call[t]) /\ ThreadsTyped
  BY DEF HeapInv, HeapTyped, ThreadsTyped
<1>2. CASE UNCHANGED <<pc, call>>
  BY <1>2
<1>3. ASSUME NEW u \in Threads, u # t, Steps(u)
      PROVE  pc'[t] = pc[t] /\ call'[t] = call[t]
  BY <1>1, <1>3 DEF Steps
<1>4. ~\E host : Call(t, host)
  BY <1>1 DEF Call, Goto
<1>5. ~(LoadStep(t) \/ ErrorStep(t))
  BY <1>1 DEF LoadStep, LoadNext, PickleMissing, WeightsMissing, ErrorStep,
              GlobalIsNone, HostEvicted, Fail, Goto
<1>6. ~\E model_used : Triage(t, model_used)
  BY <1>1 DEF Triage, Goto
<1>7. ~(AskForHost(t) \/ Admit(t) \/ EvictHost(t) \/ InsertHost(t) \/ Renew(t) \/ LookUp(t)
        \/ OpenWindow(t) \/ Explain(t))
  BY <1>1 DEF AskForHost, Admit, EvictHost, InsertHost, Renew, LookUp, OpenWindow, Explain, Goto
<1>8. ~PushRow(t)
  BY <1>1 DEF PushRow, Goto
<1>9. CASE Verify(t)
  BY <1>9 DEF Verify
<1>10. CASE ReadRows(t)
  <2> DEFINE c == [call[t] EXCEPT !.sequence = Padded(deques[call[t].deque])]
  <2>1. c.host = call[t].host /\ c.sequence = Padded(deques[call[t].deque])
    BY <1>1 DEF IsCall, Fields
  <2>2. call'[t] = c
    BY <1>1, <1>10 DEF ReadRows
  <2> QED BY <1>10, <2>1, <2>2
<1> QED BY <1>1, <1>2, <1>3, <1>4, <1>5, <1>6, <1>7, <1>8, <1>9, <1>10,
           CallSteps, LoadSteps, ScoreSteps
        DEF Next, vars, ScoreStep, AppendStep, WindowStep, Install

LEMMA ReturnedStep ==
  ASSUME ThreadsTyped, [Next]_vars, NEW c \in returned', c \notin returned
  PROVE  \E t \in Threads : pc[t] = "explain" /\ c = call[t] /\ UNCHANGED history /\ Explain(t)
<1>1. \E t \in Threads : Explain(t)
  BY DEF Next, vars, Install, Call, LoadStep, LoadNext, PickleMissing, WeightsMissing,
         ScoreStep, Triage, AppendStep, AskForHost, Admit, EvictHost, InsertHost, PushRow,
         Renew, LookUp, WindowStep, OpenWindow, ReadRows, Unshared, Verify, ErrorStep,
         GlobalIsNone, HostEvicted
<1> QED BY <1>1 DEF Explain

LEMMA OrderStep ==
  ASSUME OrderInv, HeapInv', [Next]_vars
  PROVE  OrderInv'
<1>1. \A seq, host : Shown(seq, host, pushed) => Shown(seq, host, pushed')
  <2>1. pushed \in Seq(Pushed)
    BY DEF OrderInv, HeapInv, HeapTyped
  <2>2. CASE pushed' = pushed
    BY <2>2
  <2>3. ASSUME NEW p \in Pushed, pushed' = Append(pushed, p)
        PROVE  \A seq, host : Shown(seq, host, pushed) => Shown(seq, host, pushed')
    BY <2>1, <2>3, OrderStays
  <2> QED BY <2>2, <2>3, HeapStep DEF OrderInv
<1>2. ASSUME NEW t \in Threads', pc'[t] \in {"verify", "explain"}, call'[t].model_used = "heavy"
      PROVE  Shown(call'[t].sequence, call'[t].host, pushed')
  <2>1. t \in Threads
    BY <1>2, ThreadsMove DEF OrderInv, HeapInv, HeapTyped, Threads, Steps
  <2>2. CASE pc[t] \in {"verify", "explain"} /\ call'[t] = call[t]
    BY <1>1, <1>2, <2>1, <2>2 DEF OrderInv
  <2>3. CASE /\ ReadRows(t) /\ call'[t].host = call[t].host
             /\ call'[t].sequence = Padded(deques[call[t].deque])
    <3>1. PICK owner : Owned(owner)
      BY DEF OrderInv, HeapInv
    <3> DEFINE rows == deques[call[t].deque]
    <3>2. /\ call[t].deque \in DOMAIN deques /\ rows # <<>>
          /\ InOrder(rows, call[t].host, pushed)
      BY <2>1, <2>3, <3>1 DEF ReadRows, Owned
    <3>3. rows \in Seq(Nat) /\ Len(rows) <= seq_len
      <4>1. deques \in Seq(Seq(Nat)) /\ \A d \in DOMAIN deques : Len(deques[d]) <= seq_len
        BY DEF OrderInv, HeapInv, HeapTyped
      <4>2. DOMAIN deques = 1 .. Len(deques)
        BY <4>1
      <4> QED BY <3>2, <4>1, <4>2, ElementOfSeq
    <3> HIDE DEF rows
    <3>4. Shown(Padded(rows), call[t].host, pushed)
      BY <3>2, <3>3, PaddedShown DEF OrderInv, HeapInv, HeapTyped
    <3> QED BY <1>1, <2>3, <3>4 DEF rows
  <2> QED BY <1>2, <2>1, <2>2, <2>3, VerdictStep DEF OrderInv
<1>3. ASSUME NEW c \in returned', c.model_used = "heavy"
      PROVE  Shown(c.sequence, c.host, pushed')
  <2>1. CASE c \in returned
    BY <1>1, <1>3, <2>1 DEF OrderInv
  <2>2. CASE c \notin returned
    <3>1. PICK t \in Threads : pc[t] = "explain" /\ c = call[t]
      BY <2>2, ReturnedStep DEF OrderInv, HeapInv, HeapTyped
    <3> QED BY <1>1, <1>3, <3>1 DEF OrderInv
  <2> QED BY <2>1, <2>2
<1> QED BY <1>2, <1>3 DEF OrderInv

(* Whatever callers do between each other's steps, a flow on the heavy      *)
(* route is judged by rows of its own host, in the order in which they      *)
(* entered the history (host_history.py:31-43, predict_interface.py:97-104). *)
THEOREM SequencesStayInOrder == Spec => []SequencesInOrder
<1>1. Init => OrderInv
  <2> SUFFICES ASSUME Init PROVE OrderInv
    OBVIOUS
  <2>1. returned = {} /\ \A t \in Threads : pc[t] = "idle"
    BY DEF Init, Threads
  <2> QED BY <2>1, InitHeap DEF OrderInv
<1>2. OrderInv /\ HeapInv' /\ [Next]_vars => OrderInv'
  BY OrderStep
<1>3. OrderInv => SequencesInOrder
  <2>1. \A host : Pushes(host) = PushesIn(pushed, host)
    BY DEF Pushes, PushesIn
  <2> QED BY <2>1 DEF OrderInv, SequencesInOrder, Shown
<1> QED BY <1>1, <1>2, <1>3, HeapInvariance, PTL DEF Spec

------------------------------------------------------------------------------
(* Any number of callers: the hosts that are held                           *)

Inserting == { t \in Threads : pc[t] = "insert" }

(* A caller that found room, or made it, counts as the host it will insert. *)
BoundInv ==
  /\ HeapInv /\ scenario \in Scenarios
  /\ Len(data) + Cardinality(Inserting) <= max_hosts + Cardinality(Threads) - 1

LEMMA InsertingCounted ==
  ASSUME scenario \in Scenarios, ThreadsTyped
  PROVE  /\ IsFiniteSet(Threads) /\ IsFiniteSet(Inserting)
         /\ Cardinality(Inserting) \in Nat /\ Cardinality(Threads) \in Nat
         /\ \A t \in Threads : t \notin Inserting => Cardinality(Inserting) <= Cardinality(Threads) - 1
<1>1. IsFiniteSet(Threads)
  BY PredictAssumption DEF Threads
<1>2. Inserting \subseteq Threads
  BY DEF Inserting
<1>3. IsFiniteSet(Inserting) /\ Cardinality(Inserting) \in Nat /\ Cardinality(Threads) \in Nat
  BY <1>1, <1>2, FS_Subset, FS_CardinalityType
<1>4. ASSUME NEW t \in Threads, t \notin Inserting
      PROVE  Cardinality(Inserting) <= Cardinality(Threads) - 1
  <2>1. IsFiniteSet(Threads \ {t}) /\ Cardinality(Threads \ {t}) = Cardinality(Threads) - 1
    BY <1>1, FS_RemoveElement
  <2>2. Inserting \subseteq Threads \ {t}
    BY <1>2, <1>4
  <2> QED BY <2>1, <2>2, FS_Subset
<1> QED BY <1>1, <1>3, <1>4

LEMMA BoundStep ==
  ASSUME BoundInv, HeapInv', [Next]_vars
  PROVE  BoundInv'
<1>1. ThreadsTyped /\ IsTable(data) /\ IsTable(data')
  BY DEF BoundInv, HeapInv, HeapTyped
<1>2. /\ Len(data) \in Nat /\ Len(data') \in Nat /\ max_hosts \in Nat
  BY <1>1, HostHistoryAssumption DEF IsTable
<1>3. /\ IsFiniteSet(Inserting)
      /\ Cardinality(Inserting) \in Nat /\ Cardinality(Threads) \in Nat
      /\ \A t \in Threads : t \notin Inserting => Cardinality(Inserting) <= Cardinality(Threads) - 1
  BY <1>1, InsertingCounted DEF BoundInv
<1>4. CASE UNCHANGED <<scenario, data, pc>>
  BY <1>4 DEF BoundInv, Inserting, Threads
<1>5. ASSUME NEW t \in Threads,
             (\E host \in Hosts : Call(t, host)) \/ LoadStep(t) \/ ScoreStep(t) \/ ErrorStep(t)
      PROVE  BoundInv'
  <2>1. Steps(t)
    BY <1>1, <1>5, CallSteps, LoadSteps, ScoreSteps
  <2>2. /\ scenario' = scenario /\ Threads' = Threads
        /\ \A u \in Threads \ {t} : pc'[u] = pc[u]
        /\ DOMAIN pc = Threads
    BY <1>1, <2>1 DEF Steps, Threads, ThreadsTyped
  <2>3. Inserting' = IF pc'[t] = "insert" THEN Inserting \cup {t} ELSE Inserting \ {t}
    BY <2>2 DEF Inserting
  <2>4. t \in Inserting <=> pc[t] = "insert"
    BY DEF Inserting
  <2>5. SUFFICES Len(data') + Cardinality(Inserting') <= max_hosts + Cardinality(Threads) - 1
    BY <2>2 DEF BoundInv
  <2>6. /\ Cardinality(Inserting \cup {t})
             = IF t \in Inserting THEN Cardinality(Inserting) ELSE Cardinality(Inserting) + 1
        /\ Cardinality(Inserting \ {t})
             = IF t \in Inserting THEN Cardinality(Inserting) - 1 ELSE Cardinality(Inserting)
    BY <1>3, FS_AddElement, FS_RemoveElement
  <2>7. CASE Aside(t)
    <3>1. pc[t] # "insert" /\ data' = data /\ (pc'[t] = "insert" => Len(data) < max_hosts)
      BY <2>7 DEF Aside, history
    <3>2. CASE pc'[t] = "insert"
      <4>1. Cardinality(Inserting') = Cardinality(Inserting) + 1
        BY <2>3, <2>4, <2>6, <3>1, <3>2
      <4>2. Cardinality(Inserting) <= Cardinality(Threads) - 1
        BY <1>3, <2>4, <3>1
      <4> QED BY <1>2, <1>3, <3>1, <3>2, <4>1, <4>2
    <3>3. CASE pc'[t] # "insert"
      <4>1. Cardinality(Inserting') = Cardinality(Inserting)
        BY <2>3, <2>4, <2>6, <3>1, <3>3
      <4> QED BY <3>1, <4>1 DEF BoundInv
    <3> QED BY <3>2, <3>3
  <2>8. CASE Renew(t) \/ LookUp(t) \/ PushRow(t)
    <3>1. pc[t] # "insert" /\ pc'[t] # "insert"
      BY <2>2, <2>8 DEF Renew, LookUp, PushRow, Goto
    <3>2. Len(data') = Len(data)
      BY <1>1, <2>8, TableMoved DEF Renew, LookUp, PushRow, history
    <3>3. Cardinality(Inserting') = Cardinality(Inserting)
      BY <2>3, <2>4, <2>6, <3>1
    <3> QED BY <3>2, <3>3 DEF BoundInv
  <2>9. CASE EvictHost(t)
    <3>1. pc[t] # "insert" /\ pc'[t] = "insert"
      BY <2>2, <2>9 DEF EvictHost, Goto
    <3>2. Len(data') = Len(data) - 1
      BY <1>1, <2>9, TableTail DEF EvictHost
    <3>3. Cardinality(Inserting') = Cardinality(Inserting) + 1
      BY <2>3, <2>4, <2>6, <3>1
    <3> QED BY <1>2, <1>3, <3>2, <3>3 DEF BoundInv
  <2>10. CASE InsertHost(t)
    <3>1. pc[t] = "insert" /\ pc'[t] # "insert"
      BY <2>2, <2>10 DEF InsertHost, Goto
    <3>2. Len(data') \in {Len(data), Len(data) + 1}
      <4>1. call[t].host \in Hosts
        BY <1>1, <3>1 DEF ThreadsTyped
      <4>2. PICK d \in Nat : data' = Insert(data, call[t].host, d)
        <5>1. deques' \in Seq(Seq(Nat))
          BY DEF HeapInv, HeapTyped
        <5>2. Len(deques') \in Nat
          BY <5>1
        <5> QED BY <2>10, <5>2 DEF InsertHost
      <4> QED BY <1>1, <4>1, <4>2, TableInserted
    <3>3. Cardinality(Inserting') = Cardinality(Inserting) - 1
      BY <2>3, <2>4, <2>6, <3>1
    <3> QED BY <1>2, <1>3, <3>2, <3>3 DEF BoundInv
  <2> QED BY <1>1, <1>5, <2>7, <2>8, <2>9, <2>10, StepKinds
<1>6. ASSUME NEW artifact, Install(artifact) PROVE BoundInv'
  BY <1>4, <1>6 DEF Install, history
<1>7. CASE UNCHANGED vars
  BY <1>4, <1>7 DEF vars, history
<1> QED BY <1>5, <1>6, <1>7 DEF Next

LEMMA InitBound == Init => BoundInv
<1> SUFFICES ASSUME Init PROVE BoundInv
  OBVIOUS
<1>1. /\ HeapInv /\ scenario \in Scenarios /\ Len(data) = 0
      /\ \A t \in Threads : pc[t] = "idle"
  BY InitHeap DEF Init, Threads
<1>2. Inserting = {}
  BY <1>1 DEF Inserting
<1>3. Cardinality(Inserting) = 0 /\ Cardinality(Threads) \in Nat
  BY <1>1, <1>2, FS_EmptySet, InsertingCounted DEF HeapInv, HeapTyped
<1>4. max_hosts \in Nat /\ max_hosts > 0
  BY HostHistoryAssumption
<1> QED BY <1>1, <1>3, <1>4 DEF BoundInv

LEMMA BoundInvariance == Spec => []BoundInv
<1>1. BoundInv /\ HeapInv' /\ [Next]_vars => BoundInv'
  BY BoundStep
<1> QED BY <1>1, InitBound, HeapInvariance, PTL DEF Spec

(* Past its length check each caller brings one host; the dict exceeds      *)
(* max_hosts by the other callers at most (host_history.py:34-36).          *)
THEOREM HostsStayBounded == Spec => []HostsBounded
<1>1. BoundInv => HostsBounded
  <2> SUFFICES ASSUME BoundInv PROVE HostsBounded
    OBVIOUS
  <2>1. /\ Len(data) \in Nat /\ max_hosts \in Nat
        /\ Cardinality(Inserting) \in Nat /\ Cardinality(Threads) \in Nat
    BY InsertingCounted, HostHistoryAssumption DEF BoundInv, HeapInv, HeapTyped, IsTable
  <2> QED BY <2>1 DEF BoundInv, HostsBounded
<1> QED BY <1>1, BoundInvariance, PTL

------------------------------------------------------------------------------
(* One caller: what a step does to the history                              *)

LEMMA TheCaller ==
  ASSUME scenario \in Scenarios, Alone
  PROVE  \E t \in Threads : Threads = {t}
<1>1. IsFiniteSet(Threads)
  BY PredictAssumption DEF Threads
<1> QED BY <1>1, FS_Singleton DEF Alone

(* The dict with the rows of every host. *)
RowsIn(entries, heap) ==
  [i \in DOMAIN entries |-> [host |-> entries[i].host, rows |-> heap[entries[i].deque]]]

(* The same, with the host that the caller is about to insert.              *)
Held(t) ==
  IF pc[t] = "insert" THEN Append(RowsIn(data, deques), [host |-> call[t].host, rows |-> <<>>])
  ELSE RowsIn(data, deques)

(* The host is reached and its row is to come; the row is there.            *)
InPush(t) == pc[t] \in {"insert", "lookup", "push"}
InWindow(t) == pc[t] \in {"window", "renew", "take", "read"}

(* Between reaching its host and leaving the history, a call's host is the  *)
(* most recent one; it has rows once one was pushed.                        *)
HostIsLast(t) ==
  /\ InPush(t) \/ InWindow(t) => Len(Held(t)) > 0 /\ Held(t)[Len(Held(t))].host = call[t].host
  /\ InWindow(t) => Held(t)[Len(Held(t))].rows # <<>>

(* What the caller has found in the dict is still so.                       *)
InPlace(t) ==
  /\ pc[t] = "move" => Holds(data, call[t].host)
  /\ pc[t] \in {"admit", "evict", "insert"} => ~Holds(data, call[t].host)
  /\ pc[t] = "evict" => Len(data) >= max_hosts
  /\ pc[t] \in {"push", "read"} => Len(data) > 0 /\ call[t].deque = data[Len(data)].deque

ReachedInv ==
  /\ BoundInv
  /\ Alone => \A t \in Threads : HostIsLast(t) /\ InPlace(t)

(* What the steps of the only caller do to the history.                     *)
Quiet(t) ==
  /\ Held(t)' = Held(t) /\ UNCHANGED pushed
  /\ InPush(t)' <=> InPush(t)
  /\ InWindow(t)' => InWindow(t)
  /\ InPush(t)' \/ InWindow(t)' => call'[t].host = call[t].host /\ call'[t].row = call[t].row

Reaches(t) ==
  /\ ~InPush(t) /\ ~InWindow(t) /\ InPush(t)' /\ ~InWindow(t)' /\ UNCHANGED <<call, pushed>>
  /\ call[t].host \in Hosts
  /\ Held(t)' = Reach(Held(t), call[t].host)

Pushing(t) ==
  /\ InPush(t) /\ ~InPush(t)' /\ UNCHANGED call
  /\ call[t].host \in Hosts /\ call[t].row \in Nat
  /\ Held(t)' = Push(Held(t), call[t].host, call[t].row)
  /\ pushed' = Append(pushed, [host |-> call[t].host, row |-> call[t].row])

Moves(t) == Quiet(t) \/ Reaches(t) \/ Pushing(t)

LEMMA RowsOfHeap ==
  ASSUME NEW heap \in Seq(Seq(Nat))
  PROVE  \A d \in DOMAIN heap : heap[d] \in Seq(Nat)
<1>1. DOMAIN heap = 1 .. Len(heap)
  OBVIOUS
<1> QED BY <1>1, ElementOfSeq

LEMMA RowsAreDict ==
  ASSUME NEW entries, IsTable(entries), NEW heap \in Seq(Seq(Nat)),
         \A i \in DOMAIN entries : entries[i].deque \in DOMAIN heap
  PROVE  LET items == RowsIn(entries, heap)
         IN  /\ IsDict(items) /\ Len(items) = Len(entries) /\ DOMAIN items = DOMAIN entries
             /\ \A i \in DOMAIN entries : /\ items[i].host = entries[i].host
                                          /\ items[i].rows = heap[entries[i].deque]
             /\ \A host : Holds(items, host) <=> Holds(entries, host)
<1> DEFINE items == RowsIn(entries, heap)
<1>1. PICK n \in Nat : n = Len(entries) /\ DOMAIN entries = 1 .. n
  BY DEF IsTable
<1>2. items = [i \in 1 .. n |-> [host |-> entries[i].host, rows |-> heap[entries[i].deque]]]
  BY <1>1 DEF RowsIn
<1>3. \A i \in 1 .. n : entries[i].host \in Hosts /\ heap[entries[i].deque] \in Seq(Nat)
  <2>1. \A i \in 1 .. n : entries[i] \in Entry
    BY <1>1 DEF IsTable
  <2>2. \A i \in 1 .. n : heap[entries[i].deque] \in Seq(Nat)
    BY <1>1, ElementOfSeq
  <2> QED BY <2>1, <2>2 DEF Entry
<1> HIDE DEF items
<1>4. items \in [1 .. n -> Item]
  BY <1>2, <1>3 DEF Item
<1>5. items \in Seq(Item) /\ Len(items) = n /\ DOMAIN items = 1 .. n
  BY <1>4
<1>6. \A i \in 1 .. n : items[i].host = entries[i].host /\ items[i].rows = heap[entries[i].deque]
  BY <1>2
<1>7. OneEach(items) /\ \A host : Holds(items, host) <=> Holds(entries, host)
  BY <1>1, <1>5, <1>6 DEF OneEach, IsTable, Holds
<1> QED BY <1>1, <1>5, <1>6, <1>7 DEF IsDict, items

LEMMA HeldIs ==
  ASSUME ReachedInv, Alone, NEW t \in Threads, Threads = {t}
  PROVE  /\ IsDict(Held(t)) /\ Len(Held(t)) <= max_hosts
         /\ pushed \in Seq(Pushed)
         /\ \A i \in DOMAIN Held(t) :
              Held(t)[i].rows \in Seq(Nat) /\ Len(Held(t)[i].rows) <= seq_len
         /\ pc[t] # "insert" =>
              /\ Held(t) = RowsIn(data, deques)
              /\ DOMAIN Held(t) = DOMAIN data /\ Len(Held(t)) = Len(data)
              /\ \A i \in DOMAIN data : /\ Held(t)[i].host = data[i].host
                                        /\ Held(t)[i].rows = deques[data[i].deque]
              /\ \A host : Holds(Held(t), host) <=> Holds(data, host)
<1> DEFINE items == RowsIn(data, deques)
           item == [host |-> call[t].host, rows |-> <<>>]
<1>1. /\ HeapInv /\ IsTable(data) /\ deques \in Seq(Seq(Nat)) /\ pushed \in Seq(Pushed)
      /\ \A i \in DOMAIN data : /\ deques[data[i].deque] \in Seq(Nat)
                                /\ Len(deques[data[i].deque]) <= seq_len
                                /\ data[i].deque \in DOMAIN deques
  <2>1. /\ HeapInv /\ IsTable(data) /\ deques \in Seq(Seq(Nat)) /\ pushed \in Seq(Pushed)
        /\ \A d \in DOMAIN deques : Len(deques[d]) <= seq_len
        /\ \A i \in DOMAIN data : data[i].deque \in DOMAIN deques
    BY DequesDiffer DEF ReachedInv, BoundInv, HeapInv, HeapTyped
  <2> QED BY <2>1, RowsOfHeap
<1>2. /\ IsDict(items) /\ Len(items) = Len(data) /\ DOMAIN items = DOMAIN data
      /\ \A i \in DOMAIN data : /\ items[i].host = data[i].host
                                /\ items[i].rows = deques[data[i].deque]
      /\ \A host : Holds(items, host) <=> Holds(data, host)
  BY <1>1, RowsAreDict
<1>3. Held(t) = IF pc[t] = "insert" THEN Append(items, item) ELSE items
  BY DEF Held
<1>4. Cardinality(Threads) = 1
  BY DEF Alone
<1>5. Inserting = IF pc[t] = "insert" THEN {t} ELSE {}
  BY DEF Inserting
<1>6. PICK n \in Nat : n = Len(data) /\ DOMAIN data = 1 .. n
  BY <1>1 DEF IsTable
<1>7. max_hosts \in Nat /\ n + Cardinality(Inserting) <= max_hosts
  BY <1>4, <1>6, HostHistoryAssumption DEF ReachedInv, BoundInv
<1>8. Cardinality({t}) = 1 /\ Cardinality({}) = 0
  BY FS_Singleton, FS_EmptySet
<1> HIDE DEF items, item
<1>9. CASE pc[t] # "insert"
  <2>1. n <= max_hosts
    BY <1>5, <1>7, <1>8, <1>9
  <2>2. \A i \in DOMAIN items : items[i].rows \in Seq(Nat) /\ Len(items[i].rows) <= seq_len
    BY <1>1, <1>2
  <2>3. Held(t) = items
    BY <1>3, <1>9
  <2> QED BY <1>1, <1>2, <1>6, <1>9, <2>1, <2>2, <2>3 DEF items
<1>10. CASE pc[t] = "insert"
  <2>1. n + 1 <= max_hosts
    BY <1>5, <1>7, <1>8, <1>10
  <2>2. ~Holds(items, call[t].host)
    BY <1>2, <1>10 DEF ReachedInv, InPlace
  <2>3. item \in Item /\ item.host = call[t].host /\ item.rows = <<>>
    BY <1>1, <1>10 DEF item, Item, HeapInv, HeapTyped, ThreadsTyped
  <2>4. /\ Held(t) \in Seq(Item) /\ Len(Held(t)) = n + 1 /\ DOMAIN Held(t) = 1 .. n + 1
        /\ Held(t)[n + 1] = item /\ \A i \in 1 .. n : Held(t)[i] = items[i]
    BY <1>2, <1>3, <1>6, <1>10, <2>3, AppendProperties DEF IsDict
  <2>5. \A i \in 1 .. n + 1 : i \in 1 .. n \/ i = n + 1
    OBVIOUS
  <2>6. \A i \in 1 .. n : items[i].host # item.host
    BY <1>2, <1>6, <2>2, <2>3 DEF Holds
  <2>7. OneEach(Held(t))
    BY <1>2, <1>6, <2>4, <2>5, <2>6 DEF OneEach, IsDict
  <2>8. ASSUME NEW i \in DOMAIN Held(t)
        PROVE  Held(t)[i].rows \in Seq(Nat) /\ Len(Held(t)[i].rows) <= seq_len
    <3>1. CASE i \in 1 .. n
      <4>1. Held(t)[i].rows = deques[data[i].deque] /\ i \in DOMAIN data
        BY <1>2, <1>6, <2>4, <3>1
      <4>2. deques[data[i].deque] \in Seq(Nat) /\ Len(deques[data[i].deque]) <= seq_len
        BY <1>1, <4>1
      <4> QED BY <4>1, <4>2
    <3>2. CASE i = n + 1
      <4>1. Held(t)[i].rows = <<>>
        BY <2>3, <2>4, <3>2
      <4>2. <<>> \in Seq(Nat) /\ Len(<<>>) = 0 /\ 0 <= seq_len
        BY HostHistoryAssumption
      <4> QED BY <4>1, <4>2
    <3> QED BY <2>4, <2>5, <3>1, <3>2
  <2> QED BY <1>1, <1>10, <2>1, <2>4, <2>7, <2>8 DEF IsDict
<1> QED BY <1>9, <1>10

(* The dict and its rows move, lose a host and gain one together.           *)
LEMMA RowsMove ==
  ASSUME NEW entries, IsTable(entries), NEW heap \in Seq(Seq(Nat)),
         \A i \in DOMAIN entries : entries[i].deque \in DOMAIN heap
  PROVE  /\ \A host : Holds(entries, host) =>
              RowsIn(MoveToEnd(entries, host), heap) = MoveToEnd(RowsIn(entries, heap), host)
         /\ entries # <<>> => RowsIn(Tail(entries), heap) = Tail(RowsIn(entries, heap))
         /\ \A host \in Hosts : ~Holds(entries, host) =>
              RowsIn(Insert(entries, host, Len(heap) + 1), Append(heap, <<>>))
                = Append(RowsIn(entries, heap), [host |-> host, rows |-> <<>>])
<1> DEFINE items == RowsIn(entries, heap)
<1>1. /\ IsDict(items) /\ Len(items) = Len(entries) /\ DOMAIN items = DOMAIN entries
      /\ \A i \in DOMAIN entries : /\ items[i].host = entries[i].host
                                   /\ items[i].rows = heap[entries[i].deque]
      /\ \A i \in DOMAIN entries :
           items[i] = [host |-> entries[i].host, rows |-> heap[entries[i].deque]]
  <2>1. \A i \in DOMAIN entries :
          items[i] = [host |-> entries[i].host, rows |-> heap[entries[i].deque]]
    BY DEF RowsIn
  <2> QED BY <2>1, RowsAreDict
<1>2. PICK n \in Nat : n = Len(entries) /\ DOMAIN entries = 1 .. n
  BY DEF IsTable
<1>3. PICK m \in Nat : m = Len(heap) /\ DOMAIN heap = 1 .. m
  OBVIOUS
<1> HIDE DEF items
<1>4. ASSUME NEW host, Holds(entries, host)
      PROVE  RowsIn(MoveToEnd(entries, host), heap) = MoveToEnd(items, host)
  <2>1. PICK p \in 1 .. n : entries[p].host = host
    BY <1>2, <1>4 DEF Holds
  <2> DEFINE new == MoveToEnd(entries, host)
             moved == MoveToEnd(items, host)
  <2>2. /\ new \in Seq(Entry) /\ Len(new) = n
        /\ \A i \in 1 .. p - 1 : new[i] = entries[i]
        /\ \A i \in p .. n - 1 : new[i] = entries[i + 1]
        /\ new[n] = entries[p]
    <3>1. /\ entries \in Seq(Entry) /\ OneEach(entries) /\ p \in DOMAIN entries
          /\ new = MoveToEnd(entries, entries[p].host)
      BY <1>2, <2>1 DEF IsTable
    <3> HIDE DEF new
    <3> QED BY <1>2, <3>1, MovedItems
  <2>3. /\ moved \in Seq(Item) /\ Len(moved) = n
        /\ \A i \in 1 .. p - 1 : moved[i] = items[i]
        /\ \A i \in p .. n - 1 : moved[i] = items[i + 1]
        /\ moved[n] = items[p]
    <3>1. /\ items \in Seq(Item) /\ OneEach(items) /\ p \in DOMAIN items /\ Len(items) = n
          /\ moved = MoveToEnd(items, items[p].host)
      BY <1>1, <1>2, <2>1 DEF IsDict
    <3> HIDE DEF moved
    <3> QED BY <3>1, MovedItems
  <2> HIDE DEF new, moved
  <2>4. DOMAIN new = 1 .. n /\ moved \in [1 .. n -> Item]
    BY <2>2, <2>3
  <2>5. ASSUME NEW i \in 1 .. n
        PROVE  moved[i] = [host |-> new[i].host, rows |-> heap[new[i].deque]]
    <3>1. \E j \in 1 .. n : new[i] = entries[j] /\ moved[i] = items[j]
      <4>1. CASE i \in 1 .. p - 1
        BY <2>2, <2>3, <4>1
      <4>2. CASE i \in p .. n - 1
        <5>1. i + 1 \in 1 .. n
          BY <4>2
        <5> QED BY <2>2, <2>3, <4>2, <5>1
      <4>3. CASE i = n
        BY <2>1, <2>2, <2>3, <4>3
      <4>4. i \in 1 .. p - 1 \/ i \in p .. n - 1 \/ i = n
        BY <2>1
      <4> QED BY <4>1, <4>2, <4>3, <4>4
    <3> QED BY <1>1, <1>2, <3>1
  <2>6. RowsIn(new, heap) = moved
    BY <2>4, <2>5 DEF RowsIn
  <2> QED BY <2>6 DEF new, moved
<1>5. ASSUME entries # <<>> PROVE RowsIn(Tail(entries), heap) = Tail(items)
  <2>1. n > 0 /\ items # <<>>
    BY <1>1, <1>2, <1>5 DEF IsTable, IsDict
  <2> DEFINE new == Tail(entries)
             rest == Tail(items)
  <2>2. new \in Seq(Entry) /\ Len(new) = n - 1 /\ \A i \in 1 .. n - 1 : new[i] = entries[i + 1]
    BY <1>2, <1>5, HeadTailProperties DEF IsTable
  <2>3. rest \in Seq(Item) /\ Len(rest) = n - 1 /\ \A i \in 1 .. n - 1 : rest[i] = items[i + 1]
    BY <1>1, <1>2, <2>1, HeadTailProperties DEF IsDict
  <2> HIDE DEF new, rest
  <2>4. /\ DOMAIN new = 1 .. n - 1 /\ rest \in [1 .. n - 1 -> Item]
        /\ \A i \in 1 .. n - 1 : i + 1 \in 1 .. n
    BY <2>1, <2>2, <2>3
  <2>5. ASSUME NEW i \in 1 .. n - 1
        PROVE  rest[i] = [host |-> new[i].host, rows |-> heap[new[i].deque]]
    <3>1. i + 1 \in DOMAIN entries /\ new[i] = entries[i + 1] /\ rest[i] = items[i + 1]
      BY <1>2, <2>2, <2>3, <2>4
    <3> QED BY <1>1, <3>1
  <2>6. RowsIn(new, heap) = rest
    BY <2>4, <2>5 DEF RowsIn
  <2> QED BY <2>6 DEF new, rest
<1>6. ASSUME NEW host \in Hosts, ~Holds(entries, host)
      PROVE  RowsIn(Insert(entries, host, m + 1), Append(heap, <<>>))
               = Append(items, [host |-> host, rows |-> <<>>])
  <2> DEFINE entry == [host |-> host, deque |-> m + 1]
             item == [host |-> host, rows |-> <<>>]
             new == Append(entries, entry)
             more == Append(items, item)
             heap2 == Append(heap, <<>>)
  <2>1. Insert(entries, host, m + 1) = new
    BY <1>6 DEF Insert
  <2>2. /\ new \in Seq(Entry) /\ Len(new) = n + 1 /\ new[n + 1] = entry
        /\ \A i \in 1 .. n : new[i] = entries[i]
    <3>1. entry \in Entry
      BY DEF Entry
    <3> HIDE DEF entry
    <3> QED BY <1>2, <3>1, AppendProperties DEF IsTable
  <2>3. /\ more \in Seq(Item) /\ Len(more) = n + 1 /\ more[n + 1] = item
        /\ \A i \in 1 .. n : more[i] = items[i]
    <3>1. item \in Item
      BY DEF Item
    <3> HIDE DEF item
    <3> QED BY <1>1, <1>2, <3>1, AppendProperties DEF IsDict
  <2>4. heap2[m + 1] = <<>> /\ \A d \in 1 .. m : heap2[d] = heap[d]
    <3>1. <<>> \in Seq(Nat)
      OBVIOUS
    <3> QED BY <1>3, <3>1, AppendProperties
  <2>5. entry.host = host /\ entry.deque = m + 1
    OBVIOUS
  <2> HIDE DEF new, more, heap2, entry
  <2>6. DOMAIN new = 1 .. n + 1 /\ more \in [1 .. n + 1 -> Item]
    BY <2>2, <2>3
  <2>7. ASSUME NEW i \in 1 .. n + 1
        PROVE  more[i] = [host |-> new[i].host, rows |-> heap2[new[i].deque]]
    <3>1. CASE i \in 1 .. n
      <4>1. i \in DOMAIN entries /\ entries[i].deque \in 1 .. m
        BY <1>2, <1>3, <3>1
      <4>2. new[i] = entries[i] /\ more[i] = items[i] /\ heap2[entries[i].deque] = heap[entries[i].deque]
        BY <2>2, <2>3, <2>4, <3>1, <4>1
      <4>3. items[i] = [host |-> entries[i].host, rows |-> heap[entries[i].deque]]
        BY <1>1, <4>1
      <4> QED BY <4>2, <4>3
    <3>2. CASE i = n + 1
      BY <2>2, <2>3, <2>4, <2>5, <3>2
    <3>3. i \in 1 .. n \/ i = n + 1
      OBVIOUS
    <3> QED BY <3>1, <3>2, <3>3
  <2>8. RowsIn(new, heap2) = more
    BY <2>6, <2>7 DEF RowsIn
  <2> QED BY <2>1, <2>8 DEF more, heap2
<1> QED BY <1>3, <1>4, <1>5, <1>6 DEF items

(* A row pushed to a host's deque is pushed to that host and to no other.   *)
LEMMA RowsPushed ==
  ASSUME NEW entries, IsTable(entries), NEW heap \in Seq(Seq(Nat)), NEW row \in Nat,
         \A i, j \in DOMAIN entries : /\ entries[i].deque \in DOMAIN heap
                                      /\ entries[i].deque = entries[j].deque => i = j,
         NEW p \in DOMAIN entries, NEW heap2,
         \A d \in DOMAIN heap :
           heap2[d] = IF d = entries[p].deque THEN Capped(Append(heap[d], row)) ELSE heap[d]
  PROVE  RowsIn(entries, heap2) = Push(RowsIn(entries, heap), entries[p].host, row)
<1> DEFINE items == RowsIn(entries, heap)
           host == entries[p].host
<1>1. \A i \in DOMAIN entries : entries[i].host = host <=> i = p
  BY DEF IsTable, OneEach
<1>2. \A i \in DOMAIN entries :
        heap2[entries[i].deque] = IF i = p THEN Capped(Append(heap[entries[i].deque], row))
                                  ELSE heap[entries[i].deque]
  OBVIOUS
<1>3. /\ DOMAIN items = DOMAIN entries
      /\ \A i \in DOMAIN entries :
           items[i] = [host |-> entries[i].host, rows |-> heap[entries[i].deque]]
  BY DEF RowsIn
<1> HIDE DEF items, host
<1>4. Push(items, host, row) =
        [i \in DOMAIN entries |->
           IF items[i].host = host
             THEN [items[i] EXCEPT !.rows = Capped(Append(items[i].rows, row))] ELSE items[i]]
  BY <1>3 DEF Push
<1>5. ASSUME NEW i \in DOMAIN entries
      PROVE  [host |-> entries[i].host, rows |-> heap2[entries[i].deque]]
               = IF items[i].host = host
                   THEN [items[i] EXCEPT !.rows = Capped(Append(items[i].rows, row))]
                   ELSE items[i]
  <2>1. items[i].host = entries[i].host /\ items[i].rows = heap[entries[i].deque]
    BY <1>3
  <2>2. CASE i = p
    <3>1. heap2[entries[i].deque] = Capped(Append(items[i].rows, row))
      BY <1>2, <2>1, <2>2
    <3>2. [items[i] EXCEPT !.rows = Capped(Append(items[i].rows, row))]
            = [host |-> entries[i].host, rows |-> Capped(Append(items[i].rows, row))]
      <4>1. items[i] = [host |-> entries[i].host, rows |-> heap[entries[i].deque]]
        BY <1>3
      <4> QED BY <4>1
    <3> QED BY <1>1, <2>1, <2>2, <3>1, <3>2
  <2>3. CASE i # p
    BY <1>1, <1>2, <1>3, <2>1, <2>3
  <2> QED BY <2>2, <2>3
<1>6. RowsIn(entries, heap2)
        = [i \in DOMAIN entries |-> [host |-> entries[i].host, rows |-> heap2[entries[i].deque]]]
  BY DEF RowsIn
<1>7. RowsIn(entries, heap2) = Push(items, host, row)
  BY <1>4, <1>5, <1>6
<1> QED BY <1>7 DEF items, host

(* The host of the window is the most recent one already.                   *)
LEMMA ReadLeavesOrder ==
  ASSUME NEW items, IsDict(items), Len(items) > 0
  PROVE  MoveToEnd(items, items[Len(items)].host) = items
<1>1. PICK n \in Nat : n = Len(items) /\ DOMAIN items = 1 .. n /\ n \in 1 .. n
  BY DEF IsDict
<1> DEFINE moved == MoveToEnd(items, items[n].host)
<1>2. /\ moved \in Seq(Item) /\ Len(moved) = n
      /\ \A i \in 1 .. n - 1 : moved[i] = items[i]
      /\ moved[n] = items[n]
  <2>1. /\ items \in Seq(Item) /\ OneEach(items) /\ n \in DOMAIN items
        /\ moved = MoveToEnd(items, items[n].host)
    BY <1>1 DEF IsDict
  <2> HIDE DEF moved
  <2> QED BY <1>1, <2>1, MovedItems
<1> HIDE DEF moved
<1>3. \A i \in 1 .. n : i \in 1 .. n - 1 \/ i = n
  OBVIOUS
<1>4. items \in Seq(Item) /\ \A i \in 1 .. n : moved[i] = items[i]
  BY <1>2, <1>3 DEF IsDict
<1>5. moved = items
  BY <1>1, <1>2, <1>4
<1> QED BY <1>1, <1>5 DEF moved

(* The host a single caller has reached is there, with its rows.            *)
LEMMA HostHeld ==
  ASSUME ReachedInv, Alone, NEW t \in Threads, Threads = {t}
  PROVE  /\ HostIsLast(t) /\ InPlace(t)
         /\ InPush(t) \/ InWindow(t) =>
              /\ Len(Held(t)) \in DOMAIN Held(t) /\ Len(Held(t)) \in Nat
              /\ DOMAIN Held(t) = 1 .. Len(Held(t))
              /\ Held(t)[Len(Held(t))].host = call[t].host
              /\ pc[t] # "insert" =>
                   /\ Holds(data, call[t].host)
                   /\ data # <<>> /\ Len(data) \in DOMAIN data
                   /\ data[Len(data)].host = call[t].host
                   /\ Held(t)[Len(Held(t))].rows = deques[data[Len(data)].deque]
         /\ pc[t] = "evict" => data # <<>>
         /\ pc[t] = "read" => deques[call[t].deque] # <<>>
<1>1. HostIsLast(t) /\ InPlace(t)
  BY DEF ReachedInv
<1>2. /\ IsDict(Held(t)) /\ IsTable(data)
      /\ pc[t] # "insert" =>
           /\ DOMAIN Held(t) = DOMAIN data /\ Len(Held(t)) = Len(data)
           /\ \A i \in DOMAIN data : /\ Held(t)[i].host = data[i].host
                                     /\ Held(t)[i].rows = deques[data[i].deque]
  BY HeldIs DEF ReachedInv, BoundInv, HeapInv, HeapTyped
<1>3. ASSUME InPush(t) \/ InWindow(t)
      PROVE  /\ Len(Held(t)) \in DOMAIN Held(t) /\ Len(Held(t)) \in Nat
             /\ DOMAIN Held(t) = 1 .. Len(Held(t))
             /\ Held(t)[Len(Held(t))].host = call[t].host
  <2>1. /\ Len(Held(t)) \in Nat /\ DOMAIN Held(t) = 1 .. Len(Held(t))
        /\ Len(Held(t)) > 0 /\ Held(t)[Len(Held(t))].host = call[t].host
    BY <1>1, <1>2, <1>3 DEF HostIsLast, IsDict
  <2> QED BY <2>1
<1>4. ASSUME InPush(t) \/ InWindow(t), pc[t] # "insert"
      PROVE  /\ Holds(data, call[t].host)
             /\ data # <<>> /\ Len(data) \in DOMAIN data
             /\ data[Len(data)].host = call[t].host
             /\ Held(t)[Len(Held(t))].rows = deques[data[Len(data)].deque]
  <2>1. /\ Len(data) \in DOMAIN data /\ data[Len(data)].host = call[t].host
        /\ Held(t)[Len(Held(t))].rows = deques[data[Len(data)].deque]
    BY <1>2, <1>3, <1>4
  <2>2. data # <<>>
    BY <2>1
  <2> QED BY <2>1, <2>2 DEF Holds
<1>5. ASSUME pc[t] = "evict" PROVE data # <<>>
  <2>1. Len(data) >= max_hosts /\ max_hosts \in Nat /\ max_hosts > 0
    BY <1>1, <1>5, HostHistoryAssumption DEF InPlace
  <2>2. data = <<>> => Len(data) = 0
    OBVIOUS
  <2> QED BY <2>1, <2>2
<1>6. ASSUME pc[t] = "read" PROVE deques[call[t].deque] # <<>>
  <2>1. call[t].deque = data[Len(data)].deque /\ Held(t)[Len(Held(t))].rows # <<>>
    BY <1>1, <1>6 DEF InPlace, HostIsLast, InWindow
  <2>2. Held(t)[Len(Held(t))].rows = deques[data[Len(data)].deque]
    BY <1>4, <1>6 DEF InWindow
  <2> QED BY <2>1, <2>2
<1> QED BY <1>1, <1>3, <1>4, <1>5, <1>6

(* So no operation of a single caller on dict or deque fails. *)
LEMMA NoKeyError ==
  ASSUME ReachedInv, Alone, NEW t \in Threads, Threads = {t}
  PROVE  ~HostEvicted(t)
BY HostHeld DEF HostEvicted, InPush, InWindow, InPlace

(* The steps that are not on the history. *)
Outside == {"idle", "load", "triage", "append", "verify", "explain"}

LEMMA OutsideMoves ==
  ASSUME NEW t, UNCHANGED history, pc[t] \in Outside, pc'[t] \in Outside
  PROVE  Moves(t) /\ InPlace(t)'
<1>1. Held(t)' = Held(t) /\ UNCHANGED pushed
  BY DEF Held, RowsIn, history, Outside
<1>2. ~InPush(t) /\ ~InPush(t)' /\ ~InWindow(t)'
  BY DEF InPush, InWindow, Outside
<1> QED BY <1>1, <1>2 DEF Moves, Quiet, InPlace, Outside

(* The steps of append until the row is there. *)
LEMMA AppendMoves ==
  ASSUME ReachedInv, Alone, NEW t \in Threads, Threads = {t},
         \/ AskForHost(t) \/ Admit(t) \/ EvictHost(t) \/ InsertHost(t) \/ PushRow(t)
         \/ Renew(t) /\ pc[t] = "move"
  PROVE  Moves(t) /\ InPlace(t)'
<1> DEFINE items == RowsIn(data, deques)
           host == call[t].host
<1>1. /\ pc \in [Threads -> Labels] /\ IsCall(call[t]) /\ IsTable(data)
      /\ pc[t] # "idle" => host \in Hosts
      /\ deques \in Seq(Seq(Nat))
      /\ \A i, j \in DOMAIN data : /\ data[i].deque \in DOMAIN deques
                                   /\ data[i].deque = data[j].deque => i = j
  BY DequesDiffer DEF ReachedInv, BoundInv, HeapInv, HeapTyped, ThreadsTyped
<1>2. HostIsLast(t) /\ InPlace(t)
  BY DEF ReachedInv
<1>3. /\ \A h : Holds(items, h) <=> Holds(data, h)
      /\ Len(items) = Len(data) /\ Len(data) \in Nat
  BY <1>1, RowsAreDict DEF IsTable
<1>4. max_hosts \in Nat /\ max_hosts > 0
  BY HostHistoryAssumption
<1>5. CASE AskForHost(t)
  <2>1. /\ pc[t] = "append" /\ UNCHANGED history
        /\ pc'[t] = IF Holds(data, host) THEN "move" ELSE "admit"
        /\ data' = data /\ call' = call
    BY <1>1, <1>5 DEF AskForHost, Goto, history
  <2>2. Held(t)' = Held(t) /\ UNCHANGED pushed
    BY <2>1 DEF Held, RowsIn, history
  <2>3. Quiet(t)
    BY <2>1, <2>2 DEF Quiet, InPush, InWindow
  <2>4. InPlace(t)'
    BY <2>1 DEF InPlace
  <2> QED BY <2>3, <2>4 DEF Moves
<1>6. CASE Admit(t)
  <2>1. /\ pc[t] = "admit" /\ UNCHANGED history
        /\ pc'[t] = IF Len(data) >= max_hosts THEN "evict" ELSE "insert"
        /\ data' = data /\ deques' = deques /\ pushed' = pushed /\ call' = call
        /\ ~Holds(data, host)
    BY <1>1, <1>2, <1>6 DEF Admit, Goto, history, InPlace
  <2>2. InPlace(t)'
    BY <2>1 DEF InPlace
  <2>3. CASE Len(data) >= max_hosts
    <3>1. Held(t)' = Held(t)
      BY <2>1, <2>3 DEF Held, RowsIn
    <3>2. Quiet(t)
      BY <2>1, <2>3, <3>1 DEF Quiet, InPush, InWindow
    <3> QED BY <2>2, <3>2 DEF Moves
  <2>4. CASE ~(Len(data) >= max_hosts)
    <3>1. Held(t) = items /\ Held(t)' = Append(items, [host |-> host, rows |-> <<>>])
      BY <2>1, <2>4 DEF Held, RowsIn
    <3>2. Reach(items, host) = Append(items, [host |-> host, rows |-> <<>>])
      BY <1>3, <2>1, <2>4 DEF Reach
    <3>3. Held(t)' = Reach(Held(t), host)
      BY <3>1, <3>2
    <3>4. Reaches(t)
      BY <1>1, <2>1, <2>4, <3>3 DEF Reaches, InPush, InWindow
    <3> QED BY <2>2, <3>4 DEF Moves
  <2> QED BY <2>3, <2>4
<1>7. CASE EvictHost(t)
  <2>1. /\ pc[t] = "evict" /\ pc'[t] = "insert" /\ data # <<>> /\ data' = Tail(data)
        /\ deques' = deques /\ pushed' = pushed /\ call' = call
        /\ ~Holds(data, host) /\ Len(data) >= max_hosts
    BY <1>1, <1>2, <1>7 DEF EvictHost, Goto, InPlace
  <2>2. InPlace(t)'
    <3>1. ~Holds(data', host)
      BY <1>1, <2>1, TableTail DEF Holds
    <3> QED BY <2>1, <3>1 DEF InPlace
  <2>3. RowsIn(Tail(data), deques) = Tail(items)
    BY <1>1, <2>1, RowsMove
  <2>4. Held(t) = items /\ Held(t)' = Append(Tail(items), [host |-> host, rows |-> <<>>])
    BY <2>1, <2>3 DEF Held
  <2>5. Reach(items, host) = Append(Tail(items), [host |-> host, rows |-> <<>>])
    BY <1>3, <2>1 DEF Reach
  <2>6. Reaches(t)
    <3>1. Held(t)' = Reach(Held(t), host)
      BY <2>4, <2>5
    <3> QED BY <1>1, <2>1, <3>1 DEF Reaches, InPush, InWindow
  <2> QED BY <2>2, <2>6 DEF Moves
<1>8. CASE InsertHost(t)
  <2>1. /\ pc[t] = "insert" /\ pc'[t] = "lookup" /\ call' = call /\ pushed' = pushed
        /\ deques' = Append(deques, <<>>) /\ data' = Insert(data, host, Len(deques'))
        /\ ~Holds(data, host)
    BY <1>1, <1>2, <1>8 DEF InsertHost, Goto, InPlace
  <2>2. Len(deques') = Len(deques) + 1
    BY <1>1, <2>1
  <2>3. RowsIn(data', deques') = Append(items, [host |-> host, rows |-> <<>>])
    BY <1>1, <2>1, <2>2, RowsMove
  <2>4. Held(t)' = Held(t)
    BY <2>1, <2>3 DEF Held
  <2>5. Quiet(t) /\ InPlace(t)'
    BY <2>1, <2>4 DEF Quiet, InPush, InWindow, InPlace
  <2> QED BY <2>5 DEF Moves
<1>9. CASE Renew(t) /\ pc[t] = "move"
  <2>1. /\ pc[t] = "move" /\ pc'[t] = "lookup" /\ Holds(data, host)
        /\ data' = MoveToEnd(data, host)
        /\ deques' = deques /\ pushed' = pushed /\ call' = call
    BY <1>1, <1>9 DEF Renew, Goto
  <2>2. RowsIn(MoveToEnd(data, host), deques) = MoveToEnd(items, host)
    BY <1>1, <2>1, RowsMove
  <2>3. Held(t) = items /\ Held(t)' = MoveToEnd(items, host)
    BY <2>1, <2>2 DEF Held
  <2>4. Reach(items, host) = MoveToEnd(items, host)
    BY <1>3, <2>1 DEF Reach
  <2>5. Reaches(t)
    <3>1. Held(t)' = Reach(Held(t), host)
      BY <2>3, <2>4
    <3> QED BY <1>1, <2>1, <3>1 DEF Reaches, InPush, InWindow
  <2>6. InPlace(t)'
    BY <2>1 DEF InPlace
  <2> QED BY <2>5, <2>6 DEF Moves
<1>10. CASE PushRow(t)
  <2>1. /\ pc[t] = "push" /\ pc'[t] \in {"verify", "window"} /\ call' = call /\ data' = data
        /\ deques' = [deques EXCEPT ![call[t].deque] = Capped(Append(@, call[t].row))]
        /\ pushed' = Append(pushed, [host |-> host, row |-> call[t].row])
    BY <1>1, <1>10 DEF PushRow, Goto
  <2>2. /\ Len(data) \in DOMAIN data /\ data[Len(data)].host = host
        /\ call[t].deque = data[Len(data)].deque
    BY <1>2, <2>1, HostHeld DEF InPush, InPlace
  <2>3. call[t].row \in Nat
    BY <1>1 DEF IsCall
  <2>4. RowsIn(data, deques') = Push(items, host, call[t].row)
    <3>1. PICK p \in DOMAIN data : p = Len(data)
      BY <2>2
    <3> DEFINE row == call[t].row
    <3>2. \A d \in DOMAIN deques :
            deques'[d] = IF d = data[p].deque THEN Capped(Append(deques[d], row)) ELSE deques[d]
      BY <2>1, <2>2, <3>1
    <3>3. row \in Nat /\ IsTable(data) /\ deques \in Seq(Seq(Nat))
      BY <1>1, <2>3
    <3>4. \A i, j \in DOMAIN data : /\ data[i].deque \in DOMAIN deques
                                    /\ data[i].deque = data[j].deque => i = j
      BY <1>1
    <3> HIDE DEF row
    <3>5. RowsIn(data, deques') = Push(RowsIn(data, deques), data[p].host, row)
      BY <3>2, <3>3, <3>4, RowsPushed
    <3> QED BY <2>2, <3>1, <3>5 DEF row
  <2>5. Held(t) = items /\ Held(t)' = Push(items, host, call[t].row)
    BY <2>1, <2>4 DEF Held
  <2>6. Pushing(t)
    <3>1. Held(t)' = Push(Held(t), host, call[t].row)
      BY <2>5
    <3> QED BY <1>1, <2>1, <2>3, <3>1 DEF Pushing, InPush
  <2>7. InPlace(t)'
    BY <2>1 DEF InPlace
  <2> QED BY <2>6, <2>7 DEF Moves
<1> QED BY <1>5, <1>6, <1>7, <1>8, <1>9, <1>10

(* The lookup of the deque, and the steps of window. *)
LEMMA WindowMoves ==
  ASSUME ReachedInv, Alone, NEW t \in Threads, Threads = {t},
         LookUp(t) \/ OpenWindow(t) \/ ReadRows(t) \/ (Renew(t) /\ pc[t] = "renew")
  PROVE  Moves(t) /\ InPlace(t)'
<1> DEFINE items == RowsIn(data, deques)
           host == call[t].host
<1>1. /\ pc \in [Threads -> Labels] /\ IsCall(call[t]) /\ DOMAIN call = Threads /\ IsTable(data)
      /\ deques \in Seq(Seq(Nat))
      /\ \A i \in DOMAIN data : data[i].deque \in DOMAIN deques
  BY DequesDiffer DEF ReachedInv, BoundInv, HeapInv, HeapTyped, ThreadsTyped
<1>2. (InPush(t) \/ InWindow(t)) /\ pc[t] # "insert" =>
        Len(data) \in DOMAIN data /\ data[Len(data)].host = host
  BY HostHeld
<1>3. CASE LookUp(t)
  <2> DEFINE c == [call[t] EXCEPT !.deque = DequeOf(data, host)]
  <2>1. /\ c.row = call[t].row /\ c.host = host /\ c.deque = DequeOf(data, host)
    BY <1>1 DEF IsCall, Fields
  <2>2. call' = [call EXCEPT ![t] = c]
    BY <1>3 DEF LookUp
  <2> HIDE DEF c
  <2>3. call'[t] = c
    BY <1>1, <2>2
  <2>4. /\ \/ pc[t] = "lookup" /\ pc'[t] = "push"
           \/ pc[t] = "take" /\ pc'[t] = "read"
        /\ data' = data /\ deques' = deques /\ pushed' = pushed
    BY <1>1, <1>3 DEF LookUp, Goto, history
  <2>5. Held(t)' = Held(t)
    BY <2>4 DEF Held, RowsIn
  <2>6. Quiet(t)
    BY <2>1, <2>3, <2>4, <2>5 DEF Quiet, InPush, InWindow
  <2>7. Len(data) \in DOMAIN data /\ data[Len(data)].host = host
    BY <1>2, <2>4 DEF InPush, InWindow
  <2>8. Len(data) > 0 /\ DequeOf(data, host) = data[Len(data)].deque
    BY <1>1, <2>7, DequeIs DEF IsTable
  <2>9. InPlace(t)'
    BY <2>1, <2>3, <2>4, <2>8 DEF InPlace
  <2> QED BY <2>6, <2>9 DEF Moves
<1>4. CASE OpenWindow(t)
  <2>1. pc[t] = "window" /\ pc'[t] = "renew" /\ UNCHANGED history /\ call' = call
    BY <1>1, <1>4 DEF OpenWindow, Goto
  <2>2. Held(t)' = Held(t) /\ pushed' = pushed
    BY <2>1 DEF Held, RowsIn, history
  <2>3. Quiet(t) /\ InPlace(t)'
    BY <2>1, <2>2 DEF Quiet, InPush, InWindow, InPlace
  <2> QED BY <2>3 DEF Moves
<1>5. CASE ReadRows(t)
  <2>1. pc[t] = "read" /\ pc'[t] = "verify" /\ UNCHANGED history
    BY <1>1, <1>5 DEF ReadRows, Goto
  <2>2. Held(t)' = Held(t) /\ pushed' = pushed
    BY <2>1 DEF Held, RowsIn, history
  <2>3. Quiet(t) /\ InPlace(t)'
    BY <2>1, <2>2 DEF Quiet, InPush, InWindow, InPlace
  <2> QED BY <2>3 DEF Moves
<1>6. CASE Renew(t) /\ pc[t] = "renew"
  <2>1. /\ pc[t] = "renew" /\ pc'[t] = "take" /\ Holds(data, host)
        /\ data' = MoveToEnd(data, host)
        /\ deques' = deques /\ pushed' = pushed /\ call' = call
    BY <1>1, <1>6 DEF Renew, Goto
  <2>2. RowsIn(MoveToEnd(data, host), deques) = MoveToEnd(items, host)
    BY <1>1, <2>1, RowsMove
  <2>3. Held(t) = items /\ Held(t)' = MoveToEnd(items, host)
    BY <2>1, <2>2 DEF Held
  <2>4. /\ IsDict(items) /\ Len(items) \in DOMAIN items /\ items[Len(items)].host = host
        /\ Len(items) > 0
    <3>1. InWindow(t)
      BY <2>1 DEF InWindow
    <3>2. IsDict(Held(t)) /\ Len(Held(t)) \in DOMAIN Held(t)
          /\ Held(t)[Len(Held(t))].host = host /\ Len(Held(t)) > 0
      BY <3>1, HeldIs, HostHeld DEF HostIsLast
    <3> QED BY <2>3, <3>2
  <2> HIDE DEF items
  <2>5. MoveToEnd(items, host) = items
    BY <2>4, ReadLeavesOrder
  <2>6. Held(t)' = Held(t)
    BY <2>3, <2>5
  <2>7. Quiet(t) /\ InPlace(t)'
    BY <2>1, <2>6 DEF Quiet, InPush, InWindow, InPlace
  <2> QED BY <2>7 DEF Moves
<1> QED BY <1>3, <1>4, <1>5, <1>6

LEMMA TheCallerMoves ==
  ASSUME ReachedInv, [Next]_vars, Alone, NEW t \in Threads, Threads = {t}
  PROVE  Moves(t) /\ InPlace(t)'
<1>1. pc \in [Threads -> Labels]
  BY DEF ReachedInv, BoundInv, HeapInv, HeapTyped, ThreadsTyped
<1>2. ASSUME UNCHANGED <<history, pc, call>> PROVE Moves(t) /\ InPlace(t)'
  <2>1. Held(t)' = Held(t) /\ pushed' = pushed
    BY <1>2 DEF Held, RowsIn, history
  <2>2. Quiet(t)
    BY <1>2, <2>1 DEF Quiet, InPush, InWindow
  <2>3. InPlace(t)'
    BY <1>2 DEF InPlace, history, ReachedInv
  <2> QED BY <2>2, <2>3 DEF Moves
<1>3. CASE UNCHANGED vars
  BY <1>2, <1>3 DEF vars
<1>4. ASSUME NEW artifact, Install(artifact) PROVE Moves(t) /\ InPlace(t)'
  BY <1>2, <1>4 DEF Install
<1>5. ASSUME NEW host, Call(t, host) PROVE Moves(t) /\ InPlace(t)'
  <2>1. pc[t] = "idle" /\ pc'[t] \in {"triage", "load"} /\ UNCHANGED history
    BY <1>1, <1>5 DEF Call, Goto
  <2> QED BY <2>1, OutsideMoves DEF Outside
<1>6. CASE LoadStep(t)
  <2>1. pc[t] = "load" /\ pc'[t] \in {"idle", "triage", "load"} /\ UNCHANGED history
    BY <1>1, <1>6 DEF LoadStep, LoadNext, PickleMissing, WeightsMissing, Fail, Goto
  <2> QED BY <2>1, OutsideMoves DEF Outside
<1>7. ASSUME NEW model_used, Triage(t, model_used) PROVE Moves(t) /\ InPlace(t)'
  <2>1. pc[t] = "triage" /\ pc'[t] = "append" /\ UNCHANGED history
    BY <1>1, <1>7 DEF Triage, Goto
  <2> QED BY <2>1, OutsideMoves DEF Outside
<1>8. CASE Verify(t) \/ Explain(t)
  <2>1. pc[t] \in {"verify", "explain"} /\ pc'[t] \in {"idle", "explain"} /\ UNCHANGED history
    BY <1>1, <1>8 DEF Verify, Explain, Goto
  <2> QED BY <2>1, OutsideMoves DEF Outside
<1>9. CASE GlobalIsNone(t)
  <2>1. pc[t] \in {"triage", "verify", "explain"}
    BY <1>9 DEF GlobalIsNone, Needs
  <2>2. pc'[t] = "idle" /\ UNCHANGED history
    BY <1>1, <1>9 DEF GlobalIsNone, Fail, Goto
  <2> QED BY <2>1, <2>2, OutsideMoves DEF Outside
<1>10. CASE Renew(t)
  BY <1>10, AppendMoves, WindowMoves DEF Renew
<1> QED BY <1>3, <1>4, <1>5, <1>6, <1>7, <1>8, <1>9, <1>10, NoKeyError, AppendMoves, WindowMoves
        DEF Next, ScoreStep, AppendStep, WindowStep, ErrorStep

LEMMA ReachedStep ==
  ASSUME ReachedInv, Alone, NEW t \in Threads, Threads = {t}, Moves(t)
  PROVE  HostIsLast(t)'
<1>1. IsDict(Held(t)) /\ Len(Held(t)) <= max_hosts /\ HostIsLast(t)
  BY HeldIs, HostHeld
<1>2. CASE Quiet(t)
  BY <1>1, <1>2 DEF Quiet, HostIsLast
<1>3. CASE Reaches(t)
  <2>1. Touched(Held(t), Held(t)', call[t].host)
    BY <1>1, <1>3, ReachTouches DEF Reaches
  <2> QED BY <1>3, <2>1 DEF Reaches, Touched, HostIsLast
<1>4. CASE Pushing(t)
  <2> DEFINE items == Held(t)
             n == Len(items)
             rows == items[n].rows
             row == call[t].row
  <2>1. n \in DOMAIN items /\ items[n].host = call[t].host /\ n \in Nat /\ n > 0
    BY <1>1, <1>4, HostHeld DEF Pushing, HostIsLast
  <2>2. \A i \in DOMAIN items : items[i].rows \in Seq(Nat) /\ Len(items[i].rows) <= seq_len
    BY HeldIs
  <2>3. /\ Len(Held(t)') = n
        /\ Held(t)'[n].host = call[t].host
        /\ Held(t)'[n].rows = Capped(Append(rows, row))
    BY <1>1, <1>4, <2>1, <2>2, PushesRow DEF Pushing
  <2>4. rows \in Seq(Nat) /\ Len(rows) <= seq_len /\ row \in Nat
    BY <1>4, <2>1, <2>2 DEF Pushing
  <2> HIDE DEF rows, row
  <2>5. Len(Capped(Append(rows, row))) = IF Len(rows) < seq_len THEN Len(rows) + 1 ELSE seq_len
    BY <2>4, CappedRows
  <2>6. Capped(Append(rows, row)) # <<>>
    <3>1. Len(rows) \in Nat /\ seq_len \in Nat /\ seq_len # 0 /\ Len(<<>>) = 0
      BY <2>4, HostHistoryAssumption
    <3> QED BY <2>5, <3>1
  <2> HIDE DEF n, items
  <2>7. /\ Held(t)'[Len(Held(t)')].rows # <<>> /\ Len(Held(t)') > 0
        /\ Held(t)'[Len(Held(t)')].host = call'[t].host
    BY <1>4, <2>1, <2>3, <2>6 DEF Pushing
  <2> QED BY <2>7 DEF HostIsLast
<1> QED BY <1>2, <1>3, <1>4 DEF Moves

LEMMA InitReached == Init => ReachedInv
<1> SUFFICES ASSUME Init PROVE ReachedInv
  OBVIOUS
<1>1. \A t \in Threads : pc[t] = "idle"
  BY DEF Init, Threads
<1> QED BY <1>1, InitBound DEF ReachedInv, HostIsLast, InPlace, InPush, InWindow

(* The step of a single caller, in every invariant below. *)
LEMMA OneCaller ==
  ASSUME ReachedInv, [Next]_vars, Alone
  PROVE  \E t \in Threads : /\ Threads = {t} /\ Threads' = {t} /\ UNCHANGED scenario
                            /\ Moves(t) /\ InPlace(t)' /\ HostIsLast(t)'
<1>1. PICK t \in Threads : Threads = {t}
  BY TheCaller DEF ReachedInv, BoundInv
<1>2. UNCHANGED scenario
  BY ThreadsMove DEF ReachedInv, BoundInv, HeapInv, HeapTyped, Steps
<1>3. Threads' = Threads
  BY <1>2 DEF Threads
<1> QED BY <1>1, <1>2, <1>3, TheCallerMoves, ReachedStep

LEMMA ScenarioStays ==
  ASSUME ReachedInv, [Next]_vars
  PROVE  UNCHANGED scenario /\ Threads' = Threads /\ Alone' = Alone
<1>1. UNCHANGED scenario
  BY ThreadsMove DEF ReachedInv, BoundInv, HeapInv, HeapTyped, Steps
<1> QED BY <1>1 DEF Threads, Alone

LEMMA ReachedInvariance == Spec => []ReachedInv
<1>1. ReachedInv /\ BoundInv' /\ [Next]_vars => ReachedInv'
  <2> SUFFICES ASSUME ReachedInv, BoundInv', [Next]_vars PROVE ReachedInv'
    OBVIOUS
  <2>1. Alone' = Alone
    BY ScenarioStays
  <2>2. ASSUME Alone PROVE \A t \in Threads' : HostIsLast(t)' /\ InPlace(t)'
    BY <2>2, OneCaller
  <2> QED BY <2>1, <2>2 DEF ReachedInv
<1> QED BY <1>1, InitReached, BoundInvariance, PTL DEF Spec

------------------------------------------------------------------------------
(* One caller: the hosts that are kept                                      *)

(* The hosts pushed after the i-th row.                                     *)
After(pushes, i) == { pushes[m].host : m \in i + 1 .. Len(pushes) }

(* A host is held exactly when it is among the max_hosts most recent ones:  *)
(* the hosts behind it are those of the rows pushed since its own latest    *)
(* one.  pend holds the host that was reached and has its row still to come.*)
RecentKept(items, pushes, pend) ==
  \A p \in DOMAIN items :
    \/ pend = {items[p].host} /\ Behind(items, p) = {}
    \/ \E i \in PushesIn(pushes, items[p].host) :
         After(pushes, i) \cup pend = Behind(items, p)

OthersForgotten(items, pushes, pend) ==
  \A host : ~Holds(items, host) =>
    \A i \in PushesIn(pushes, host) :
      Cardinality((After(pushes, i) \cup pend) \ {host}) >= max_hosts

Pend(t) == IF InPush(t) THEN {call[t].host} ELSE {}

RecentInv ==
  /\ ReachedInv
  /\ Alone => \A t \in Threads : /\ RecentKept(Held(t), pushed, Pend(t))
                                 /\ OthersForgotten(Held(t), pushed, Pend(t))

LEMMA AfterIsFinite ==
  ASSUME NEW pushes, Len(pushes) \in Nat, NEW i \in Nat
  PROVE  IsFiniteSet(After(pushes, i))
<1> DEFINE later == i + 1 .. Len(pushes)
           hosts == [m \in later |-> pushes[m].host]
<1>1. IsFiniteSet(later)
  BY FS_Interval
<1>2. hosts \in Surjection(later, After(pushes, i))
  BY DEF Surjection, After
<1> QED BY <1>1, <1>2, FS_Surjection

(* The hosts behind a position are as many as the positions behind it.      *)
LEMMA BehindCounted ==
  ASSUME NEW items, IsDict(items), NEW p \in DOMAIN items
  PROVE  /\ IsFiniteSet(Behind(items, p))
         /\ Cardinality(Behind(items, p)) = Len(items) - p
         /\ items[p].host \notin Behind(items, p)
<1>1. PICK n \in Nat : n = Len(items) /\ DOMAIN items = 1 .. n /\ p \in 1 .. n
  BY DEF IsDict, OneEach
<1> DEFINE later == p + 1 .. n
           hosts == [q \in later |-> items[q].host]
<1>2. IsFiniteSet(later) /\ Cardinality(later) = n - p
  <2>1. p + 1 \in Int /\ n \in Int
    BY <1>1
  <2>2. IsFiniteSet(later) /\ Cardinality(later) = IF p + 1 > n THEN 0 ELSE n - (p + 1) + 1
    BY <2>1, FS_Interval
  <2> HIDE DEF later
  <2> QED BY <1>1, <2>2
<1>3. later = { r \in DOMAIN items : r > p }
  BY <1>1
<1>4. hosts \in Bijection(later, Behind(items, p))
  BY <1>3 DEF Bijection, Injection, Surjection, Behind, IsDict, OneEach, IsInjective
<1>5. IsFiniteSet(Behind(items, p)) /\ Cardinality(Behind(items, p)) = n - p
  BY <1>2, <1>4, FS_Bijection DEF ExistsBijection
<1>6. items[p].host \notin Behind(items, p)
  <2>1. \A r \in DOMAIN items : r > p => items[r].host # items[p].host
    BY <1>1 DEF IsDict, OneEach
  <2> QED BY <2>1 DEF Behind
<1> QED BY <1>1, <1>5, <1>6

(* Reaching a host evicts none that is among the most recent ones.          *)
LEMMA RecentReached ==
  ASSUME NEW items, IsDict(items), Len(items) <= max_hosts, NEW host \in Hosts,
         NEW pushes \in Seq(Pushed),
         RecentKept(items, pushes, {}), OthersForgotten(items, pushes, {})
  PROVE  /\ RecentKept(Reach(items, host), pushes, {host})
         /\ OthersForgotten(Reach(items, host), pushes, {host})
<1> DEFINE new == Reach(items, host)
<1>1. Touched(items, new, host)
  BY ReachTouches
<1> HIDE DEF new
<1>2. \A p \in DOMAIN items :
        \E i \in PushesIn(pushes, items[p].host) : After(pushes, i) = Behind(items, p)
  BY DEF RecentKept
<1>3. ASSUME NEW p \in DOMAIN new
      PROVE  \/ {host} = {new[p].host} /\ Behind(new, p) = {}
             \/ \E i \in PushesIn(pushes, new[p].host) :
                  After(pushes, i) \cup {host} = Behind(new, p)
  <2>1. CASE new[p].host = host
    <3>1. new[Len(new)].host = host /\ Len(new) \in DOMAIN new
      BY <1>1 DEF Touched, IsDict, OneEach
    <3>2. p = Len(new) /\ DOMAIN new = 1 .. Len(new) /\ Len(new) \in Nat
      BY <1>1, <2>1, <3>1 DEF Touched, IsDict, OneEach
    <3>3. { r \in DOMAIN new : r > p } = {}
      BY <3>2
    <3> QED BY <2>1, <3>3 DEF Behind
  <2>2. CASE new[p].host # host
    <3>1. PICK j \in DOMAIN items : /\ items[j] = new[p]
                                    /\ Behind(new, p) = Behind(items, j) \cup {host}
      BY <1>1, <2>2 DEF Touched
    <3> QED BY <1>2, <3>1
  <2> QED BY <2>1, <2>2
<1>4. RecentKept(new, pushes, {host})
  BY <1>3 DEF RecentKept
<1>5. ASSUME NEW gone, ~Holds(new, gone), NEW i \in PushesIn(pushes, gone)
      PROVE  Cardinality((After(pushes, i) \cup {host}) \ {gone}) >= max_hosts
  <2> DEFINE others == (After(pushes, i) \cup {host}) \ {gone}
  <2>1. i \in Nat /\ i \in 1 .. Len(pushes) /\ pushes[i].host = gone /\ Len(pushes) \in Nat
    BY DEF PushesIn
  <2>2. IsFiniteSet(others)
    BY <2>1, AfterIsFinite, FS_AddElement, FS_RemoveElement
  <2>3. gone # host
    BY <1>1, <1>5 DEF Touched, Holds, IsDict, OneEach
  <2>4. max_hosts \in Nat
    BY HostHistoryAssumption
  <2>5. CASE ~Holds(items, gone)
    <3> DEFINE before == After(pushes, i) \ {gone}
    <3>1. before \in SUBSET others
      OBVIOUS
    <3>2. Cardinality(before) >= max_hosts
      <4>1. After(pushes, i) \cup {} = After(pushes, i)
        OBVIOUS
      <4> QED BY <2>5, <4>1 DEF OthersForgotten
    <3> HIDE DEF before, others
    <3>3. Cardinality(before) \in Nat /\ Cardinality(others) \in Nat
          /\ Cardinality(before) <= Cardinality(others)
      BY <2>2, <3>1, FS_Subset, FS_CardinalityType
    <3>4. Cardinality(others) >= max_hosts
      BY <2>4, <3>2, <3>3
    <3> QED BY <3>4 DEF others
  <2>6. CASE Holds(items, gone)
    <3>1. PICK p \in DOMAIN items : items[p].host = gone
      BY <2>6 DEF Holds
    <3>2. /\ p = 1 /\ Len(items) >= max_hosts
          /\ \A q \in DOMAIN items : items[q].host # host
      <4>1. ~\E q \in DOMAIN new : new[q] = items[p]
        BY <1>5, <3>1 DEF Holds
      <4> QED BY <1>1, <4>1 DEF Touched
    <3> DEFINE behind == Behind(items, p)
    <3>3. /\ IsFiniteSet(behind) /\ Cardinality(behind) = Len(items) - 1
          /\ gone \notin behind /\ host \notin behind
      <4>1. host \notin behind
        BY <3>2 DEF Behind
      <4> QED BY <3>1, <3>2, <4>1, BehindCounted
    <3>4. PICK k \in PushesIn(pushes, gone) : After(pushes, k) = behind
      BY <1>2, <3>1
    <3>5. k \in 1 .. Len(pushes)
      BY DEF PushesIn
    <3>6. i <= k
      <4>1. SUFFICES ASSUME ~(i <= k) PROVE FALSE
        OBVIOUS
      <4>2. i \in k + 1 .. Len(pushes)
        BY <2>1, <3>5, <4>1
      <4> QED BY <2>1, <3>3, <3>4, <4>2 DEF After
    <3>7. behind \subseteq After(pushes, i)
      <4>1. k + 1 .. Len(pushes) \subseteq i + 1 .. Len(pushes)
        BY <2>1, <3>5, <3>6
      <4> QED BY <3>4, <4>1 DEF After
    <3> HIDE DEF behind
    <3>8. behind \cup {host} \in SUBSET others
      BY <2>3, <3>3, <3>7
    <3> HIDE DEF others
    <3>9. /\ Cardinality(behind \cup {host}) = Cardinality(behind) + 1
          /\ Cardinality(behind \cup {host}) <= Cardinality(others)
          /\ Cardinality(others) \in Nat
      BY <2>2, <3>3, <3>8, FS_AddElement, FS_Subset, FS_CardinalityType
    <3>10. Len(items) \in Nat
      BY DEF IsDict, OneEach
    <3>11. Cardinality(others) >= max_hosts
      BY <2>4, <3>2, <3>3, <3>9, <3>10
    <3> QED BY <3>11 DEF others
  <2> QED BY <2>5, <2>6
<1>6. OthersForgotten(new, pushes, {host})
  BY <1>5 DEF OthersForgotten
<1> QED BY <1>4, <1>6 DEF new

(* The row makes the host that was reached the latest in the table of rows. *)
LEMMA AfterGrows ==
  ASSUME NEW pushes \in Seq(Pushed), NEW p \in Pushed
  PROVE  /\ \A i \in 1 .. Len(pushes) :
              After(Append(pushes, p), i) = After(pushes, i) \cup {p.host}
         /\ After(Append(pushes, p), Len(pushes) + 1) = {}
<1> DEFINE all == Append(pushes, p)
<1>1. PICK n \in Nat : n = Len(pushes)
  OBVIOUS
<1>2. Len(all) = n + 1 /\ all[n + 1] = p /\ \A m \in 1 .. n : all[m] = pushes[m]
  BY <1>1, AppendProperties
<1> HIDE DEF all
<1>3. ASSUME NEW i \in 1 .. n PROVE After(all, i) = After(pushes, i) \cup {p.host}
  <2>1. i + 1 .. n + 1 = (i + 1 .. n) \cup {n + 1}
    BY <1>3
  <2>2. \A m \in i + 1 .. n : all[m] = pushes[m]
    BY <1>2
  <2> QED BY <1>1, <1>2, <2>1, <2>2 DEF After
<1>4. After(all, n + 1) = {}
  BY <1>2 DEF After
<1> QED BY <1>1, <1>3, <1>4 DEF all

LEMMA RecentPushed ==
  ASSUME NEW items, IsDict(items), NEW new, IsDict(new), Len(new) = Len(items),
         \A i \in DOMAIN items : /\ new[i].host = items[i].host
                                 /\ Behind(new, i) = Behind(items, i),
         NEW pushes \in Seq(Pushed), NEW p \in Pushed, Holds(items, p.host),
         RecentKept(items, pushes, {p.host}), OthersForgotten(items, pushes, {p.host}),
         \A q \in DOMAIN items : items[q].host = p.host => Behind(items, q) = {}
  PROVE  /\ RecentKept(new, Append(pushes, p), {})
         /\ OthersForgotten(new, Append(pushes, p), {})
<1> DEFINE all == Append(pushes, p)
<1>1. PICK n \in Nat : n = Len(pushes)
  OBVIOUS
<1>2. /\ \A i \in 1 .. n : After(all, i) = After(pushes, i) \cup {p.host}
      /\ After(all, n + 1) = {}
  BY <1>1, AfterGrows
<1>3. /\ \A host : PushesIn(pushes, host) \subseteq 1 .. n
      /\ \A host : host # p.host => PushesIn(all, host) = PushesIn(pushes, host)
      /\ PushesIn(all, p.host) = PushesIn(pushes, p.host) \cup {n + 1}
  BY <1>1, PushesGrow
<1> HIDE DEF all
<1>4. DOMAIN new = DOMAIN items
  BY DEF IsDict, OneEach
<1>5. ASSUME NEW q \in DOMAIN items
      PROVE  \E i \in PushesIn(all, new[q].host) : After(all, i) \cup {} = Behind(new, q)
  <2>1. CASE items[q].host = p.host
    <3>1. n + 1 \in PushesIn(all, new[q].host) /\ After(all, n + 1) \cup {} = Behind(new, q)
      BY <1>2, <1>3, <2>1
    <3> QED BY <3>1
  <2>2. CASE items[q].host # p.host
    <3>1. PICK i \in PushesIn(pushes, items[q].host) :
            After(pushes, i) \cup {p.host} = Behind(items, q)
      BY <2>2 DEF RecentKept
    <3>2. i \in PushesIn(all, new[q].host) /\ After(all, i) \cup {} = Behind(new, q)
      BY <1>2, <1>3, <2>2, <3>1
    <3> QED BY <3>2
  <2> QED BY <2>1, <2>2
<1>6. RecentKept(new, all, {})
  BY <1>4, <1>5 DEF RecentKept
<1>7. ASSUME NEW host, ~Holds(new, host), NEW i \in PushesIn(all, host)
      PROVE  Cardinality((After(all, i) \cup {}) \ {host}) >= max_hosts
  <2>1. ~Holds(items, host)
    BY <1>4, <1>7 DEF Holds
  <2>2. host # p.host
    BY <2>1
  <2>3. i \in PushesIn(pushes, host)
        /\ After(all, i) \cup {} = After(pushes, i) \cup {p.host}
    BY <1>2, <1>3, <2>2
  <2>4. Cardinality((After(pushes, i) \cup {p.host}) \ {host}) >= max_hosts
    BY <2>1, <2>3 DEF OthersForgotten
  <2> QED BY <2>3, <2>4
<1>8. OthersForgotten(new, all, {})
  BY <1>7 DEF OthersForgotten
<1> QED BY <1>6, <1>8 DEF all

LEMMA RecentStep ==
  ASSUME ReachedInv, Alone, NEW t \in Threads, Threads = {t}, Moves(t),
         RecentKept(Held(t), pushed, Pend(t)), OthersForgotten(Held(t), pushed, Pend(t))
  PROVE  /\ RecentKept(Held(t)', pushed', Pend(t)')
         /\ OthersForgotten(Held(t)', pushed', Pend(t)')
<1>1. /\ IsDict(Held(t)) /\ Len(Held(t)) <= max_hosts /\ pushed \in Seq(Pushed)
      /\ \A i \in DOMAIN Held(t) :
           Held(t)[i].rows \in Seq(Nat) /\ Len(Held(t)[i].rows) <= seq_len
  BY HeldIs
<1>2. CASE Quiet(t)
  <2>1. Pend(t)' = Pend(t)
    BY <1>2 DEF Quiet, Pend
  <2> QED BY <1>2, <2>1 DEF Quiet
<1>3. CASE Reaches(t)
  <2>1. Pend(t) = {} /\ Pend(t)' = {call[t].host}
    BY <1>3 DEF Reaches, Pend
  <2> QED BY <1>1, <1>3, <2>1, RecentReached DEF Reaches
<1>4. CASE Pushing(t)
  <2> DEFINE p == [host |-> call[t].host, row |-> call[t].row]
  <2>1. /\ p \in Pushed /\ p.host = call[t].host /\ p.row = call[t].row
        /\ pushed' = Append(pushed, p) /\ Held(t)' = Push(Held(t), call[t].host, call[t].row)
    BY <1>4 DEF Pushing, Pushed
  <2>2. Pend(t) = {p.host} /\ Pend(t)' = {}
    BY <1>4, <2>1 DEF Pushing, Pend
  <2> HIDE DEF p
  <2>3. /\ Len(Held(t)) \in DOMAIN Held(t) /\ Held(t)[Len(Held(t))].host = p.host
        /\ DOMAIN Held(t) = 1 .. Len(Held(t)) /\ Len(Held(t)) \in Nat
    BY <1>4, <2>1, HostHeld DEF Pushing
  <2> DEFINE items == Held(t)
             new == Held(t)'
  <2>4. /\ IsDict(items) /\ pushed \in Seq(Pushed)
        /\ \A i \in DOMAIN items : items[i].rows \in Seq(Nat) /\ Len(items[i].rows) <= seq_len
        /\ Len(items) \in DOMAIN items /\ items[Len(items)].host = p.host
        /\ DOMAIN items = 1 .. Len(items) /\ Len(items) \in Nat
        /\ new = Push(items, p.host, p.row)
        /\ RecentKept(items, pushed, {p.host}) /\ OthersForgotten(items, pushed, {p.host})
    BY <1>1, <2>1, <2>2, <2>3
  <2> HIDE DEF items, new
  <2>5. /\ IsDict(new) /\ Len(new) = Len(items)
        /\ \A i \in DOMAIN items : /\ new[i].host = items[i].host
                                   /\ Behind(new, i) = Behind(items, i)
    <3>1. p.host \in Hosts /\ p.row \in Nat
      BY <2>1 DEF Pushed
    <3>2. \A i \in DOMAIN items : Len(items[i].rows) <= seq_len
      BY <2>4
    <3> DEFINE pushedTo == Push(items, p.host, p.row)
    <3>3. /\ IsDict(pushedTo) /\ Len(pushedTo) = Len(items)
          /\ \A i \in DOMAIN items : /\ pushedTo[i].host = items[i].host
                                     /\ Behind(pushedTo, i) = Behind(items, i)
      BY <2>4, <3>1, <3>2, PushesRow
    <3> QED BY <2>4, <3>3
  <2>6. Holds(items, p.host)
    BY <2>4 DEF Holds
  <2>7. ASSUME NEW q \in DOMAIN items, items[q].host = p.host PROVE Behind(items, q) = {}
    <3>1. q = Len(items)
      BY <2>4, <2>7 DEF IsDict, OneEach
    <3>2. { r \in DOMAIN items : r > q } = {}
      BY <2>4, <3>1
    <3> QED BY <3>2 DEF Behind
  <2>8. /\ RecentKept(new, Append(pushed, p), {})
        /\ OthersForgotten(new, Append(pushed, p), {})
    BY <2>1, <2>4, <2>5, <2>6, <2>7, RecentPushed
  <2> QED BY <2>1, <2>2, <2>8 DEF new
<1> QED BY <1>2, <1>3, <1>4 DEF Moves

LEMMA InitRecent == Init => RecentInv
<1> SUFFICES ASSUME Init PROVE RecentInv
  OBVIOUS
<1>1. data = <<>> /\ pushed = <<>> /\ \A t \in Threads : pc[t] = "idle"
  BY DEF Init, Threads
<1>2. ASSUME NEW t \in Threads PROVE DOMAIN Held(t) = {}
  <2>1. Held(t) = RowsIn(data, deques)
    BY <1>1 DEF Held
  <2>2. DOMAIN Held(t) = DOMAIN data
    BY <2>1 DEF RowsIn
  <2> QED BY <1>1, <2>2
<1>3. \A t \in Threads : /\ RecentKept(Held(t), pushed, Pend(t))
                         /\ OthersForgotten(Held(t), pushed, Pend(t))
  BY <1>1, <1>2 DEF RecentKept, OthersForgotten, PushesIn
<1> QED BY <1>3, InitReached DEF RecentInv

LEMMA RecentInvariance == Spec => []RecentInv
<1>1. RecentInv /\ ReachedInv' /\ [Next]_vars => RecentInv'
  <2> SUFFICES ASSUME RecentInv, ReachedInv', [Next]_vars PROVE RecentInv'
    OBVIOUS
  <2>1. Alone' = Alone
    BY ScenarioStays DEF RecentInv
  <2>2. ASSUME Alone
        PROVE  \A t \in Threads' : /\ RecentKept(Held(t)', pushed', Pend(t)')
                                   /\ OthersForgotten(Held(t)', pushed', Pend(t)')
    <3>1. PICK t \in Threads : Threads = {t} /\ Threads' = {t} /\ Moves(t)
      BY <2>2, OneCaller DEF RecentInv
    <3>2. /\ RecentKept(Held(t)', pushed', Pend(t)')
          /\ OthersForgotten(Held(t)', pushed', Pend(t)')
      BY <2>2, <3>1, RecentStep DEF RecentInv
    <3> QED BY <3>1, <3>2
  <2> QED BY <2>1, <2>2 DEF RecentInv
<1> QED BY <1>1, InitRecent, ReachedInvariance, PTL DEF Spec

(* With one caller, a host has rows exactly when fewer than max_hosts other *)
(* hosts had a flow since its own latest one (host_history.py:9-11).        *)
THEOREM RecentHostsAreKept == Spec => []MostRecentKept
<1>1. RecentInv => MostRecentKept
  <2> SUFFICES ASSUME RecentInv, Alone, \A t \in Threads : pc[t] = "idle", NEW host \in Hosts
               PROVE  Holds(data, host) <=>
                        \E i \in Pushes(host) :
                          Cardinality(Between(i, Len(pushed) + 1) \ {host}) < max_hosts
    BY DEF MostRecentKept
  <2>1. PICK t \in Threads : Threads = {t}
    BY TheCaller DEF RecentInv, ReachedInv, BoundInv
  <2> DEFINE items == Held(t)
  <2>2. RecentKept(items, pushed, {}) /\ OthersForgotten(items, pushed, {})
    <3>1. Pend(t) = {}
      BY DEF Pend, InPush
    <3> QED BY <3>1 DEF RecentInv
  <2>3. /\ IsDict(items) /\ Len(items) <= max_hosts /\ pushed \in Seq(Pushed)
        /\ Holds(data, host) <=> Holds(items, host)
    <3>1. pc[t] # "insert"
      OBVIOUS
    <3> QED BY <2>1, <3>1, HeldIs DEF RecentInv
  <2> HIDE DEF items
  <2>4. Pushes(host) = PushesIn(pushed, host)
    BY DEF Pushes, PushesIn
  <2>5. \A i : Between(i, Len(pushed) + 1) = After(pushed, i)
    <3>1. Len(pushed) \in Int /\ (Len(pushed) + 1) - 1 = Len(pushed)
      BY <2>3
    <3> QED BY <3>1 DEF Between, After
  <2>6. max_hosts \in Nat
    BY HostHistoryAssumption
  <2>7. CASE Holds(items, host)
    <3>1. PICK p \in DOMAIN items : items[p].host = host
      BY <2>7 DEF Holds
    <3>2. PICK i \in PushesIn(pushed, host) : After(pushed, i) = Behind(items, p)
      BY <2>2, <3>1 DEF RecentKept
    <3>3. /\ IsFiniteSet(Behind(items, p)) /\ host \notin Behind(items, p)
          /\ Cardinality(Behind(items, p)) = Len(items) - p
      BY <2>3, <3>1, BehindCounted
    <3>4. Behind(items, p) \ {host} = Behind(items, p)
      BY <3>3
    <3>5. p \in 1 .. Len(items) /\ Len(items) \in Nat
      BY <2>3 DEF IsDict, OneEach
    <3>6. Cardinality(Between(i, Len(pushed) + 1) \ {host}) = Len(items) - p
      BY <2>5, <3>2, <3>3, <3>4
    <3>7. Len(items) - p < max_hosts
      BY <2>3, <2>6, <3>5
    <3> QED BY <2>3, <2>4, <2>7, <3>6, <3>7
  <2>8. CASE ~Holds(items, host)
    <3>1. ASSUME NEW i \in PushesIn(pushed, host)
          PROVE  ~(Cardinality(Between(i, Len(pushed) + 1) \ {host}) < max_hosts)
      <4> DEFINE others == After(pushed, i) \ {host}
      <4>1. Cardinality(others) >= max_hosts
        <5>1. After(pushed, i) \cup {} = After(pushed, i)
          OBVIOUS
        <5> QED BY <2>2, <2>8, <5>1 DEF OthersForgotten
      <4>2. Cardinality(others) \in Nat
        <5>1. i \in Nat /\ Len(pushed) \in Nat
          BY <2>3 DEF PushesIn
        <5> QED BY <5>1, AfterIsFinite, FS_RemoveElement, FS_CardinalityType
      <4> HIDE DEF others
      <4>3. ~(Cardinality(others) < max_hosts)
        BY <2>6, <4>1, <4>2
      <4> QED BY <2>5, <4>3 DEF others
    <3> QED BY <2>3, <2>4, <2>8, <3>1
  <2> QED BY <2>3, <2>7, <2>8
<1> QED BY <1>1, RecentInvariance, PTL

------------------------------------------------------------------------------
(* One caller: the artifacts it needs are there                             *)

Required == Artifacts \ Optional
Networks == {"light", "heavy"}

LEMMA ArtifactNames ==
  /\ Required = {"model", "scaler", "theta", "light", "heavy"}
  /\ LoadOrder[1] = "model" /\ LoadOrder[2] = "scaler" /\ LoadOrder[3] = "theta"
  /\ LoadOrder[4] = "light" /\ LoadOrder[5] = "heavy" /\ LoadOrder[6] = "calibrator"
<1>1. DOMAIN LoadOrder = {1, 2, 3, 4, 5, 6}
  BY DEF LoadOrder
<1>2. /\ LoadOrder[1] = "model" /\ LoadOrder[2] = "scaler" /\ LoadOrder[3] = "theta"
      /\ LoadOrder[4] = "light" /\ LoadOrder[5] = "heavy" /\ LoadOrder[6] = "calibrator"
  BY DEF LoadOrder
<1>3. Artifacts = {"model", "scaler", "theta", "light", "heavy", "calibrator"}
  BY <1>1, <1>2 DEF Artifacts
<1> QED BY <1>2, <1>3 DEF Required, Optional

(* The steps on the history and the verdict after them, model_used chosen.  *)
Chosen == {"append", "move", "admit", "evict", "insert", "lookup", "push", "window", "renew",
           "take", "read", "verify"}

(* A call past its loads has every required global; between calls the model *)
(* is loaded only together with the others, because a load that fails       *)
(* forgets it.                                                              *)
LoadedInv(t) ==
  /\ pc[t] # "idle" /\ call[t].complete => Required \subseteq disk
  /\ pc[t] = "load" => \A i \in 1 .. 5 : i < call[t].next => LoadOrder[i] \in loaded
  /\ pc[t] # "load" /\ "model" \in loaded => Required \subseteq loaded
  /\ pc[t] \notin {"idle", "load"} => Required \subseteq loaded
  /\ pc[t] \in Chosen => call[t].model_used \in Networks

RetryInv ==
  /\ ReachedInv
  /\ Networks \subseteq disk
  /\ Alone => /\ \A c \in failed : ~c.complete
              /\ \A t \in Threads : LoadedInv(t)

LEMMA RetryStep ==
  ASSUME RetryInv, [Next]_vars, Alone, NEW t \in Threads, Threads = {t},
         LoadedInv(t), \A c \in failed : ~c.complete
  PROVE  /\ Networks \subseteq disk'
         /\ \A c \in failed' : ~c.complete
         /\ LoadedInv(t)'
<1>1. /\ pc \in [Threads -> Labels] /\ IsCall(call[t]) /\ DOMAIN call = Threads
      /\ pc[t] = "load" => call[t].next \in 1 .. 6
  BY DEF RetryInv, ReachedInv, BoundInv, HeapInv, HeapTyped, ThreadsTyped
<1>2. Networks \subseteq disk /\ Networks \subseteq Required /\ Pickles \subseteq Required
      /\ "model" \in Required /\ {"scaler", "theta"} \subseteq Required
  BY ArtifactNames DEF RetryInv, Networks, Pickles
<1>3. CASE UNCHANGED vars
  BY <1>2, <1>3 DEF vars, LoadedInv
<1>4. ASSUME NEW artifact, Install(artifact)
      PROVE  /\ Networks \subseteq disk'
             /\ \A c \in failed' : ~c.complete
             /\ LoadedInv(t)'
  BY <1>2, <1>4 DEF Install, LoadedInv
<1>5. ASSUME NEW host, Call(t, host)
      PROVE  /\ Networks \subseteq disk'
             /\ \A c \in failed' : ~c.complete
             /\ LoadedInv(t)'
  <2> DEFINE c == [NoCall EXCEPT !.row = calls + 1, !.host = host,
                                 !.complete = Artifacts \ Optional \subseteq disk,
                                 !.calibrator = "calibrator" \in disk]
  <2>1. c.next = 1 /\ c.complete = (Required \subseteq disk)
    BY NoCallIs DEF Fields, Required
  <2>2. call' = [call EXCEPT ![t] = c]
    BY <1>5 DEF Call
  <2> HIDE DEF c
  <2>3. call'[t] = c
    BY <1>1, <2>2
  <2>4. /\ pc[t] = "idle" /\ pc'[t] = IF "model" \in loaded THEN "triage" ELSE "load"
        /\ UNCHANGED <<disk, loaded, failed>>
    BY <1>1, <1>5 DEF Call, Goto
  <2>5. Networks \subseteq disk' /\ \A d \in failed' : ~d.complete
    BY <1>2, <2>4
  <2>6. /\ pc'[t] # "idle" /\ call'[t].complete => Required \subseteq disk'
        /\ pc'[t] = "load" => \A i \in 1 .. 5 : i < call'[t].next => LoadOrder[i] \in loaded'
    <3>1. \A i \in 1 .. 5 : ~(i < 1)
      OBVIOUS
    <3> QED BY <2>1, <2>3, <2>4, <3>1
  <2>7. /\ pc'[t] # "load" /\ "model" \in loaded' => Required \subseteq loaded'
        /\ pc'[t] \notin {"idle", "load"} => Required \subseteq loaded'
        /\ pc'[t] \notin Chosen
    BY <2>4 DEF LoadedInv, Chosen
  <2> QED BY <2>5, <2>6, <2>7 DEF LoadedInv
<1>6. CASE LoadNext(t)
  <2> DEFINE c == [call[t] EXCEPT !.next = call[t].next + 1]
  <2>1. /\ c.complete = call[t].complete /\ c.next = call[t].next + 1
    BY <1>1 DEF IsCall, Fields
  <2>2. call' = [call EXCEPT ![t] = c]
    BY <1>6 DEF LoadNext
  <2> HIDE DEF c
  <2>3. call'[t] = c
    BY <1>1, <2>2
  <2>4. /\ pc[t] = "load" /\ pc'[t] = IF Wanted(t) = "calibrator" THEN "triage" ELSE "load"
        /\ Wanted(t) \in disk \cup Optional /\ loaded' = loaded \cup ({Wanted(t)} \cap disk)
        /\ UNCHANGED <<disk, failed>>
    BY <1>1, <1>6 DEF LoadNext, Goto
  <2>5. /\ Wanted(t) = LoadOrder[call[t].next]
        /\ \A i \in 1 .. 6 : LoadOrder[i] = "calibrator" <=> i = 6
        /\ \A i \in 1 .. 5 : LoadOrder[i] \notin Optional
    BY ArtifactNames DEF Wanted, Optional
  <2>6. \A i \in 1 .. 5 : i < call[t].next + 1 => LoadOrder[i] \in loaded'
    <3>1. \A i \in 1 .. 5 : i < call[t].next + 1 => i < call[t].next \/ i = call[t].next
      BY <1>1, <2>4
    <3>2. call[t].next \in 1 .. 5 => LoadOrder[call[t].next] \in loaded'
      BY <2>4, <2>5
    <3> QED BY <2>4, <3>1, <3>2 DEF LoadedInv
  <2>7. call[t].next = 6 => Required \subseteq loaded'
    BY <2>6, ArtifactNames
  <2>8. Wanted(t) = "calibrator" <=> call[t].next = 6
    BY <1>1, <2>4, <2>5
  <2> QED BY <1>2, <2>1, <2>3, <2>4, <2>6, <2>7, <2>8 DEF LoadedInv, Chosen
<1>7. CASE PickleMissing(t)
  <2>1. ~call[t].complete
    BY <1>2, <1>7 DEF PickleMissing, LoadedInv
  <2>2. /\ pc'[t] = "idle" /\ "model" \notin loaded' /\ UNCHANGED <<disk, call>>
        /\ failed' = failed \cup {call[t]}
    BY <1>1, <1>7 DEF PickleMissing, Fail, Goto
  <2> QED BY <1>2, <2>1, <2>2 DEF LoadedInv, Chosen
<1>8. ~WeightsMissing(t)
  BY <1>2 DEF WeightsMissing, Networks
<1>9. Needs(t) \subseteq loaded
  <2>1. CASE pc[t] = "triage"
    BY <1>2, <2>1 DEF Needs, LoadedInv
  <2>2. CASE pc[t] = "verify"
    BY <1>2, <2>2 DEF Needs, LoadedInv, Chosen
  <2>3. CASE pc[t] = "explain"
    BY <1>2, <2>3 DEF Needs, LoadedInv
  <2>4. CASE pc[t] \notin {"triage", "verify", "explain"}
    BY <2>4 DEF Needs
  <2> QED BY <2>1, <2>2, <2>3, <2>4
<1>10. ~ErrorStep(t)
  BY <1>9, NoKeyError DEF RetryInv, ErrorStep, GlobalIsNone
<1>11. ASSUME NEW model_used \in Networks, Triage(t, model_used)
       PROVE  /\ Networks \subseteq disk'
              /\ \A c \in failed' : ~c.complete
              /\ LoadedInv(t)'
  <2> DEFINE c == [call[t] EXCEPT !.calibrated = "calibrator" \in loaded,
                                  !.model_used = model_used]
  <2>1. c.complete = call[t].complete /\ c.model_used = model_used
    BY <1>1 DEF IsCall, Fields
  <2>2. call' = [call EXCEPT ![t] = c]
    BY <1>11 DEF Triage
  <2> HIDE DEF c
  <2>3. call'[t] = c
    BY <1>1, <2>2
  <2>4. pc[t] = "triage" /\ pc'[t] = "append" /\ UNCHANGED <<disk, loaded, failed>>
    BY <1>1, <1>11 DEF Triage, Goto
  <2> QED BY <1>2, <2>1, <2>3, <2>4 DEF LoadedInv, Chosen
<1>12. ASSUME pc[t] \in Chosen, pc'[t] \in Chosen \cup {"explain"},
               UNCHANGED <<disk, loaded, failed>>, call'[t].complete = call[t].complete,
               call'[t].model_used = call[t].model_used
       PROVE  /\ Networks \subseteq disk'
              /\ \A c \in failed' : ~c.complete
              /\ LoadedInv(t)'
  BY <1>2, <1>12 DEF LoadedInv, Chosen
<1>13. CASE LookUp(t)
  <2> DEFINE c == [call[t] EXCEPT !.deque = DequeOf(data, call[t].host)]
  <2>1. c.complete = call[t].complete /\ c.model_used = call[t].model_used
    BY <1>1 DEF IsCall, Fields
  <2>2. call' = [call EXCEPT ![t] = c]
    BY <1>13 DEF LookUp
  <2> HIDE DEF c
  <2>3. call'[t] = c
    BY <1>1, <2>2
  <2>4. /\ pc[t] \in {"lookup", "take"} /\ pc'[t] \in {"push", "read"}
        /\ UNCHANGED <<disk, loaded, failed>>
    BY <1>1, <1>13 DEF LookUp, Goto, Unshared
  <2> QED BY <1>12, <2>1, <2>3, <2>4 DEF Chosen
<1>14. CASE ReadRows(t)
  <2> DEFINE c == [call[t] EXCEPT !.sequence = Padded(deques[call[t].deque])]
  <2>1. c.complete = call[t].complete /\ c.model_used = call[t].model_used
    BY <1>1 DEF IsCall, Fields
  <2>2. call' = [call EXCEPT ![t] = c]
    BY <1>14 DEF ReadRows
  <2> HIDE DEF c
  <2>3. call'[t] = c
    BY <1>1, <2>2
  <2>4. pc[t] = "read" /\ pc'[t] = "verify" /\ UNCHANGED <<disk, loaded, failed>>
    BY <1>1, <1>14 DEF ReadRows, Goto, Unshared
  <2> QED BY <1>12, <2>1, <2>3, <2>4 DEF Chosen
<1>15. CASE AppendStep(t) \/ Renew(t) \/ OpenWindow(t) \/ Verify(t)
  <2>1. UNCHANGED <<disk, loaded, failed, call>>
    BY <1>15 DEF AppendStep, AskForHost, Admit, EvictHost, InsertHost, PushRow, Renew,
                 OpenWindow, Verify, Unshared
  <2>2. pc[t] \in Chosen
    BY <1>15 DEF Chosen, AppendStep, AskForHost, Admit, EvictHost, InsertHost, PushRow, Renew,
                 OpenWindow, Verify
  <2>3. \E label \in Chosen \cup {"explain"} : pc' = [pc EXCEPT ![t] = label]
    BY <1>15 DEF Chosen, AppendStep, AskForHost, Admit, EvictHost, InsertHost, PushRow, Renew,
                 OpenWindow, Verify, Goto
  <2>4. pc'[t] \in Chosen \cup {"explain"}
    BY <1>1, <2>3
  <2> QED BY <1>12, <2>1, <2>2, <2>4
<1>16. CASE Explain(t)
  <2>1. pc[t] = "explain" /\ pc'[t] = "idle" /\ UNCHANGED <<disk, loaded, failed, call>>
    BY <1>1, <1>16 DEF Explain, Goto
  <2> QED BY <1>2, <2>1 DEF LoadedInv, Chosen
<1> QED BY <1>3, <1>4, <1>5, <1>6, <1>7, <1>8, <1>10, <1>11, <1>13, <1>14, <1>15, <1>16
        DEF Next, LoadStep, ScoreStep, WindowStep, Networks

(* When the networks' weights are there from the start, a single caller's   *)
(* call that begins when every required artifact is on disk does not fail,  *)
(* whatever pickles were missing before (predict_interface.py:77-82).       *)
THEOREM RetryAfterMissingPickle ==
  Spec /\ ({"light", "heavy"} \subseteq disk) => []RetrySucceeds
<1>1. Init /\ ({"light", "heavy"} \subseteq disk) => RetryInv
  <2> SUFFICES ASSUME Init, {"light", "heavy"} \subseteq disk PROVE RetryInv
    OBVIOUS
  <2>1. \A t \in Threads : pc[t] = "idle"
    BY DEF Init, Threads
  <2>2. loaded = {} /\ failed = {}
    BY DEF Init
  <2> QED BY <2>1, <2>2, InitReached DEF RetryInv, LoadedInv, Networks, Chosen
<1>2. RetryInv /\ ReachedInv' /\ [Next]_vars => RetryInv'
  <2> SUFFICES ASSUME RetryInv, ReachedInv', [Next]_vars PROVE RetryInv'
    OBVIOUS
  <2>1. Alone' = Alone
    BY ScenarioStays DEF RetryInv
  <2>2. disk \subseteq disk'
    BY DEF Next, vars, Install, Call, LoadStep, LoadNext, PickleMissing, WeightsMissing,
           ScoreStep, Triage, AppendStep, AskForHost, Admit, EvictHost, InsertHost, PushRow,
           Renew, LookUp, WindowStep, OpenWindow, ReadRows, Verify, Explain, ErrorStep,
           GlobalIsNone, HostEvicted, Unshared
  <2>3. ASSUME Alone
        PROVE  (\A c \in failed' : ~c.complete) /\ \A t \in Threads' : LoadedInv(t)'
    <3>1. PICK t \in Threads : Threads = {t} /\ Threads' = {t}
      BY <2>3, OneCaller DEF RetryInv
    <3>2. (\A c \in failed' : ~c.complete) /\ LoadedInv(t)'
      BY <2>3, <3>1, RetryStep DEF RetryInv
    <3> QED BY <3>1, <3>2
  <2> QED BY <2>1, <2>2, <2>3 DEF RetryInv
<1>3. RetryInv => RetrySucceeds
  BY DEF RetryInv, RetrySucceeds
<1> QED BY <1>1, <1>2, <1>3, ReachedInvariance, PTL DEF Spec

------------------------------------------------------------------------------
(* The sequences that build_sequences makes of a whole table                *)

LEMMA SmallestPosition ==
  ASSUME NEW S \in SUBSET Nat, S # {}
  PROVE  \E m \in S : \A n \in S : m <= n
<1> DEFINE T == { 1 .. n : n \in S }
<1>1. IsWellFoundedOn(StrictSubsetOrdering(Nat), FiniteSubsetsOf(Nat))
  BY FS_StrictSubsetOrderingWellFounded
<1>2. T \subseteq FiniteSubsetsOf(Nat) /\ T # {}
  <2>1. \A n \in S : 1 .. n \in SUBSET Nat /\ IsFiniteSet(1 .. n)
    BY FS_Interval
  <2> QED BY <2>1 DEF FiniteSubsetsOf
<1>3. \E x \in T : \A y \in T : <<y, x>> \notin StrictSubsetOrdering(Nat)
  BY <1>1, <1>2, WFMin
<1>4. PICK m \in S : \A n \in S : <<1 .. n, 1 .. m>> \notin StrictSubsetOrdering(Nat)
  BY <1>3
<1>5. ASSUME NEW n \in S, n < m PROVE FALSE
  <2>1. 1 .. n \subseteq 1 .. m /\ m \in 1 .. m /\ m \notin 1 .. n
    BY <1>5
  <2>2. <<1 .. n, 1 .. m>> \in (SUBSET Nat) \X (SUBSET Nat)
    OBVIOUS
  <2> QED BY <1>4, <2>1, <2>2 DEF StrictSubsetOrdering
<1> QED BY <1>5

(* Induction over the naturals, for a set of them.                          *)
LEMMA AllNaturals ==
  ASSUME NEW S \in SUBSET Nat, 0 \in S, \A n \in S : n + 1 \in S
  PROVE  \A n \in Nat : n \in S
<1> SUFFICES ASSUME Nat \ S # {} PROVE FALSE
  OBVIOUS
<1>1. PICK m \in Nat \ S : \A n \in Nat \ S : m <= n
  BY SmallestPosition
<1>2. m - 1 \in S
  BY <1>1
<1> QED BY <1>1, <1>2

(* A set of positions has one with any smaller number of later ones.        *)
LEMMA LaterReached ==
  \A n \in Nat : \A mine \in SUBSET (1 .. n) : \A l \in Nat :
    l < Cardinality(mine) => \E k \in mine : Cardinality({ m \in mine : m > k }) = l
<1> DEFINE S == { n \in Nat : \A mine \in SUBSET (1 .. n) : \A l \in Nat :
                    l < Cardinality(mine) =>
                      \E k \in mine : Cardinality({ m \in mine : m > k }) = l }
<1>1. 0 \in S
  <2>1. 1 .. 0 = {}
    OBVIOUS
  <2>2. \A mine \in SUBSET (1 .. 0) : Cardinality(mine) = 0
    BY <2>1, FS_EmptySet
  <2> QED BY <2>2
<1>2. ASSUME NEW n \in S PROVE n + 1 \in S
  <2> SUFFICES ASSUME NEW mine \in SUBSET (1 .. n + 1), NEW l \in Nat, l < Cardinality(mine)
               PROVE  \E k \in mine : Cardinality({ m \in mine : m > k }) = l
    OBVIOUS
  <2>1. CASE n + 1 \notin mine
    <3>1. mine \in SUBSET (1 .. n)
      BY <2>1
    <3> QED BY <1>2, <3>1
  <2>2. CASE n + 1 \in mine
    <3> DEFINE rest == mine \ {n + 1}
    <3>1. rest \in SUBSET (1 .. n) /\ mine = rest \cup {n + 1}
      BY <2>2
    <3>2. IsFiniteSet(rest)
      <4>1. IsFiniteSet(1 .. n)
        BY FS_Interval
      <4> QED BY <3>1, <4>1, FS_Subset
    <3> HIDE DEF rest
    <3>3. /\ Cardinality(rest) \in Nat
          /\ Cardinality(mine) = Cardinality(rest) + 1
          /\ Cardinality({ m \in mine : m > n + 1 }) = 0
          /\ \A k \in rest : /\ Cardinality({ m \in rest : m > k }) \in Nat
                             /\ Cardinality({ m \in mine : m > k })
                                  = Cardinality({ m \in rest : m > k }) + 1
      <4>1. n \in Nat
        OBVIOUS
      <4> QED BY <3>1, <3>2, <4>1, LaterGrows
    <3>4. CASE l = 0
      BY <2>2, <3>3, <3>4
    <3>5. CASE l # 0
      <4>1. l - 1 \in Nat /\ l - 1 < Cardinality(rest) /\ (l - 1) + 1 = l
        BY <3>3, <3>5
      <4>2. PICK k \in rest : Cardinality({ m \in rest : m > k }) = l - 1
        BY <1>2, <3>1, <4>1
      <4>3. k \in mine /\ Cardinality({ m \in mine : m > k }) = l
        BY <3>1, <3>3, <4>1, <4>2
      <4> QED BY <4>3
    <3> QED BY <3>4, <3>5
  <2> QED BY <2>1, <2>2
<1> HIDE DEF S
<1>3. \A n \in Nat : n \in S
  <2>1. S \in SUBSET Nat
    BY DEF S
  <2> QED BY <1>1, <1>2, <2>1, AllNaturals
<1> QED BY <1>3 DEF S

(* As many of the latest rows as the window holds, if there are as many.    *)
NewestRows(rows, mine, pushes) ==
  /\ LatestRows(rows, mine, pushes)
  /\ Len(rows) = IF Cardinality(mine) < seq_len THEN Cardinality(mine) ELSE seq_len

LEMMA NewestRowsGrow ==
  ASSUME NEW n \in Nat, NEW mine \in SUBSET (1 .. n), NEW rows \in Seq(Nat),
         NEW pushes, pushes[n + 1].row \in Nat, NewestRows(rows, mine, pushes)
  PROVE  NewestRows(Capped(Append(rows, pushes[n + 1].row)), mine \cup {n + 1}, pushes)
<1> DEFINE new == Capped(Append(rows, pushes[n + 1].row))
<1>1. LatestRows(new, mine \cup {n + 1}, pushes)
  BY LatestRowsGrow DEF NewestRows
<1>2. IsFiniteSet(mine)
  <2>1. IsFiniteSet(1 .. n)
    BY FS_Interval
  <2> QED BY <2>1, FS_Subset
<1>3. Cardinality(mine) \in Nat /\ Cardinality(mine \cup {n + 1}) = Cardinality(mine) + 1
  BY <1>2, LaterGrows
<1>4. Len(rows) <= seq_len /\ Len(rows) \in Nat
  BY DEF NewestRows, LatestRows
<1>5. Len(new) = IF Len(rows) < seq_len THEN Len(rows) + 1 ELSE seq_len
  BY <1>4, CappedRows
<1>6. Len(rows) = IF Cardinality(mine) < seq_len THEN Cardinality(mine) ELSE seq_len
  BY DEF NewestRows
<1> HIDE DEF new
<1>7. CASE Cardinality(mine) < seq_len
  BY <1>1, <1>3, <1>4, <1>5, <1>6, <1>7, HostHistoryAssumption DEF NewestRows, new
<1>8. CASE ~(Cardinality(mine) < seq_len)
  BY <1>1, <1>3, <1>4, <1>5, <1>6, <1>8, HostHistoryAssumption DEF NewestRows, new
<1> QED BY <1>7, <1>8

LEMMA NewestRowsUnique ==
  ASSUME NEW n \in Nat, NEW mine \in SUBSET (1 .. n), NEW pushes,
         NEW rows \in Seq(Nat), NEW same \in Seq(Nat),
         NewestRows(rows, mine, pushes), NewestRows(same, mine, pushes)
  PROVE  rows = same
<1>1. PICK len \in Nat : len = Len(rows) /\ len = Len(same) /\ len <= Cardinality(mine)
  BY DEF NewestRows, LatestRows
<1>2. Cardinality(mine) \in Nat
  <2>1. IsFiniteSet(1 .. n)
    BY FS_Interval
  <2> QED BY <2>1, FS_Subset, FS_CardinalityType
<1>3. ASSUME NEW i \in 1 .. len PROVE rows[i] = same[i]
  <2>1. len - i \in Nat /\ len - i < len /\ len - i < Cardinality(mine) /\ len - (len - i) = i
    BY <1>1, <1>2
  <2>2. PICK k \in mine : Cardinality({ m \in mine : m > k }) = len - i
    BY <2>1, LaterReached
  <2>3. rows[len - (len - i)] = pushes[k].row /\ same[len - (len - i)] = pushes[k].row
    BY <1>1, <2>1, <2>2 DEF NewestRows, LatestRows
  <2> QED BY <2>1, <2>3
<1>4. Len(rows) = Len(same) /\ \A i \in 1 .. Len(rows) : rows[i] = same[i]
  BY <1>1, <1>3
<1> QED BY <1>4

(* One row of the table is put into the buffer of its host.                 *)
Buffered(table, buffers, n) ==
  [buffers EXCEPT ![table[n].host] =
     Capped(Append(buffers[table[n].host], table[n].row))]

NoBuffers(table) == [h \in { table[i].host : i \in DOMAIN table } |-> <<>>]

AreBuffers(f, table, n) ==
  f = [m \in 0 .. n |-> IF m = 0 THEN NoBuffers(table) ELSE Buffered(table, f[m - 1], m)]

(* The recursive function of build_sequences exists.                        *)
LEMMA BuffersExist ==
  ASSUME NEW table
  PROVE  \A n \in Nat : \E f : AreBuffers(f, table, n)
<1> DEFINE S == { n \in Nat : \E f : AreBuffers(f, table, n) }
<1>1. 0 \in S
  <2> DEFINE f == [m \in 0 .. 0 |-> NoBuffers(table)]
  <2>1. AreBuffers(f, table, 0)
    <3>1. \A m \in 0 .. 0 : m = 0
      OBVIOUS
    <3> QED BY <3>1 DEF AreBuffers
  <2> QED BY <2>1
<1>2. ASSUME NEW n \in S PROVE n + 1 \in S
  <2>1. PICK f : AreBuffers(f, table, n)
    OBVIOUS
  <2> DEFINE g == [m \in 0 .. n + 1 |-> IF m <= n THEN f[m] ELSE Buffered(table, f[n], n + 1)]
             Value(m) == IF m = 0 THEN NoBuffers(table) ELSE Buffered(table, g[m - 1], m)
  <2>2. n \in Nat /\ n + 1 \in Nat
    OBVIOUS
  <2>3. ASSUME NEW m \in 0 .. n + 1 PROVE g[m] = Value(m)
    <3>1. CASE m = 0
      BY <2>1, <2>2, <3>1 DEF AreBuffers
    <3>2. CASE m # 0 /\ m <= n
      <4>1. m \in 0 .. n /\ m - 1 \in 0 .. n + 1 /\ m - 1 <= n
        BY <2>2, <3>2
      <4>2. g[m] = f[m] /\ g[m - 1] = f[m - 1]
        BY <3>2, <4>1
      <4>3. f[m] = Buffered(table, f[m - 1], m)
        BY <2>1, <3>2, <4>1 DEF AreBuffers
      <4> HIDE DEF g
      <4> QED BY <3>2, <4>2, <4>3
    <3>3. CASE m = n + 1
      <4>1. g[m] = Buffered(table, f[n], n + 1) /\ g[n] = f[n] /\ m - 1 = n /\ m # 0
        BY <2>2, <3>3
      <4> HIDE DEF g
      <4> QED BY <3>3, <4>1
    <3> QED BY <2>2, <3>1, <3>2, <3>3
  <2>4. g = [m \in 0 .. n + 1 |-> g[m]]
    OBVIOUS
  <2> HIDE DEF g
  <2>5. AreBuffers(g, table, n + 1)
    BY <2>3, <2>4 DEF AreBuffers
  <2> QED BY <2>2, <2>5
<1> HIDE DEF S
<1>3. \A n \in Nat : n \in S
  <2>1. S \in SUBSET Nat
    BY DEF S
  <2> QED BY <1>1, <1>2, <2>1, AllNaturals
<1> QED BY <1>3 DEF S

LEMMA BuildSequencesIs ==
  ASSUME NEW table \in Seq(Pushed)
  PROVE  \E f : /\ AreBuffers(f, table, Len(table))
                /\ BuildSequences(table)
                     = [n \in DOMAIN table |-> Padded(f[n][table[n].host])]
<1> DEFINE buffers == CHOOSE f : AreBuffers(f, table, Len(table))
<1>1. AreBuffers(buffers, table, Len(table))
  <2>1. Len(table) \in Nat
    OBVIOUS
  <2> QED BY <2>1, BuffersExist
<1>2. BuildSequences(table) = [n \in DOMAIN table |-> Padded(buffers[n][table[n].host])]
  BY DEF BuildSequences, AreBuffers, Buffered, NoBuffers
<1> QED BY <1>1, <1>2

(* The rows of a host at the positions from first to last. *)
RowsOf(pushes, host, first, last) == { i \in first .. last : pushes[i].host = host }

LEMMA NoNewestRows ==
  ASSUME NEW pushes
  PROVE  NewestRows(<<>>, {}, pushes)
<1>1. Len(<<>>) = 0 /\ Cardinality({}) = 0 /\ seq_len \in Nat /\ seq_len > 0
  BY FS_EmptySet, HostHistoryAssumption
<1> QED BY <1>1 DEF NewestRows, LatestRows

LEMMA BufferedRows ==
  ASSUME NEW pushes \in Seq(Pushed), NEW d \in Nat, NEW table \in Seq(Pushed),
         d + Len(table) <= Len(pushes),
         \A i \in 1 .. Len(table) : table[i] = pushes[d + i],
         NEW f, AreBuffers(f, table, Len(table))
  PROVE  \A n \in 0 .. Len(table) : \A h \in { table[i].host : i \in DOMAIN table } :
           /\ f[n][h] \in Seq(Nat)
           /\ NewestRows(f[n][h], RowsOf(pushes, h, d + 1, d + n), pushes)
<1> DEFINE hosts == { table[i].host : i \in DOMAIN table }
           Good(n) == /\ DOMAIN f[n] = hosts
                      /\ \A h \in hosts :
                           /\ f[n][h] \in Seq(Nat)
                           /\ NewestRows(f[n][h], RowsOf(pushes, h, d + 1, d + n), pushes)
           S == { n \in Nat : n <= Len(table) => Good(n) }
<1>1. PICK len \in Nat : len = Len(table) /\ DOMAIN table = 1 .. len
  OBVIOUS
<1>2. /\ f[0] = NoBuffers(table)
      /\ \A n \in 1 .. len : f[n] = Buffered(table, f[n - 1], n)
  BY <1>1 DEF AreBuffers
<1>3. 0 \in S
  <2>1. DOMAIN f[0] = hosts /\ \A h \in hosts : f[0][h] = <<>>
    BY <1>2 DEF NoBuffers
  <2>2. \A h : RowsOf(pushes, h, d + 1, d + 0) = {}
    BY DEF RowsOf
  <2>3. <<>> \in Seq(Nat)
    OBVIOUS
  <2> HIDE DEF hosts
  <2> QED BY <2>1, <2>2, <2>3, NoNewestRows
<1>4. ASSUME NEW n \in S PROVE n + 1 \in S
  <2> SUFFICES ASSUME n + 1 <= Len(table) PROVE Good(n + 1)
    OBVIOUS
  <2>1. n \in Nat /\ n + 1 \in 1 .. len /\ (n + 1) - 1 = n /\ n <= Len(table)
    BY <1>1
  <2>2. Good(n)
    BY <2>1
  <2>3. PICK h \in hosts : h = table[n + 1].host
    BY <1>1, <2>1
  <2>4. /\ table[n + 1] = pushes[d + (n + 1)] /\ d + (n + 1) = (d + n) + 1 /\ d + n \in Nat
        /\ (d + n) + 1 \in 1 .. Len(pushes)
    BY <1>1, <2>1
  <2>5. pushes[(d + n) + 1].row \in Nat /\ table[n + 1] = pushes[(d + n) + 1]
    <3>1. pushes[(d + n) + 1] \in Pushed
      BY <2>4
    <3> QED BY <2>4, <3>1 DEF Pushed
  <2> DEFINE next == Capped(Append(f[n][h], pushes[(d + n) + 1].row))
  <2>6. f[n + 1] = [f[n] EXCEPT ![h] = next]
    BY <1>2, <2>1, <2>3, <2>5 DEF Buffered
  <2>7. \A g : RowsOf(pushes, g, d + 1, d + (n + 1))
                 = RowsOf(pushes, g, d + 1, d + n)
                     \cup (IF pushes[(d + n) + 1].host = g THEN {(d + n) + 1} ELSE {})
    <3>1. d + 1 .. d + (n + 1) = (d + 1 .. d + n) \cup {(d + n) + 1}
      BY <2>1
    <3> QED BY <3>1 DEF RowsOf
  <2>8. \A g : RowsOf(pushes, g, d + 1, d + n) \in SUBSET (1 .. d + n)
    <3>1. d + 1 .. d + n \subseteq 1 .. d + n
      BY <2>1
    <3> QED BY <3>1 DEF RowsOf
  <2>9. /\ f[n][h] \in Seq(Nat) /\ Len(f[n][h]) <= seq_len
        /\ NewestRows(f[n][h], RowsOf(pushes, h, d + 1, d + n), pushes)
    BY <2>2 DEF NewestRows, LatestRows
  <2>10. next \in Seq(Nat)
    BY <2>5, <2>9, CappedRows
  <2>11. NewestRows(next, RowsOf(pushes, h, d + 1, d + n) \cup {(d + n) + 1}, pushes)
    <3> HIDE DEF S
    <3> QED BY <2>4, <2>5, <2>8, <2>9, NewestRowsGrow
  <2> HIDE DEF next, hosts
  <2>12. ASSUME NEW g \in hosts
         PROVE  /\ f[n + 1][g] \in Seq(Nat)
                /\ NewestRows(f[n + 1][g], RowsOf(pushes, g, d + 1, d + (n + 1)), pushes)
    <3>1. CASE g = h
      BY <2>2, <2>3, <2>5, <2>6, <2>7, <2>10, <2>11, <3>1
    <3>2. CASE g # h
      <4>1. f[n + 1][g] = f[n][g]
        BY <2>2, <2>6, <3>2
      <4>2. RowsOf(pushes, g, d + 1, d + (n + 1)) = RowsOf(pushes, g, d + 1, d + n)
        BY <2>3, <2>5, <2>7, <3>2
      <4> QED BY <2>2, <4>1, <4>2
    <3> QED BY <3>1, <3>2
  <2>13. DOMAIN f[n + 1] = hosts
    BY <2>2, <2>6
  <2> QED BY <2>12, <2>13
<1> HIDE DEF S
<1>5. \A n \in Nat : n \in S
  <2>1. S \in SUBSET Nat
    BY DEF S
  <2> QED BY <1>3, <1>4, <2>1, AllNaturals
<1>6. ASSUME NEW n \in 0 .. Len(table) PROVE Good(n)
  BY <1>5 DEF S
<1> QED BY <1>6

------------------------------------------------------------------------------
(* One caller: how far back the window of a host goes                       *)

HostsBetween(pushes, i, j) == { pushes[m].host : m \in i + 1 .. j - 1 }

(* The host was out of the history when its row at j came (or would come).  *)
ForgottenAt(pushes, host, j) ==
  \E i \in PushesIn(pushes, host) :
    /\ i < j /\ PushesIn(pushes, host) \cap (i + 1 .. j - 1) = {}
    /\ Cardinality(HostsBetween(pushes, i, j)) >= max_hosts

ContextAt(pushes, host, k) ==
  { i \in PushesIn(pushes, host) :
      i <= k /\ \A j \in PushesIn(pushes, host) : i < j /\ j <= k =>
                  ~ForgottenAt(pushes, host, j) }

(* What the next row of the host is put behind. *)
NextContext(pushes, host) ==
  IF ForgottenAt(pushes, host, Len(pushes) + 1) THEN {}
  ELSE ContextAt(pushes, host, Len(pushes))

LEMMA ContextStays ==
  ASSUME NEW pushes \in Seq(Pushed), NEW p \in Pushed, NEW host
  PROVE  /\ \A j \in 1 .. Len(pushes) + 1 :
              ForgottenAt(Append(pushes, p), host, j) <=> ForgottenAt(pushes, host, j)
         /\ \A k \in 0 .. Len(pushes) :
              ContextAt(Append(pushes, p), host, k) = ContextAt(pushes, host, k)
<1> DEFINE all == Append(pushes, p)
           mine == PushesIn(pushes, host)
           mineNew == PushesIn(all, host)
<1>1. PICK n \in Nat : n = Len(pushes)
  OBVIOUS
<1>2. /\ \A m \in 1 .. n : all[m] = pushes[m]
      /\ mine \subseteq 1 .. n /\ mine \subseteq mineNew
      /\ mineNew \subseteq mine \cup {n + 1}
  <2>1. /\ \A m \in 1 .. n : all[m] = pushes[m]
        /\ mine \subseteq 1 .. n
        /\ host # p.host => mineNew = mine
        /\ PushesIn(all, p.host) = PushesIn(pushes, p.host) \cup {n + 1}
    BY <1>1, PushesGrow
  <2> HIDE DEF all
  <2> QED BY <2>1
<1> HIDE DEF all, mine, mineNew
<1>3. ASSUME NEW j \in 1 .. n + 1
      PROVE  ForgottenAt(all, host, j) <=> ForgottenAt(pushes, host, j)
  <2>1. /\ \A i \in mine : i \in mineNew
        /\ \A i \in mineNew : i < j => i \in mine
    BY <1>2, <1>3
  <2>2. ASSUME NEW i \in mine
        PROVE  /\ mine \cap (i + 1 .. j - 1) = mineNew \cap (i + 1 .. j - 1)
               /\ HostsBetween(all, i, j) = HostsBetween(pushes, i, j)
    <3>1. \A m \in i + 1 .. j - 1 : m \in 1 .. n /\ m # n + 1
      BY <1>2, <1>3, <2>2
    <3> QED BY <1>2, <3>1 DEF HostsBetween
  <2> QED BY <1>2, <2>1, <2>2 DEF ForgottenAt, mine, mineNew
<1>4. ASSUME NEW k \in 0 .. n PROVE ContextAt(all, host, k) = ContextAt(pushes, host, k)
  <2>1. /\ \A i \in mine : i \in mineNew
        /\ \A i \in mineNew : i <= k => i \in mine
    BY <1>2, <1>4
  <2>2. \A j \in mine : ForgottenAt(all, host, j) <=> ForgottenAt(pushes, host, j)
    BY <1>2, <1>3
  <2> QED BY <2>1, <2>2 DEF ContextAt, mine, mineNew
<1> QED BY <1>1, <1>3, <1>4 DEF all

LEMMA JustPushed ==
  ASSUME NEW pushes \in Seq(Pushed), NEW n \in Nat, n + 1 = Len(pushes)
  PROVE  ~ForgottenAt(pushes, pushes[n + 1].host, (n + 1) + 1)
<1> DEFINE mine == PushesIn(pushes, pushes[n + 1].host)
<1>1. n + 1 \in mine /\ mine \subseteq 1 .. n + 1
  BY DEF PushesIn
<1> HIDE DEF mine
<1> SUFFICES ASSUME NEW i \in mine, mine \cap (i + 1 .. (n + 1) + 1 - 1) = {},
                    Cardinality(HostsBetween(pushes, i, (n + 1) + 1)) >= max_hosts
             PROVE  FALSE
  BY DEF ForgottenAt, mine
<1>2. i = n + 1
  <2>1. n + 1 \in i + 1 .. (n + 1) + 1 - 1 \/ i = n + 1
    BY <1>1
  <2> QED BY <1>1, <2>1
<1>3. HostsBetween(pushes, i, (n + 1) + 1) = {}
  <2>1. i + 1 .. (n + 1) + 1 - 1 = {}
    BY <1>2
  <2> QED BY <2>1 DEF HostsBetween
<1>4. 0 >= max_hosts
  BY <1>3, FS_EmptySet
<1> QED BY <1>4, HostHistoryAssumption

(* The new row of the host goes behind those of its next context.           *)
LEMMA ContextGrows ==
  ASSUME NEW pushes \in Seq(Pushed), NEW p \in Pushed
  PROVE  LET all == Append(pushes, p)
             n == Len(pushes)
         IN  /\ ContextAt(all, p.host, n + 1) = NextContext(pushes, p.host) \cup {n + 1}
             /\ NextContext(all, p.host) = ContextAt(all, p.host, n + 1)
             /\ \A host : host # p.host =>
                  ContextAt(all, host, n + 1) = ContextAt(pushes, host, n)
<1> DEFINE all == Append(pushes, p)
<1>1. PICK n \in Nat : n = Len(pushes)
  OBVIOUS
<1>2. /\ \A host : PushesIn(pushes, host) \subseteq 1 .. n
      /\ \A host : host # p.host => PushesIn(all, host) = PushesIn(pushes, host)
      /\ PushesIn(all, p.host) = PushesIn(pushes, p.host) \cup {n + 1}
      /\ Len(all) = n + 1
  BY <1>1, PushesGrow, AppendProperties
<1>3. /\ \A host : \A j \in 1 .. n + 1 :
           ForgottenAt(all, host, j) <=> ForgottenAt(pushes, host, j)
      /\ \A host : ContextAt(all, host, n) = ContextAt(pushes, host, n)
  <2>1. n \in 0 .. n
    OBVIOUS
  <2> HIDE DEF all
  <2> QED BY <1>1, <2>1, ContextStays DEF all
<1> HIDE DEF all
<1>4. ContextAt(all, p.host, n + 1) = NextContext(pushes, p.host) \cup {n + 1}
  <2> DEFINE mine == PushesIn(pushes, p.host)
             mineNew == PushesIn(all, p.host)
             Out(j) == ForgottenAt(pushes, p.host, j)
  <2>1. /\ mineNew = mine \cup {n + 1} /\ mine \subseteq 1 .. n
        /\ \A j \in mineNew : ForgottenAt(all, p.host, j) <=> Out(j)
    BY <1>2, <1>3
  <2> HIDE DEF mine, mineNew, Out
  <2>2. ContextAt(all, p.host, n + 1)
          = { i \in mineNew : i <= n + 1 /\ \A j \in mineNew : i < j /\ j <= n + 1 => ~Out(j) }
    BY <2>1 DEF ContextAt, mineNew
  <2>3. ContextAt(pushes, p.host, n)
          = { i \in mine : i <= n /\ \A j \in mine : i < j /\ j <= n => ~Out(j) }
    BY DEF ContextAt, mine, Out
  <2>4. \A i \in mine : /\ i <= n /\ i <= n + 1 /\ i < n + 1 /\ ~(n + 1 < i) /\ i # n + 1
    BY <2>1
  <2>5. n + 1 \in ContextAt(all, p.host, n + 1)
    <3>1. \A j \in mineNew : ~(n + 1 < j /\ j <= n + 1)
      BY <2>1
    <3> QED BY <2>1, <2>2, <3>1
  <2>6. ASSUME NEW i \in mine
        PROVE  i \in ContextAt(all, p.host, n + 1)
                 <=> i \in ContextAt(pushes, p.host, n) /\ ~Out(n + 1)
    BY <2>1, <2>2, <2>3, <2>4
  <2>7. /\ ContextAt(all, p.host, n + 1) \subseteq mine \cup {n + 1}
        /\ ContextAt(pushes, p.host, n) \subseteq mine
    BY <2>1, <2>2, <2>3
  <2>8. NextContext(pushes, p.host)
          = IF Out(n + 1) THEN {} ELSE ContextAt(pushes, p.host, n)
    BY <1>1 DEF NextContext, Out
  <2> QED BY <2>5, <2>6, <2>7, <2>8
<1>5. ~ForgottenAt(all, p.host, (n + 1) + 1)
  <2>1. all \in Seq(Pushed) /\ all[n + 1] = p
    BY <1>1, AppendProperties DEF all
  <2> QED BY <1>2, <2>1, JustPushed
<1>6. NextContext(all, p.host) = ContextAt(all, p.host, n + 1)
  BY <1>2, <1>5 DEF NextContext
<1>7. ASSUME NEW host, host # p.host
      PROVE  ContextAt(all, host, n + 1) = ContextAt(pushes, host, n)
  <2> DEFINE mine == PushesIn(all, host)
  <2>1. mine \subseteq 1 .. n
    BY <1>2, <1>7
  <2> HIDE DEF mine
  <2>2. \A i \in mine : i <= n /\ i <= n + 1
    BY <2>1
  <2>3. ContextAt(all, host, n + 1) = ContextAt(all, host, n)
    BY <2>2 DEF ContextAt, mine
  <2> QED BY <1>3, <2>3
<1> QED BY <1>1, <1>4, <1>6, <1>7 DEF all

(* A host that is among the most recent ones is not forgotten.              *)
LEMMA KeptNotForgotten ==
  ASSUME NEW items, IsDict(items), Len(items) <= max_hosts,
         NEW pushes \in Seq(Pushed), NEW pend, RecentKept(items, pushes, pend),
         NEW p \in DOMAIN items, pend # {items[p].host}
  PROVE  NextContext(pushes, items[p].host) = ContextAt(pushes, items[p].host, Len(pushes))
<1> DEFINE host == items[p].host
<1>1. PICK n \in Nat : n = Len(pushes)
  OBVIOUS
<1>2. PICK k \in PushesIn(pushes, host) : After(pushes, k) \cup pend = Behind(items, p)
  BY DEF RecentKept
<1>3. /\ IsFiniteSet(Behind(items, p)) /\ host \notin Behind(items, p)
      /\ Cardinality(Behind(items, p)) = Len(items) - p
  BY BehindCounted
<1>4. Cardinality(Behind(items, p)) < max_hosts
  <2>1. p \in 1 .. Len(items) /\ Len(items) \in Nat /\ max_hosts \in Nat
    BY HostHistoryAssumption DEF IsDict, OneEach
  <2> QED BY <1>3, <2>1
<1> HIDE DEF host
<1>5. ~ForgottenAt(pushes, host, n + 1)
  <2> SUFFICES ASSUME NEW i \in PushesIn(pushes, host),
                      PushesIn(pushes, host) \cap (i + 1 .. n + 1 - 1) = {},
                      Cardinality(HostsBetween(pushes, i, n + 1)) >= max_hosts
               PROVE  FALSE
    BY DEF ForgottenAt
  <2>1. i \in 1 .. n /\ k \in 1 .. n /\ pushes[i].host = host
    BY <1>1 DEF PushesIn
  <2>2. ~(i < k)
    <3>1. i < k => k \in PushesIn(pushes, host) \cap (i + 1 .. n + 1 - 1)
      BY <2>1
    <3> QED BY <3>1
  <2>3. ~(k < i)
    <3>1. k < i => i \in k + 1 .. n
      BY <2>1
    <3>2. k < i => host \in After(pushes, k)
      BY <1>1, <2>1, <3>1 DEF After
    <3> QED BY <1>2, <1>3, <3>2
  <2>4. i = k
    BY <2>1, <2>2, <2>3
  <2>5. HostsBetween(pushes, i, n + 1) = After(pushes, k)
    <3>1. n + 1 - 1 = n
      OBVIOUS
    <3> QED BY <1>1, <2>4, <3>1 DEF HostsBetween, After
  <2>6. /\ Cardinality(After(pushes, k)) <= Cardinality(Behind(items, p))
        /\ Cardinality(After(pushes, k)) \in Nat /\ Cardinality(Behind(items, p)) \in Nat
    BY <1>2, <1>3, FS_Subset, FS_CardinalityType
  <2>7. max_hosts \in Nat
    BY HostHistoryAssumption
  <2> QED BY <1>4, <2>5, <2>6, <2>7
<1> QED BY <1>1, <1>5 DEF NextContext, host

(* One that is not held starts afresh.                                      *)
LEMMA GoneIsForgotten ==
  ASSUME NEW items, NEW pushes \in Seq(Pushed), OthersForgotten(items, pushes, {}),
         NEW host, ~Holds(items, host)
  PROVE  NextContext(pushes, host) = {}
<1> DEFINE mine == PushesIn(pushes, host)
<1>1. PICK n \in Nat : n = Len(pushes)
  OBVIOUS
<1>2. mine \subseteq 1 .. n /\ IsFiniteSet(mine)
  <2>1. IsFiniteSet(1 .. n)
    BY FS_Interval
  <2>2. mine \subseteq 1 .. n
    BY <1>1 DEF PushesIn
  <2> QED BY <2>1, <2>2, FS_Subset
<1>3. CASE mine = {}
  BY <1>3 DEF NextContext, ContextAt
<1>4. CASE mine # {}
  <2>1. 0 < Cardinality(mine)
    BY <1>2, <1>4, FS_EmptySet, FS_CardinalityType
  <2>2. PICK i \in mine : Cardinality({ m \in mine : m > i }) = 0
    <3>1. n \in Nat /\ 0 \in Nat /\ mine \in SUBSET (1 .. n)
      BY <1>2
    <3> HIDE DEF mine
    <3> QED BY <2>1, <3>1, LaterReached
  <2>3. { m \in mine : m > i } = {}
    <3>1. IsFiniteSet({ m \in mine : m > i })
      BY <1>2, FS_Subset
    <3> HIDE DEF mine
    <3> QED BY <2>2, <3>1, FS_EmptySet
  <2>4. i \in 1 .. n /\ mine \cap (i + 1 .. n + 1 - 1) = {}
    <3>1. i \in 1 .. n
      BY <1>2
    <3>2. \A m \in i + 1 .. n + 1 - 1 : m > i
      BY <3>1
    <3> HIDE DEF mine
    <3> QED BY <2>3, <3>1, <3>2
  <2>5. Cardinality(After(pushes, i) \ {host}) >= max_hosts
    <3>1. After(pushes, i) \cup {} = After(pushes, i)
      OBVIOUS
    <3> QED BY <3>1 DEF OthersForgotten
  <2>6. host \notin After(pushes, i)
    <3>1. \A m \in i + 1 .. n : m \notin mine
      BY <2>4
    <3>2. \A m \in i + 1 .. n : m \in DOMAIN pushes
      BY <1>1, <2>4
    <3> QED BY <1>1, <3>1, <3>2 DEF After, PushesIn
  <2>7. HostsBetween(pushes, i, n + 1) = After(pushes, i) /\ After(pushes, i) \ {host} = After(pushes, i)
    <3>1. n + 1 - 1 = n
      OBVIOUS
    <3> QED BY <1>1, <2>6, <3>1 DEF HostsBetween, After
  <2>8. ForgottenAt(pushes, host, n + 1)
    <3>1. i < n + 1
      BY <2>4
    <3>2. Cardinality(HostsBetween(pushes, i, n + 1)) >= max_hosts
      BY <2>5, <2>7
    <3>3. i \in PushesIn(pushes, host)
      OBVIOUS
    <3>4. PushesIn(pushes, host) \cap (i + 1 .. n + 1 - 1) = {}
      BY <2>4
    <3> HIDE DEF mine
    <3> QED BY <3>1, <3>2, <3>3, <3>4 DEF ForgottenAt
  <2> QED BY <1>1, <2>8 DEF NextContext
<1> QED BY <1>3, <1>4

(* The rows of a host that is held are the newest of its context, as many   *)
(* as the window holds.                                                     *)
WindowsExact(items, pushes) ==
  \A p \in DOMAIN items :
    NewestRows(items[p].rows, NextContext(pushes, items[p].host), pushes)

LEMMA WindowsReached ==
  ASSUME NEW items, IsDict(items), Len(items) <= max_hosts, NEW host \in Hosts,
         NEW pushes \in Seq(Pushed), WindowsExact(items, pushes),
         OthersForgotten(items, pushes, {})
  PROVE  WindowsExact(Reach(items, host), pushes)
<1> DEFINE new == Reach(items, host)
<1>1. /\ Touched(items, new, host)
      /\ \/ \E j \in DOMAIN items : new[Len(new)] = items[j]
         \/ new[Len(new)] = [host |-> host, rows |-> <<>>]
  BY ReachTouches
<1>2. ASSUME NEW q \in DOMAIN items, items[q].host = host PROVE new[Len(new)] = items[q]
  <2>1. new = MoveToEnd(items, items[q].host)
    BY <1>2 DEF Reach, Holds
  <2> HIDE DEF new
  <2> QED BY <2>1, MoveTouches
<1> HIDE DEF new
<1> SUFFICES ASSUME NEW p \in DOMAIN new
             PROVE  NewestRows(new[p].rows, NextContext(pushes, new[p].host), pushes)
  BY DEF WindowsExact, new
<1>3. CASE \E j \in DOMAIN items : items[j] = new[p]
  BY <1>3 DEF WindowsExact
<1>4. CASE ~\E j \in DOMAIN items : items[j] = new[p]
  <2>1. new[p].host = host /\ Len(new) \in DOMAIN new /\ new[Len(new)].host = host
    BY <1>1, <1>4 DEF Touched, IsDict, OneEach
  <2>2. p = Len(new)
    BY <1>1, <2>1 DEF Touched, IsDict, OneEach
  <2>3. new[p].rows = <<>>
    BY <1>1, <1>4, <2>2
  <2>4. ~Holds(items, host)
    BY <1>2, <1>4, <2>2 DEF Holds
  <2>5. NextContext(pushes, host) = {}
    BY <2>4, GoneIsForgotten
  <2> QED BY <2>1, <2>3, <2>5, NoNewestRows
<1> QED BY <1>3, <1>4

LEMMA NewestRowsAgree ==
  ASSUME NEW rows, NEW mine, NEW pushes, NEW all, NewestRows(rows, mine, pushes),
         \A k \in mine : all[k] = pushes[k]
  PROVE  NewestRows(rows, mine, all)
BY DEF NewestRows, LatestRows

LEMMA WindowsPushed ==
  ASSUME NEW items, IsDict(items), Len(items) <= max_hosts,
         NEW new, IsDict(new), Len(new) = Len(items),
         NEW pushes \in Seq(Pushed), NEW p \in Pushed,
         \A i \in DOMAIN items :
           /\ items[i].rows \in Seq(Nat)
           /\ new[i].host = items[i].host
           /\ new[i].rows = IF items[i].host = p.host
                              THEN Capped(Append(items[i].rows, p.row)) ELSE items[i].rows,
         RecentKept(items, pushes, {p.host}), RecentKept(new, Append(pushes, p), {}),
         WindowsExact(items, pushes)
  PROVE  WindowsExact(new, Append(pushes, p))
<1> DEFINE all == Append(pushes, p)
<1>1. PICK n \in Nat : n = Len(pushes)
  OBVIOUS
<1>2. /\ all \in Seq(Pushed) /\ Len(all) = n + 1 /\ all[n + 1] = p
      /\ \A k \in 1 .. n : all[k] = pushes[k]
  BY <1>1, AppendProperties
<1>3. /\ NextContext(all, p.host) = NextContext(pushes, p.host) \cup {n + 1}
      /\ \A host : host # p.host =>
           ContextAt(all, host, n + 1) = ContextAt(pushes, host, n)
  BY <1>1, ContextGrows
<1> HIDE DEF all
<1>4. \A host : NextContext(pushes, host) \in SUBSET (1 .. n)
  BY <1>1 DEF NextContext, ContextAt, PushesIn
<1>5. DOMAIN new = DOMAIN items
  BY DEF IsDict, OneEach
<1>6. ASSUME NEW i \in DOMAIN items
      PROVE  NewestRows(new[i].rows, NextContext(all, new[i].host), all)
  <2> DEFINE context == NextContext(pushes, items[i].host)
  <2>1. NewestRows(items[i].rows, context, pushes) /\ \A k \in context : all[k] = pushes[k]
    BY <1>2, <1>4 DEF WindowsExact
  <2>2. NewestRows(items[i].rows, context, all)
    BY <2>1, NewestRowsAgree
  <2>3. CASE items[i].host = p.host
    <3>1. all[n + 1].row \in Nat
      BY <1>2 DEF Pushed
    <3>2. context \in SUBSET (1 .. n) /\ items[i].rows \in Seq(Nat)
      BY <1>4
    <3> HIDE DEF context
    <3>3. NewestRows(Capped(Append(items[i].rows, all[n + 1].row)), context \cup {n + 1}, all)
      BY <2>2, <3>1, <3>2, NewestRowsGrow
    <3>4. new[i].rows = Capped(Append(items[i].rows, all[n + 1].row))
      BY <1>2, <2>3
    <3>5. NextContext(all, new[i].host) = context \cup {n + 1}
      BY <1>3, <2>3 DEF context
    <3> QED BY <3>3, <3>4, <3>5
  <2>4. CASE items[i].host # p.host
    <3>1. context = ContextAt(pushes, items[i].host, n)
      <4>1. {p.host} # {items[i].host}
        BY <2>4
      <4> QED BY <1>1, <4>1, KeptNotForgotten
    <3>2. NextContext(all, new[i].host) = ContextAt(all, new[i].host, n + 1)
      <4>1. RecentKept(new, all, {}) /\ i \in DOMAIN new /\ {} # {new[i].host}
        BY <1>5 DEF all
      <4> QED BY <1>2, <4>1, KeptNotForgotten
    <3>3. NextContext(all, new[i].host) = context
      BY <1>3, <2>4, <3>1, <3>2
    <3> QED BY <2>2, <2>4, <3>3
  <2> QED BY <2>3, <2>4
<1> QED BY <1>5, <1>6 DEF WindowsExact, all

------------------------------------------------------------------------------
(* One caller: the sequence that the heavy model gets                       *)

(* Where the sequence of the k-th row starts, and the flows it is built of. *)
FirstOf(pushes, k) ==
  LET context == ContextAt(pushes, pushes[k].host, k)
  IN  CHOOSE i \in context : \A j \in context : i <= j

BatchOf(pushes, k) == SubSeq(pushes, FirstOf(pushes, k), k)

SequenceMade(pushes, c) ==
  \E k \in DOMAIN pushes :
    /\ pushes[k].row = c.row
    /\ c.sequence = BuildSequences(BatchOf(pushes, k))[Len(BatchOf(pushes, k))]

LEMMA ContextIsRun ==
  ASSUME NEW pushes \in Seq(Pushed), NEW k \in DOMAIN pushes
  PROVE  /\ FirstOf(pushes, k) \in 1 .. k
         /\ ContextAt(pushes, pushes[k].host, k)
              = RowsOf(pushes, pushes[k].host, FirstOf(pushes, k), k)
<1> DEFINE host == pushes[k].host
           mine == PushesIn(pushes, host)
           context == ContextAt(pushes, host, k)
           first == FirstOf(pushes, k)
<1>1. k \in 1 .. Len(pushes) /\ k \in mine /\ mine \subseteq 1 .. Len(pushes)
      /\ \A i \in 1 .. Len(pushes) : i \in mine <=> pushes[i].host = host
  BY DEF PushesIn
<1> HIDE DEF mine
<1>2. context = { i \in mine : i <= k /\ \A j \in mine : i < j /\ j <= k =>
                                            ~ForgottenAt(pushes, host, j) }
  BY DEF ContextAt, mine
<1>3. k \in context
  <2>1. \A j \in mine : ~(k < j /\ j <= k)
    BY <1>1
  <2> QED BY <1>1, <1>2, <2>1
<1>4. context \subseteq 1 .. k
  BY <1>1, <1>2
<1>5. \A i \in context : \A m \in mine : i <= m /\ m <= k => m \in context
  <2> SUFFICES ASSUME NEW i \in context, NEW m \in mine, i <= m, m <= k,
                      NEW j \in mine, m < j, j <= k
               PROVE  ~ForgottenAt(pushes, host, j)
    BY <1>2
  <2>1. i < j
    BY <1>1, <1>4
  <2> QED BY <1>2, <2>1
<1> HIDE DEF context
<1>6. first \in context /\ \A j \in context : first <= j
  <2>1. context \in SUBSET Nat /\ context # {}
    BY <1>3, <1>4
  <2>2. \E i \in context : \A j \in context : i <= j
    BY <2>1, SmallestPosition
  <2>3. first = CHOOSE i \in context : \A j \in context : i <= j
    BY DEF FirstOf, context
  <2> QED BY <2>2, <2>3
<1> HIDE DEF first
<1>7. context = RowsOf(pushes, host, first, k)
  <2>1. ASSUME NEW i \in context PROVE i \in first .. k /\ pushes[i].host = host
    BY <1>1, <1>2, <1>4, <1>6
  <2>2. ASSUME NEW i \in first .. k, pushes[i].host = host PROVE i \in context
    <3>1. i \in 1 .. Len(pushes) /\ first <= i /\ i <= k
      BY <1>1, <1>4, <1>6
    <3> QED BY <1>1, <1>5, <1>6, <2>2, <3>1
  <2> QED BY <2>1, <2>2 DEF RowsOf
<1> QED BY <1>4, <1>6, <1>7 DEF context, first

LEMMA SequenceStays ==
  ASSUME NEW pushes \in Seq(Pushed), NEW p \in Pushed, NEW c, SequenceMade(pushes, c)
  PROVE  SequenceMade(Append(pushes, p), c)
<1> DEFINE all == Append(pushes, p)
<1>1. PICK n \in Nat : n = Len(pushes)
  OBVIOUS
<1>2. PICK k \in 1 .. n :
        /\ pushes[k].row = c.row
        /\ c.sequence = BuildSequences(BatchOf(pushes, k))[Len(BatchOf(pushes, k))]
  BY <1>1 DEF SequenceMade
<1>3. /\ all \in Seq(Pushed) /\ DOMAIN all = 1 .. n + 1
      /\ \A i \in 1 .. n : all[i] = pushes[i]
  BY <1>1, AppendProperties
<1>4. \A host : ContextAt(all, host, k) = ContextAt(pushes, host, k)
  BY <1>1, ContextStays
<1> HIDE DEF all
<1>5. FirstOf(all, k) = FirstOf(pushes, k) /\ FirstOf(pushes, k) \in 1 .. k
  <2>1. ContextAt(all, all[k].host, k) = ContextAt(pushes, pushes[k].host, k)
    BY <1>3, <1>4
  <2>2. k \in DOMAIN pushes
    BY <1>1
  <2> QED BY <2>1, <2>2, ContextIsRun DEF FirstOf
<1>6. BatchOf(all, k) = BatchOf(pushes, k)
  <2>1. PICK first \in 1 .. k : first = FirstOf(pushes, k)
    BY <1>5
  <2>2. \A i \in 1 .. k - first + 1 : i + first - 1 \in 1 .. n
    OBVIOUS
  <2>3. \A i \in 1 .. k - first + 1 : all[i + first - 1] = pushes[i + first - 1]
    BY <1>3, <2>2
  <2>4. SubSeq(all, first, k) = SubSeq(pushes, first, k)
    BY <2>3 DEF SubSeq
  <2> QED BY <1>5, <2>1, <2>4 DEF BatchOf
<1>7. k \in DOMAIN all /\ all[k] = pushes[k]
  BY <1>3
<1>8. SequenceMade(all, c)
  BY <1>2, <1>6, <1>7 DEF SequenceMade
<1> QED BY <1>8 DEF all

(* The window of the host whose row was just pushed, padded.                *)
LEMMA WindowAsTrained ==
  ASSUME NEW pushes \in Seq(Pushed), NEW k \in Nat \ {0}, k = Len(pushes),
         NEW rows \in Seq(Nat),
         NewestRows(rows, NextContext(pushes, pushes[k].host), pushes)
  PROVE  Padded(rows) = BuildSequences(BatchOf(pushes, k))[Len(BatchOf(pushes, k))]
<1> DEFINE host == pushes[k].host
           table == BatchOf(pushes, k)
<1>1. PICK first \in 1 .. k :
        /\ first = FirstOf(pushes, k)
        /\ ContextAt(pushes, host, k) = RowsOf(pushes, host, first, k)
  BY ContextIsRun
<1>2. NextContext(pushes, host) = RowsOf(pushes, host, first, k)
  <2>1. PICK n \in Nat : n + 1 = k
    <3>1. k - 1 \in Nat /\ (k - 1) + 1 = k
      OBVIOUS
    <3> QED BY <3>1
  <2>2. ~ForgottenAt(pushes, host, k + 1)
    BY <2>1, JustPushed
  <2> QED BY <1>1, <2>2 DEF NextContext
<1>3. PICK len \in Nat : len = k - first + 1 /\ len > 0
  <2>1. k - first + 1 \in Nat /\ k - first + 1 > 0
    OBVIOUS
  <2> QED BY <2>1
<1>4. PICK d \in Nat : d + 1 = first /\ d + len = k
  <2>1. first - 1 \in Nat /\ (first - 1) + 1 = first /\ (first - 1) + len = k
    BY <1>3
  <2> QED BY <2>1
<1>5. /\ table \in Seq(Pushed) /\ Len(table) = len
      /\ \A i \in 1 .. len : table[i] = pushes[d + i]
  <2>1. table = SubSeq(pushes, first, k)
    BY <1>1 DEF BatchOf
  <2>2. \A i \in first .. k : pushes[i] \in Pushed
    BY ElementOfSeq
  <2>3. first <= k + 1
    OBVIOUS
  <2>4. /\ SubSeq(pushes, first, k) \in Seq(Pushed)
        /\ Len(SubSeq(pushes, first, k)) = len
        /\ \A i \in 1 .. len : SubSeq(pushes, first, k)[i] = pushes[i + first - 1]
    BY <1>3, <2>2, <2>3, SubSeqProperties
  <2>5. \A i \in 1 .. len : i + first - 1 = d + i
    BY <1>4
  <2> QED BY <2>1, <2>4, <2>5
<1> HIDE DEF table
<1>6. PICK f : /\ AreBuffers(f, table, len)
               /\ BuildSequences(table) = [n \in DOMAIN table |-> Padded(f[n][table[n].host])]
  BY <1>5, BuildSequencesIs
<1>7. /\ len \in DOMAIN table /\ len \in 0 .. len /\ table[len].host = host
      /\ host \in { table[i].host : i \in DOMAIN table }
  <2>1. len \in DOMAIN table /\ len \in 0 .. len /\ len \in 1 .. len
    BY <1>3, <1>5
  <2>2. table[len] = pushes[k]
    BY <1>4, <1>5, <2>1
  <2> QED BY <2>1, <2>2
<1> HIDE DEF host
<1>8. f[len][host] \in Seq(Nat) /\ NewestRows(f[len][host], RowsOf(pushes, host, first, k), pushes)
  <2>1. d + Len(table) <= Len(pushes) /\ AreBuffers(f, table, Len(table))
    BY <1>4, <1>5, <1>6
  <2>2. \A i \in 1 .. Len(table) : table[i] = pushes[d + i]
    BY <1>5
  <2>3. table \in Seq(Pushed)
    BY <1>5
  <2>4. \A n \in 0 .. Len(table) : \A h \in { table[i].host : i \in DOMAIN table } :
          /\ f[n][h] \in Seq(Nat)
          /\ NewestRows(f[n][h], RowsOf(pushes, h, d + 1, d + n), pushes)
    BY <2>1, <2>2, <2>3, BufferedRows
  <2> QED BY <1>4, <1>5, <1>7, <2>4
<1>9. RowsOf(pushes, host, first, k) \in SUBSET (1 .. k)
  BY DEF RowsOf
<1>10. rows = f[len][host]
  <2>1. NewestRows(rows, RowsOf(pushes, host, first, k), pushes) /\ k \in Nat
    BY <1>2 DEF host
  <2> QED BY <1>8, <1>9, <2>1, NewestRowsUnique
<1>11. BuildSequences(table)[len] = Padded(f[len][host])
  BY <1>6, <1>7
<1> QED BY <1>5, <1>10, <1>11 DEF table

(* The row of the call whose window is read is the latest one; a flow on    *)
(* the heavy route has the sequence of the batch from then on.              *)
Sequenced(t) ==
  /\ WindowsExact(Held(t), pushed)
  /\ InWindow(t) =>
       /\ Len(pushed) > 0
       /\ pushed[Len(pushed)].host = call[t].host
       /\ pushed[Len(pushed)].row = call[t].row
  /\ pc[t] \in {"verify", "explain"} /\ call[t].model_used = "heavy" =>
       SequenceMade(pushed, call[t])
  /\ \A c \in returned : c.model_used = "heavy" => SequenceMade(pushed, c)

SequenceInv ==
  /\ RecentInv
  /\ Alone => \A t \in Threads : Sequenced(t)

LEMMA WindowsStep ==
  ASSUME RecentInv, RecentInv', Alone, Alone', NEW t \in Threads, Threads = {t}, Threads' = {t},
         Moves(t), WindowsExact(Held(t), pushed)
  PROVE  WindowsExact(Held(t)', pushed')
<1>1. /\ IsDict(Held(t)) /\ Len(Held(t)) <= max_hosts /\ pushed \in Seq(Pushed)
      /\ \A i \in DOMAIN Held(t) :
           Held(t)[i].rows \in Seq(Nat) /\ Len(Held(t)[i].rows) <= seq_len
  BY HeldIs DEF RecentInv
<1>2. /\ RecentKept(Held(t), pushed, Pend(t)) /\ OthersForgotten(Held(t), pushed, Pend(t))
      /\ RecentKept(Held(t)', pushed', Pend(t)')
  BY DEF RecentInv
<1>3. CASE Quiet(t)
  BY <1>3 DEF Quiet
<1>4. CASE Reaches(t)
  <2>1. Pend(t) = {}
    BY <1>4 DEF Reaches, Pend
  <2> QED BY <1>1, <1>2, <1>4, <2>1, WindowsReached DEF Reaches
<1>5. CASE Pushing(t)
  <2> DEFINE p == [host |-> call[t].host, row |-> call[t].row]
             items == Held(t)
             new == Held(t)'
  <2>1. /\ p \in Pushed /\ p.host = call[t].host /\ p.row = call[t].row
        /\ pushed' = Append(pushed, p) /\ new = Push(items, call[t].host, call[t].row)
    BY <1>5 DEF Pushing, Pushed
  <2>2. Pend(t) = {p.host} /\ Pend(t)' = {}
    BY <1>5, <2>1 DEF Pushing, Pend
  <2> HIDE DEF p
  <2>3. /\ IsDict(items) /\ Len(items) <= max_hosts /\ pushed \in Seq(Pushed)
        /\ \A i \in DOMAIN items : items[i].rows \in Seq(Nat) /\ Len(items[i].rows) <= seq_len
        /\ WindowsExact(items, pushed)
        /\ RecentKept(items, pushed, {p.host})
        /\ RecentKept(new, Append(pushed, p), {})
        /\ new = Push(items, p.host, p.row)
    BY <1>1, <1>2, <2>1, <2>2
  <2> HIDE DEF items, new
  <2>4. /\ IsDict(new) /\ Len(new) = Len(items)
        /\ \A i \in DOMAIN items :
             /\ items[i].rows \in Seq(Nat)
             /\ new[i].host = items[i].host
             /\ new[i].rows = IF items[i].host = p.host
                                THEN Capped(Append(items[i].rows, p.row)) ELSE items[i].rows
    <3>1. p.host \in Hosts /\ p.row \in Nat
      BY <2>1 DEF Pushed
    <3>2. \A i \in DOMAIN items : Len(items[i].rows) <= seq_len
      BY <2>3
    <3> DEFINE pushedTo == Push(items, p.host, p.row)
    <3>3. /\ IsDict(pushedTo) /\ Len(pushedTo) = Len(items)
          /\ \A i \in DOMAIN items :
               /\ pushedTo[i].host = items[i].host
               /\ pushedTo[i].rows = IF items[i].host = p.host
                                       THEN Capped(Append(items[i].rows, p.row))
                                       ELSE items[i].rows
      BY <2>3, <3>1, <3>2, PushesRow
    <3> HIDE DEF pushedTo
    <3>4. new = pushedTo
      BY <2>3 DEF pushedTo
    <3> QED BY <2>3, <3>3, <3>4
  <2>5. WindowsExact(new, Append(pushed, p))
    BY <2>1, <2>3, <2>4, WindowsPushed
  <2> QED BY <2>1, <2>5 DEF new
<1> QED BY <1>3, <1>4, <1>5 DEF Moves

(* The rows that window returns, padded, are the batch's sequence.          *)
LEMMA ReadIsBatch ==
  ASSUME RecentInv, Alone, NEW t \in Threads, Threads = {t}, Sequenced(t), pc[t] = "read"
  PROVE  SequenceMade(pushed, [call[t] EXCEPT !.sequence = Padded(deques[call[t].deque])])
<1>1. IsCall(call[t]) /\ pushed \in Seq(Pushed)
  BY DEF RecentInv, ReachedInv, BoundInv, HeapInv, HeapTyped, ThreadsTyped
<1>2. InWindow(t) /\ ReachedInv
  BY DEF InWindow, RecentInv
<1> DEFINE items == Held(t)
           rows == deques[call[t].deque]
<1>3. PICK k \in Nat \ {0} : k = Len(pushed)
  BY <1>1, <1>2 DEF Sequenced
<1>4. pushed[k].host = call[t].host /\ pushed[k].row = call[t].row
  BY <1>2, <1>3 DEF Sequenced
<1>5. /\ Len(items) \in DOMAIN items /\ items[Len(items)].host = call[t].host
      /\ items[Len(items)].rows = rows /\ items[Len(items)].rows \in Seq(Nat)
  <2>1. call[t].deque = data[Len(data)].deque
    BY <1>2, HostHeld DEF InPlace
  <2> QED BY <1>2, <2>1, HostHeld, HeldIs
<1>6. rows \in Seq(Nat) /\ NewestRows(rows, NextContext(pushed, pushed[k].host), pushed)
  <2>1. WindowsExact(items, pushed)
    BY DEF Sequenced
  <2> QED BY <1>4, <1>5, <2>1 DEF WindowsExact
<1> HIDE DEF items, rows
<1>7. Padded(rows) = BuildSequences(BatchOf(pushed, k))[Len(BatchOf(pushed, k))]
  BY <1>1, <1>3, <1>6, WindowAsTrained
<1> DEFINE c == [call[t] EXCEPT !.sequence = Padded(rows)]
<1>8. c.sequence = Padded(rows) /\ c.row = call[t].row
  BY <1>1 DEF IsCall, Fields
<1> HIDE DEF c
<1>9. SequenceMade(pushed, c)
  <2>1. k \in DOMAIN pushed
    BY <1>1, <1>3
  <2> QED BY <1>4, <1>7, <1>8, <2>1 DEF SequenceMade
<1> QED BY <1>9 DEF c, rows

LEMMA SequencedStep ==
  ASSUME RecentInv, RecentInv', [Next]_vars, Alone, Alone', NEW t \in Threads, Threads = {t},
         Threads' = {t}, Moves(t), Sequenced(t)
  PROVE  Sequenced(t)'
<1>1. HeapInv /\ ThreadsTyped /\ pushed \in Seq(Pushed)
  BY DEF RecentInv, ReachedInv, BoundInv, HeapInv, HeapTyped
<1>2. WindowsExact(Held(t)', pushed')
  BY WindowsStep DEF Sequenced
<1>3. ASSUME NEW c, SequenceMade(pushed, c) PROVE SequenceMade(pushed', c)
  <2>1. CASE UNCHANGED pushed
    BY <1>3, <2>1
  <2>2. CASE Pushing(t)
    <3> DEFINE p == [host |-> call[t].host, row |-> call[t].row]
    <3>1. p \in Pushed /\ pushed' = Append(pushed, p)
      BY <2>2 DEF Pushing, Pushed
    <3> HIDE DEF p
    <3> QED BY <1>1, <1>3, <3>1, SequenceStays
  <2> QED BY <2>1, <2>2 DEF Moves, Quiet, Reaches
<1>4. ASSUME InWindow(t)'
      PROVE  /\ Len(pushed') > 0
             /\ pushed'[Len(pushed')].host = call'[t].host
             /\ pushed'[Len(pushed')].row = call'[t].row
  <2>1. CASE Quiet(t)
    BY <1>4, <2>1 DEF Quiet, Sequenced
  <2>2. CASE Pushing(t)
    <3> DEFINE p == [host |-> call[t].host, row |-> call[t].row]
    <3>1. /\ p \in Pushed /\ pushed' = Append(pushed, p) /\ call' = call
          /\ p.host = call[t].host /\ p.row = call[t].row
      BY <2>2 DEF Pushing, Pushed
    <3> HIDE DEF p
    <3>2. Len(pushed') = Len(pushed) + 1 /\ pushed'[Len(pushed) + 1] = p /\ Len(pushed) \in Nat
      BY <1>1, <3>1, AppendProperties
    <3> QED BY <3>1, <3>2
  <2>3. ~Reaches(t)
    BY <1>4 DEF Reaches
  <2> QED BY <2>1, <2>2, <2>3 DEF Moves
<1>5. ASSUME pc'[t] \in {"verify", "explain"}, call'[t].model_used = "heavy"
      PROVE  SequenceMade(pushed', call'[t])
  <2>1. CASE pc[t] \in {"verify", "explain"} /\ call'[t] = call[t]
    BY <1>3, <1>5, <2>1 DEF Sequenced
  <2>2. CASE /\ ReadRows(t)
             /\ call'[t] = [call[t] EXCEPT !.sequence = Padded(deques[call[t].deque])]
    <3>1. pc[t] = "read"
      BY <2>2 DEF ReadRows
    <3>2. SequenceMade(pushed, call'[t])
      BY <2>2, <3>1, ReadIsBatch
    <3> QED BY <1>3, <3>2
  <2> QED BY <1>1, <1>5, <2>1, <2>2, VerdictStep
<1>6. ASSUME NEW c \in returned', c.model_used = "heavy" PROVE SequenceMade(pushed', c)
  <2>1. CASE c \in returned
    BY <1>3, <1>6, <2>1 DEF Sequenced
  <2>2. CASE c \notin returned
    <3>1. pc[t] = "explain" /\ c = call[t]
      BY <1>1, <2>2, ReturnedStep
    <3> QED BY <1>3, <1>6, <3>1 DEF Sequenced
  <2> QED BY <2>1, <2>2
<1> QED BY <1>2, <1>4, <1>5, <1>6 DEF Sequenced

LEMMA SequenceInvariance == Spec => []SequenceInv
<1>1. Init => SequenceInv
  <2> SUFFICES ASSUME Init PROVE SequenceInv
    OBVIOUS
  <2>1. /\ data = <<>> /\ pushed = <<>> /\ returned = {}
        /\ \A t \in Threads : pc[t] = "idle"
    BY DEF Init, Threads
  <2>2. \A t \in Threads : DOMAIN Held(t) = {}
    <3>1. \A t \in Threads : Held(t) = RowsIn(data, deques)
      BY <2>1 DEF Held
    <3>2. DOMAIN RowsIn(data, deques) = DOMAIN data
      BY DEF RowsIn
    <3> QED BY <2>1, <3>1, <3>2
  <2>3. \A t \in Threads : WindowsExact(Held(t), pushed)
    BY <2>2 DEF WindowsExact
  <2> QED BY <2>1, <2>3, InitRecent DEF SequenceInv, Sequenced, InWindow
<1>2. SequenceInv /\ RecentInv' /\ [Next]_vars => SequenceInv'
  <2> SUFFICES ASSUME SequenceInv, RecentInv', [Next]_vars PROVE SequenceInv'
    OBVIOUS
  <2>1. Alone' = Alone
    BY ScenarioStays DEF SequenceInv, RecentInv
  <2>2. ASSUME Alone PROVE \A t \in Threads' : Sequenced(t)'
    <3>1. PICK t \in Threads : Threads = {t} /\ Threads' = {t} /\ Moves(t)
      BY <2>2, OneCaller DEF SequenceInv, RecentInv
    <3>2. Sequenced(t)'
      BY <2>1, <2>2, <3>1, SequencedStep DEF SequenceInv
    <3> QED BY <3>1, <3>2
  <2> QED BY <2>1, <2>2 DEF SequenceInv
<1> QED BY <1>1, <1>2, RecentInvariance, PTL DEF Spec

(* From one caller, the heavy model gets for a flow the sequence that       *)
(* build_sequences makes of the same flows in one batch                     *)
(* (predict_interface.py:97-100, data_utils.py:181-184).                    *)
THEOREM SequenceOfBatch == Spec => []SequenceAsTrained
<1>1. SequenceInv => SequenceAsTrained
  <2> SUFFICES ASSUME SequenceInv, NEW c \in returned, Alone, c.model_used = "heavy"
               PROVE  \E k \in DOMAIN pushed :
                        /\ pushed[k].row = c.row
                        /\ LET first == CHOOSE i \in InContext(k) : \A j \in InContext(k) : i <= j
                               table == SubSeq(pushed, first, k)
                           IN  c.sequence = BuildSequences(table)[Len(table)]
    BY DEF SequenceAsTrained
  <2>1. \A k : InContext(k) = ContextAt(pushed, pushed[k].host, k)
    BY DEF InContext, ContextAt, ForgottenAt, HostsBetween, Between, Pushes, PushesIn
  <2>2. SequenceMade(pushed, c)
    BY TheCaller DEF SequenceInv, RecentInv, ReachedInv, BoundInv, Sequenced
  <2> QED BY <2>1, <2>2 DEF SequenceMade, BatchOf, FirstOf
<1> QED BY <1>1, SequenceInvariance, PTL
==============================================================================
