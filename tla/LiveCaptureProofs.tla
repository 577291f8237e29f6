-------------------------- MODULE LiveCaptureProofs --------------------------
(****************************************************************************)
(* The live capture, for every set of keys, every capacity and timeout and  *)
(* every interleaving of its threads: the table stays within its bound, no  *)
(* thread scores a flow twice, and without the sweeper no flow is scored    *)
(* twice or lost from sight.                                                *)
(****************************************************************************)
EXTENDS LiveCapture, FiniteSetTheorems, SequenceTheorems, TLAPS

------------------------------------------------------------------------------
(* The invariant                                                            *)

CaptureLabels == {"idle", "admit", "scan", "insert", "apply", "close", "score",
                  "test", "expire", "score last", "dead"}
SweeperLabels == {"absent", "idle", "test", "expire", "score last", "dead"}
HandlerLabels == {"idle", "clear", "score last", "exited"}

Item == [key : Keys, flow : Nat]
Packet == [key : Keys \cup {NoPacket.key}, closes : BOOLEAN, flow : Nat, scan : SUBSET Keys]

LiveTypes ==
  /\ table \in [Keys -> Nat]
  /\ last_seen \in Seq(Nat) /\ clock \in Nat
  /\ pc \in [Threads -> CaptureLabels \cup SweeperLabels \cup HandlerLabels]
  /\ pc[Capture] \in CaptureLabels
  /\ pc[Sweeper] \in SweeperLabels
  /\ pc[Handler] \in HandlerLabels
  /\ now \in [Threads -> Nat]
  /\ snapshot \in [Threads -> Seq(Item)]
  /\ queue \in [Threads -> Seq(Nat)]
  /\ scored \in [Threads -> Seq(Nat)]
  /\ current \in Packet
  /\ pc[Capture] \in {"admit", "scan", "insert", "apply", "close"} => current.key \in Keys

(* Every flow in the table is one that was created, under one key. *)
TableSound ==
  /\ \A k \in Keys : table[k] <= created
  /\ \A k, j \in Occupied : table[k] = table[j] => k = j

(* The main thread has made room before it inserts. *)
RoomMade ==
  /\ IsFiniteSet(Occupied)
  /\ Cardinality(Occupied) <= max_active_flows
  /\ pc[Capture] = "insert" => Cardinality(Occupied) < max_active_flows

(* What a thread has scored or has still to score. *)
Mine(t) == scored[t] \o queue[t]
NoRepeat(s) == \A i, j \in DOMAIN s : s[i] = s[j] => i = j

(* If the flow is in the table, it is under that key. *)
AtHome(f, key) == \A k \in Keys : table[k] = f => k = key

Checkers == {Capture, Sweeper}

(* A thread that checks timeouts gets a flow when it takes it out of the    *)
(* table, and a flow that it is going to take out it has not got yet.       *)
MineOnce ==
  /\ \A t \in Threads : NoRepeat(Mine(t)) /\ Elements(Mine(t)) \subseteq Flows
  /\ \A t \in Checkers, k \in Keys : table[k] \notin Elements(Mine(t))
  /\ pc[Handler] = "idle" => Mine(Handler) = <<>>

Pending(t, f, key) == f \in Flows /\ AtHome(f, key) /\ f \notin Elements(Mine(t))

InHandOnce ==
  /\ pc[Capture] \in {"apply", "close"} => Pending(Capture, current.flow, current.key)
  /\ \A t \in Checkers :
       /\ pc[t] \notin {"test", "expire"} => snapshot[t] = <<>>
       /\ pc[t] = "expire" => snapshot[t] # <<>>
       /\ \A i \in DOMAIN snapshot[t] : Pending(t, snapshot[t][i].flow, snapshot[t][i].key)
       /\ \A i, j \in DOMAIN snapshot[t] :
            snapshot[t][i].flow = snapshot[t][j].flow => i = j

LiveInv == LiveTypes /\ TableSound /\ RoomMade /\ MineOnce /\ InHandOnce

(* Without the sweeper, what the main thread has read of the table is still *)
(* true when it acts on it.                                                 *)
InStep ==
  /\ pc[Capture] \in {"apply", "close"} => table[current.key] = current.flow
  /\ pc[Capture] \in {"admit", "scan", "insert"} => table[current.key] = None
  /\ pc[Capture] = "scan" => current.scan = Occupied
  /\ \A i \in DOMAIN snapshot[Capture] :
       table[snapshot[Capture][i].key] = snapshot[Capture][i].flow

(* A flow is still in the table or some thread has got it.                  *)
Somewhere(f) ==
  \/ \E k \in Keys : table[k] = f
  \/ \E t \in Threads : f \in Elements(Mine(t))

SingleInv ==
  SingleThread =>
    /\ Mine(Sweeper) = <<>>
    /\ pc[Handler] = "idle" => InStep
    /\ pc[Handler] = "clear" => \A k \in Occupied : table[k] \in Elements(Mine(Handler))
    /\ Elements(Mine(Capture)) \cap Elements(Mine(Handler)) = {}
    /\ \A f \in Flows : Somewhere(f)
    /\ pc[Capture] = "dead" => queue[Capture] # <<>>

------------------------------------------------------------------------------
(* Sequences of flows                                                       *)

LEMMA OneMore ==
  ASSUME NEW S, NEW s \in Seq(S), NEW x \in S
  PROVE  /\ Append(s, x) \in Seq(S)
         /\ Elements(Append(s, x)) = Elements(s) \cup {x}
         /\ NoRepeat(s) /\ x \notin Elements(s) => NoRepeat(Append(s, x))
<1> DEFINE t == Append(s, x)
<1>1. PICK n \in Nat : n = Len(s) /\ DOMAIN s = 1 .. n
  OBVIOUS
<1>2. /\ t \in Seq(S) /\ DOMAIN t = 1 .. n + 1
      /\ t[n + 1] = x /\ \A i \in 1 .. n : t[i] = s[i]
  BY <1>1, AppendProperties
<1>3. 1 .. n + 1 = (1 .. n) \cup {n + 1}
  OBVIOUS
<1> HIDE DEF t
<1>4. Elements(t) = Elements(s) \cup {x}
  BY <1>1, <1>2, <1>3 DEF Elements
<1>5. ASSUME NoRepeat(s), x \notin Elements(s) PROVE NoRepeat(t)
  BY <1>1, <1>2, <1>3, <1>5 DEF Elements, NoRepeat
<1> QED BY <1>2, <1>4, <1>5 DEF t

(* The next of a queue moves on: nothing changes for the thread as a whole. *)
LEMMA OneMovesOn ==
  ASSUME NEW S, NEW s \in Seq(S), NEW q \in Seq(S), q # <<>>
  PROVE  Append(s, Head(q)) \o Tail(q) = s \o q
<1>1. q = <<Head(q)>> \o Tail(q) /\ Head(q) \in S /\ Tail(q) \in Seq(S)
  BY HeadTailProperties
<1>2. Append(s, Head(q)) = s \o <<Head(q)>> /\ <<Head(q)>> \in Seq(S)
  BY <1>1, AppendIsConcat
<1> QED BY <1>1, <1>2, ConcatAssociative

LEMMA OneQueued ==
  ASSUME NEW S, NEW s \in Seq(S), NEW q \in Seq(S), NEW x \in S
  PROVE  s \o Append(q, x) = Append(s \o q, x)
<1>1. <<x>> \in Seq(S) /\ s \o q \in Seq(S)
  BY ConcatProperties
<1>2. Append(q, x) = q \o <<x>> /\ Append(s \o q, x) = (s \o q) \o <<x>>
  BY <1>1, AppendIsConcat
<1> QED BY <1>1, <1>2, ConcatAssociative

LEMMA RestOf ==
  ASSUME NEW S, NEW s \in Seq(S), s # <<>>
  PROVE  /\ Head(s) = s[1] /\ 1 \in DOMAIN s
         /\ Tail(s) \in Seq(S)
         /\ \A i \in DOMAIN Tail(s) : i + 1 \in DOMAIN s /\ i + 1 # 1 /\ Tail(s)[i] = s[i + 1]
         /\ \A i, j \in DOMAIN Tail(s) : i + 1 = j + 1 => i = j
<1>1. PICK n \in Nat : n = Len(s) /\ DOMAIN s = 1 .. n /\ n # 0
  BY EmptySeq
<1>2. /\ Tail(s) \in Seq(S) /\ Len(Tail(s)) = n - 1
      /\ \A i \in 1 .. n - 1 : Tail(s)[i] = s[i + 1]
  BY <1>1, HeadTailProperties
<1>3. DOMAIN Tail(s) = 1 .. n - 1
  BY <1>1, <1>2
<1> QED BY <1>1, <1>2, <1>3

------------------------------------------------------------------------------
(* list(active_flows.items()): every flow of the table, once.               *)

Rank(k) == Cardinality({ j \in Occupied : table[j] < table[k] })

LEMMA RanksDiffer ==
  ASSUME table \in [Keys -> Nat], IsFiniteSet(Occupied), TableSound
  PROVE  /\ \A k \in Occupied : Rank(k) \in 0 .. Cardinality(Occupied) - 1
         /\ \A k, j \in Occupied : Rank(k) = Rank(j) => k = j
<1> DEFINE Below(k) == { j \in Occupied : table[j] < table[k] }
<1>1. ASSUME NEW k \in Occupied
      PROVE  /\ IsFiniteSet(Below(k)) /\ Cardinality(Below(k)) \in Nat
             /\ Cardinality(Below(k)) < Cardinality(Occupied)
  <2>1. k \in Occupied /\ k \notin Below(k) /\ Below(k) \in SUBSET Occupied
    BY DEF Occupied
  <2> HIDE DEF Below
  <2>2. Cardinality(Below(k)) \in Nat /\ Cardinality(Occupied) \in Nat
    BY <2>1, FS_Subset, FS_CardinalityType
  <2> QED BY <2>1, <2>2, FS_Subset
<1>2. ASSUME NEW k \in Occupied, NEW j \in Occupied, table[k] < table[j]
      PROVE  Cardinality(Below(k)) < Cardinality(Below(j))
  <2>1. table[k] \in Nat /\ table[j] \in Nat /\ \A i \in Occupied : table[i] \in Nat
    BY DEF Occupied
  <2>2. Below(k) \in SUBSET Below(j) /\ k \in Below(j) /\ k \notin Below(k)
    BY <1>2, <2>1
  <2>3. /\ IsFiniteSet(Below(j)) /\ Cardinality(Below(j)) \in Nat
        /\ Cardinality(Below(k)) \in Nat
    BY <1>1
  <2> HIDE DEF Below
  <2> QED BY <2>2, <2>3, FS_Subset
<1>3. \A k \in Occupied : Rank(k) = Cardinality(Below(k))
  BY DEF Rank
<1> HIDE DEF Below
<1>4. ASSUME NEW k \in Occupied, NEW j \in Occupied, Rank(k) = Rank(j)
      PROVE  k = j
  <2>1. table[k] \in Nat /\ table[j] \in Nat
    BY DEF Occupied
  <2>2. ~(table[k] < table[j]) /\ ~(table[j] < table[k])
    BY <1>1, <1>2, <1>3, <1>4
  <2> QED BY <2>1, <2>2 DEF TableSound
<1>5. Cardinality(Occupied) \in Nat
  BY FS_CardinalityType
<1> QED BY <1>1, <1>3, <1>4, <1>5

(* Every rank is that of a key.                                             *)
LEMMA RanksMet ==
  ASSUME table \in [Keys -> Nat], IsFiniteSet(Occupied), TableSound
  PROVE  \A i \in 1 .. Cardinality(Occupied) : \E k \in Occupied : Rank(k) = i - 1
<1> DEFINE rank == [k \in Occupied |-> Rank(k)]
           R == 0 .. Cardinality(Occupied) - 1
<1>1. rank \in Injection(Occupied, R)
  BY RanksDiffer DEF Injection, IsInjective
<1>2. Cardinality(Occupied) \in Nat
  BY FS_CardinalityType
<1>3. IsFiniteSet(R) /\ Cardinality(R) = Cardinality(Occupied)
  BY <1>2, FS_Interval
<1>4. rank \in Surjection(Occupied, R)
  BY <1>1, <1>3, FS_Injection
<1>5. \A r \in R : \E k \in Occupied : rank[k] = r
  BY <1>4 DEF Surjection
<1>6. ASSUME NEW i \in 1 .. Cardinality(Occupied) PROVE \E k \in Occupied : Rank(k) = i - 1
  <2>1. i - 1 \in R
    BY <1>2
  <2> QED BY <1>5, <2>1
<1> QED BY <1>6

(* The items name the keys and the flows of the table, each once.           *)
ItemsAreTable(items) ==
  /\ items \in Seq(Item)
  /\ \A i \in DOMAIN items :
       items[i].key \in Occupied /\ items[i].flow = table[items[i].key]
  /\ \A i, j \in DOMAIN items : items[i].flow = items[j].flow => i = j
  /\ \A k \in Occupied : \E i \in DOMAIN items : items[i].flow = table[k]

LEMMA ItemsOfTable ==
  ASSUME table \in [Keys -> Nat], IsFiniteSet(Occupied), TableSound
  PROVE  ItemsAreTable(Items)
<1> DEFINE n == Cardinality(Occupied)
           at == [i \in 1 .. n |-> CHOOSE k \in Occupied : Rank(k) = i - 1]
<1>1. n \in Nat
  BY FS_CardinalityType
<1>2. \A i \in 1 .. n : at[i] \in Occupied /\ Rank(at[i]) = i - 1
  BY RanksMet
<1>3. Items = [i \in 1 .. n |-> [key |-> at[i], flow |-> table[at[i]]]]
  BY DEF Items, Rank
<1> HIDE DEF n, at
<1>4. \A i \in 1 .. n : [key |-> at[i], flow |-> table[at[i]]] \in Item
  BY <1>2 DEF Item, Occupied
<1>5. Items \in Seq(Item) /\ DOMAIN Items = 1 .. n
  BY <1>1, <1>3, <1>4
<1>6. \A i \in 1 .. n : Items[i].key = at[i] /\ Items[i].flow = table[at[i]]
  BY <1>3
<1>7. ASSUME NEW i \in 1 .. n, NEW j \in 1 .. n, table[at[i]] = table[at[j]]
      PROVE  i = j
  <2>1. at[i] = at[j]
    BY <1>2, <1>7 DEF TableSound
  <2>2. i - 1 = j - 1
    BY <1>2, <2>1
  <2> QED BY <2>2
<1>8. ASSUME NEW k \in Occupied PROVE \E i \in 1 .. n : at[i] = k
  <2>1. Rank(k) \in 0 .. n - 1
    BY RanksDiffer DEF n
  <2>2. Rank(k) + 1 \in 1 .. n /\ (Rank(k) + 1) - 1 = Rank(k)
    BY <1>1, <2>1
  <2>3. Rank(at[Rank(k) + 1]) = Rank(k) /\ at[Rank(k) + 1] \in Occupied
    BY <1>2, <2>2
  <2>4. at[Rank(k) + 1] = k
    BY <2>3, RanksDiffer
  <2> QED BY <2>2, <2>4
<1> QED BY <1>2, <1>5, <1>6, <1>7, <1>8 DEF ItemsAreTable

------------------------------------------------------------------------------
(* Types                                                                    *)

LEMMA ThreadNames ==
  /\ Threads = Checkers \cup {Handler} /\ Checkers = {Capture, Sweeper}
  /\ Capture \in Threads /\ Sweeper \in Threads /\ Handler \in Threads
  /\ Capture # Sweeper /\ Capture # Handler /\ Sweeper # Handler
BY DEF Threads, Capture, Sweeper, Handler, Checkers

LEMMA QueuesType ==
  ASSUME NEW queues \in [Threads -> Seq(Nat)], NEW t \in Threads, NEW f \in Nat
  PROVE  [queues EXCEPT ![t] = Append(@, f)] \in [Threads -> Seq(Nat)]
<1>1. Append(queues[t], f) \in Seq(Nat)
  OBVIOUS
<1> QED BY <1>1

LEMMA SeenType ==
  ASSUME NEW seen \in Seq(Nat), NEW i, NEW x \in Nat
  PROVE  [seen EXCEPT ![i] = x] \in Seq(Nat) /\ Len([seen EXCEPT ![i] = x]) = Len(seen)
<1>1. CASE i \in 1 .. Len(seen)
  BY <1>1, ExceptSeq
<1>2. CASE i \notin 1 .. Len(seen)
  <2>1. seen \in [1 .. Len(seen) -> Nat]
    BY LenProperties
  <2>2. [seen EXCEPT ![i] = x] = seen
    BY <1>2, <2>1
  <2> QED BY <2>2
<1> QED BY <1>1, <1>2

LEMMA CreatedType == LiveTypes => created \in Nat /\ Flows = 1 .. created
BY LenProperties DEF LiveTypes, created, Flows

LEMMA AddStepsType ==
  ASSUME LiveTypes, NEW key \in Keys, NEW closes \in BOOLEAN,
         Receive(key, closes) \/ AddSteps
  PROVE  LiveTypes'
<1>0. created + 1 \in Nat
  BY CreatedType
<1> USE ThreadNames DEF LiveTypes, At, MayStep, Goto, CaptureLabels, SweeperLabels, HandlerLabels
<1>1. CASE Receive(key, closes)
  <2>1. current' \in Packet /\ current'.key = key
    BY <1>1 DEF Receive, Packet, NoPacket, None
  <2> QED BY <1>1, <2>1 DEF Receive
<1>2. CASE Admit
  <2>1. current' \in Packet /\ current'.key = current.key
    BY <1>2 DEF Admit, Packet, Occupied
  <2> QED BY <1>2, <2>1 DEF Admit
<1>3. CASE ScanRaises
  BY <1>3 DEF ScanRaises
<1>4. CASE Evict
  <2>1. PICK k \in Keys : /\ table' = [table EXCEPT ![k] = None]
                          /\ queue' = [queue EXCEPT ![Capture] = Append(@, table[k])]
    BY <1>4 DEF Evict, Occupied
  <2>2. table' \in [Keys -> Nat] /\ queue' \in [Threads -> Seq(Nat)]
    BY <2>1, QueuesType DEF None
  <2> QED BY <1>4, <2>2 DEF Evict
<1>5. CASE Insert
  <2>2. current' = [current EXCEPT !.flow = created + 1]
    BY <1>5 DEF Insert
  <2> HIDE DEF LiveTypes
  <2>3. current' \in Packet /\ current'.key = current.key
    BY <1>0, <2>2 DEF Packet, LiveTypes
  <2>4. last_seen' \in Seq(Nat)
    <3>1. now[Capture] \in Nat /\ last_seen \in Seq(Nat)
      BY DEF LiveTypes
    <3> QED BY <1>5, <3>1, AppendProperties DEF Insert
  <2>5. current.key \in Keys /\ table' \in [Keys -> Nat]
    BY <1>0, <1>5 DEF Insert, LiveTypes
  <2> QED BY <1>5, <2>3, <2>4, <2>5 DEF Insert, LiveTypes
<1>6. CASE Apply
  <2>1. last_seen' \in Seq(Nat)
    BY <1>6, SeenType DEF Apply
  <2> QED BY <1>6, <2>1 DEF Apply
<1>7. CASE Close
  <2>1. current.flow \in Nat
    BY DEF Packet
  <2>2. queue' \in [Threads -> Seq(Nat)]
    BY <1>7, <2>1, QueuesType DEF Close
  <2> QED BY <1>7, <2>2 DEF Close, None
<1> QED BY <1>1, <1>2, <1>3, <1>4, <1>5, <1>6, <1>7 DEF AddSteps

LEMMA CheckStepsType ==
  ASSUME LiveTypes, TableSound, IsFiniteSet(Occupied), InHandOnce,
         NEW t \in Checkers, ThenCheckTimeouts \/ WakeUp \/ CheckSteps(t)
  PROVE  LiveTypes'
<1>1. Items \in Seq(Item)
  BY ItemsOfTable DEF LiveTypes, ItemsAreTable
<1>2. t \in Threads
  BY ThreadNames
<1> USE DEF At, Goto
<1>3. CASE ThenCheckTimeouts
  <2>1. snapshot' \in [Threads -> Seq(Item)]
    BY <1>1, <1>3, ThreadNames DEF ThenCheckTimeouts, Snapshot, LiveTypes
  <2> QED BY <1>3, <2>1, ThreadNames
        DEF ThenCheckTimeouts, Snapshot, LiveTypes, CaptureLabels, SweeperLabels, HandlerLabels
<1>4. CASE WakeUp
  <2>1. snapshot' \in [Threads -> Seq(Item)] /\ now' \in [Threads -> Nat]
    BY <1>1, <1>4, ThreadNames DEF WakeUp, Snapshot, LiveTypes
  <2> QED BY <1>4, <2>1, ThreadNames
        DEF WakeUp, Snapshot, LiveTypes, CaptureLabels, SweeperLabels, HandlerLabels
<1>5. CASE Test(t)
  <2>1. snapshot' \in [Threads -> Seq(Item)]
    <3>1. snapshot[t] # <<>> => Tail(snapshot[t]) \in Seq(Item)
      BY <1>2, HeadTailProperties DEF LiveTypes
    <3> QED BY <1>2, <1>5, <3>1 DEF Test, LiveTypes
  <2>2. /\ pc' = pc \/ pc' = [pc EXCEPT ![t] = "expire"]
        /\ UNCHANGED <<table, last_seen, clock, now, queue, current, scored>>
        /\ pc[t] = "test"
    BY <1>5 DEF Test
  <2> QED BY <2>1, <2>2, ThreadNames
        DEF LiveTypes, CaptureLabels, SweeperLabels, HandlerLabels
<1>6. CASE Expire(t)
  <2>1. snapshot[t] # <<>> /\ snapshot[t] \in Seq(Item)
    BY <1>2, <1>6 DEF Expire, InHandOnce, LiveTypes
  <2>2. Head(snapshot[t]) \in Item /\ Tail(snapshot[t]) \in Seq(Item)
    BY <2>1, HeadTailProperties
  <2>3. Head(snapshot[t]).flow \in Nat
    BY <2>2 DEF Item
  <2>4. /\ queue' \in [Threads -> Seq(Nat)]
        /\ snapshot' \in [Threads -> Seq(Item)]
        /\ table' \in [Keys -> Nat]
    <3>1. table' \in [Keys -> Nat]
      BY <1>6 DEF Expire, LiveTypes, None
    <3>2. queue' \in [Threads -> Seq(Nat)]
      BY <1>2, <1>6, <2>3, QueuesType DEF Expire, LiveTypes
    <3>3. snapshot' \in [Threads -> Seq(Item)]
      BY <1>2, <1>6, <2>2 DEF Expire, LiveTypes
    <3> QED BY <3>1, <3>2, <3>3
  <2>5. /\ pc' = [pc EXCEPT ![t] = "test"]
        /\ UNCHANGED <<last_seen, clock, now, current, scored>>
        /\ pc[t] = "expire"
    BY <1>6 DEF Expire
  <2> QED BY <2>4, <2>5, ThreadNames
        DEF LiveTypes, CaptureLabels, SweeperLabels, HandlerLabels
<1>7. CASE Checked(t)
  <2>1. /\ pc' = [pc EXCEPT ![t] = "score last"]
        /\ UNCHANGED <<table, last_seen, clock, now, snapshot, queue, current, scored>>
        /\ pc[t] = "test"
    BY <1>7 DEF Checked
  <2> QED BY <2>1, ThreadNames
        DEF LiveTypes, CaptureLabels, SweeperLabels, HandlerLabels
<1> QED BY <1>3, <1>4, <1>5, <1>6, <1>7 DEF CheckSteps

LEMMA ScoreStepsType ==
  ASSUME LiveTypes, NEW t \in Threads, ScoreSteps(t)
  PROVE  LiveTypes'
<1> USE DEF Scoring, At, Goto
<1>1. CASE Score(t)
  <2>1. /\ queue[t] # <<>> /\ queue[t] \in Seq(Nat) /\ scored[t] \in Seq(Nat)
        /\ scored' = [scored EXCEPT ![t] = Append(@, Head(queue[t]))]
        /\ queue' = [queue EXCEPT ![t] = Tail(@)]
        /\ UNCHANGED <<table, last_seen, clock, pc, now, snapshot, current>>
    BY <1>1 DEF Score, LiveTypes
  <2>2. Head(queue[t]) \in Nat /\ Tail(queue[t]) \in Seq(Nat)
    BY <2>1, HeadTailProperties
  <2>3. scored' \in [Threads -> Seq(Nat)] /\ queue' \in [Threads -> Seq(Nat)]
    BY <2>1, <2>2, QueuesType DEF LiveTypes
  <2> QED BY <2>1, <2>3 DEF LiveTypes
<1>2. CASE PredictFails(t)
  <2>1. /\ pc' = [pc EXCEPT ![t] = IF t = Handler THEN "exited" ELSE "dead"]
        /\ UNCHANGED <<table, last_seen, clock, now, snapshot, queue, current, scored>>
    BY <1>2 DEF PredictFails
  <2> QED BY <2>1, ThreadNames
        DEF LiveTypes, CaptureLabels, SweeperLabels, HandlerLabels
<1>3. CASE Done(t)
  <2>1. /\ pc' = [pc EXCEPT ![t] = IF t = Handler THEN "exited"
                                   ELSE IF pc[Handler] # "idle" THEN "dead" ELSE "idle"]
        /\ UNCHANGED <<table, last_seen, clock, now, snapshot, queue, current, scored>>
    BY <1>3 DEF Done
  <2> QED BY <2>1, ThreadNames
        DEF LiveTypes, CaptureLabels, SweeperLabels, HandlerLabels
<1> QED BY <1>1, <1>2, <1>3 DEF ScoreSteps

(* What flush() takes: the flows of the table, each once.                   *)
TakesFlows(flows) ==
  /\ flows \in Seq(Nat)
  /\ NoRepeat(flows)
  /\ Elements(flows) = { table[k] : k \in Occupied }

LEMMA FlushTakesTable ==
  ASSUME LiveTypes, TableSound, IsFiniteSet(Occupied)
  PROVE  TakesFlows([i \in DOMAIN Items |-> Items[i].flow])
<1> DEFINE flows == [i \in DOMAIN Items |-> Items[i].flow]
<1>1. ItemsAreTable(Items)
  BY ItemsOfTable DEF LiveTypes
<1>2. PICK n \in Nat : DOMAIN Items = 1 .. n
  BY <1>1, LenProperties DEF ItemsAreTable
<1>3. \A i \in 1 .. n : Items[i] \in Item
  BY <1>1, <1>2 DEF ItemsAreTable
<1>4. DOMAIN flows = 1 .. n /\ \A i \in 1 .. n : flows[i] = Items[i].flow /\ flows[i] \in Nat
  BY <1>2, <1>3 DEF Item
<1>5. flows \in Seq(Nat)
  BY <1>2, <1>4
<1> HIDE DEF flows
<1>6. NoRepeat(flows)
  BY <1>1, <1>2, <1>4 DEF ItemsAreTable, NoRepeat
<1>7. Elements(flows) = { table[k] : k \in Occupied }
  BY <1>1, <1>2, <1>4 DEF ItemsAreTable, Elements
<1> QED BY <1>5, <1>6, <1>7 DEF TakesFlows, flows

LEMMA OtherStepsType ==
  ASSUME LiveTypes, TableSound, IsFiniteSet(Occupied), Interrupt \/ Clear \/ Tick
  PROVE  LiveTypes'
<1> USE DEF Goto, At
<1>1. CASE Interrupt
  <2>1. queue' \in [Threads -> Seq(Nat)]
    BY <1>1, FlushTakesTable DEF Interrupt, TakesFlows, LiveTypes
  <2> QED BY <1>1, <2>1, ThreadNames
        DEF Interrupt, LiveTypes, CaptureLabels, SweeperLabels, HandlerLabels
<1>2. CASE Clear
  BY <1>2, ThreadNames DEF Clear, None, LiveTypes, CaptureLabels, SweeperLabels, HandlerLabels
<1>3. CASE Tick
  <2>1. /\ clock' \in Nat
        /\ UNCHANGED <<table, last_seen, pc, now, snapshot, queue, current, scored>>
    BY <1>3 DEF Tick, LiveTypes
  <2> QED BY <2>1 DEF LiveTypes
<1> QED BY <1>1, <1>2, <1>3

------------------------------------------------------------------------------
(* What a step does to the table and to what the threads have got.  Every   *)
(* step but Insert only takes flows out of the table; every step but        *)
(* Interrupt gives at most one flow to one thread.                          *)

TableShrinks ==
  /\ \A k \in Keys : table'[k] = table[k] \/ table'[k] = None
  /\ created' = created

Quiet ==
  /\ TableShrinks
  /\ \A t \in Threads : Mine(t)' = Mine(t)
  /\ pc'[Handler] = "idle" => pc[Handler] = "idle"

Gets(u, f) ==
  /\ TableShrinks
  /\ f \in Flows /\ f \notin Elements(Mine(u))
  /\ \A k \in Keys : table'[k] # f
  /\ Mine(u)' = Append(Mine(u), f)
  /\ \A t \in Threads \ {u} : Mine(t)' = Mine(t)
  /\ pc'[Handler] = pc[Handler]

LEMMA MineType ==
  ASSUME LiveTypes, NEW t \in Threads
  PROVE  /\ Mine(t) \in Seq(Nat)
         /\ queue[t] \in Seq(Nat) /\ scored[t] \in Seq(Nat)
         /\ Elements(Mine(t)) = Elements(scored[t]) \cup Elements(queue[t])
<1>1. queue[t] \in Seq(Nat) /\ scored[t] \in Seq(Nat)
  BY DEF LiveTypes
<1> DEFINE s == scored[t]
           q == queue[t]
           u == s \o q
<1>2. s \in Seq(Nat) /\ q \in Seq(Nat)
  BY <1>1
<1> HIDE DEF s, q
<1>3. PICK n \in Nat, m \in Nat : n = Len(s) /\ DOMAIN s = 1 .. n /\ m = Len(q) /\ DOMAIN q = 1 .. m
  BY <1>2
<1>4. /\ u \in Seq(Nat) /\ DOMAIN u = 1 .. n + m
      /\ \A i \in 1 .. n + m : u[i] = IF i <= n THEN s[i] ELSE q[i - n]
  BY <1>2, <1>3, ConcatProperties
<1> HIDE DEF u
<1>5. \A i \in 1 .. n : i \in 1 .. n + m /\ u[i] = s[i]
  BY <1>4
<1>6. \A i \in 1 .. m : n + i \in 1 .. n + m /\ u[n + i] = q[i]
  <2> TAKE i \in 1 .. m
  <2>1. n + i \in 1 .. n + m /\ ~(n + i <= n) /\ (n + i) - n = i
    OBVIOUS
  <2> QED BY <1>4, <2>1
<1>7. \A i \in 1 .. n + m : u[i] \in Elements(s) \cup Elements(q)
  <2> TAKE i \in 1 .. n + m
  <2>1. CASE i <= n
    <3>1. i \in 1 .. n
      BY <2>1
    <3> QED BY <1>3, <1>5, <3>1 DEF Elements
  <2>2. CASE ~(i <= n)
    <3>1. i - n \in 1 .. m
      BY <2>2
    <3> QED BY <1>3, <1>4, <2>2, <3>1 DEF Elements
  <2> QED BY <2>1, <2>2
<1>8. /\ Elements(s) = { s[i] : i \in 1 .. n } /\ Elements(q) = { q[i] : i \in 1 .. m }
      /\ Elements(u) = { u[i] : i \in 1 .. n + m }
  BY <1>3, <1>4 DEF Elements
<1>9. Elements(u) \subseteq Elements(s) \cup Elements(q)
  BY <1>7, <1>8
<1>10. (\A i \in 1 .. n : s[i] \in Elements(u)) /\ (\A i \in 1 .. m : q[i] \in Elements(u))
  BY <1>5, <1>6, <1>8
<1>11. Elements(s) \subseteq Elements(u) /\ Elements(q) \subseteq Elements(u)
  BY <1>8, <1>10
<1>12. Elements(u) = Elements(s) \cup Elements(q)
  BY <1>9, <1>11
<1> QED BY <1>1, <1>4, <1>12 DEF Mine, s, q, u

LEMMA GivesOne ==
  ASSUME LiveTypes, NEW u \in Threads, NEW f \in Nat,
         queue' = [queue EXCEPT ![u] = Append(@, f)], scored' = scored
  PROVE  /\ Mine(u)' = Append(Mine(u), f)
         /\ \A t \in Threads \ {u} : Mine(t)' = Mine(t)
<1>1. queue[u] \in Seq(Nat) /\ scored[u] \in Seq(Nat)
  BY MineType
<1>2. queue'[u] = Append(queue[u], f) /\ \A t \in Threads \ {u} : queue'[t] = queue[t]
  BY DEF LiveTypes
<1>3. scored[u] \o Append(queue[u], f) = Append(scored[u] \o queue[u], f)
  <2>1. \A s, q \in Seq(Nat), x \in Nat : s \o Append(q, x) = Append(s \o q, x)
    BY OneQueued
  <2> QED BY <1>1, <2>1, Zenon
<1>4. Mine(u)' = Append(Mine(u), f)
  <2>1. Mine(u)' = scored[u] \o Append(queue[u], f)
    BY <1>2, Zenon DEF Mine
  <2> QED BY <1>3, <2>1, Zenon DEF Mine
<1>5. \A t \in Threads \ {u} : Mine(t)' = Mine(t)
  BY <1>2 DEF Mine
<1> QED BY <1>4, <1>5

LEMMA ScoreMovesOn ==
  ASSUME LiveTypes, NEW u \in Threads, Score(u)
  PROVE  \A t \in Threads : Mine(t)' = Mine(t)
<1>1. /\ queue[u] # <<>> /\ queue[u] \in Seq(Nat) /\ scored[u] \in Seq(Nat)
      /\ scored'[u] = Append(scored[u], Head(queue[u])) /\ queue'[u] = Tail(queue[u])
      /\ \A t \in Threads \ {u} : scored'[t] = scored[t] /\ queue'[t] = queue[t]
  BY DEF Score, LiveTypes
<1>2. Append(scored[u], Head(queue[u])) \o Tail(queue[u]) = scored[u] \o queue[u]
  BY <1>1, OneMovesOn
<1> QED BY <1>1, <1>2 DEF Mine

QuietStep ==
  \/ \E key \in Keys, closes \in BOOLEAN : Receive(key, closes)
  \/ Admit \/ ScanRaises \/ Apply \/ ThenCheckTimeouts \/ WakeUp \/ Clear \/ Tick
  \/ \E t \in Checkers : Test(t) \/ Checked(t)
  \/ \E t \in Threads : ScoreSteps(t)
  \/ UNCHANGED vars

LEMMA QuietSteps ==
  ASSUME LiveTypes, QuietStep
  PROVE  Quiet
<1> USE DEF At, Goto
<1>1. CASE \E t \in Threads : Score(t)
  <2>1. PICK t \in Threads : Score(t)
    BY <1>1
  <2>2. UNCHANGED <<table, last_seen, pc>>
    BY <2>1 DEF Score
  <2> QED BY <2>1, <2>2, ScoreMovesOn DEF Quiet, TableShrinks, created
<1>2. CASE Clear
  <2>1. /\ table' = [k \in Keys |-> None]
        /\ UNCHANGED <<last_seen, queue, scored>>
        /\ pc' = [pc EXCEPT ![Handler] = "score last"]
    BY <1>2 DEF Clear
  <2>2. pc'[Handler] # "idle"
    BY <2>1, ThreadNames DEF LiveTypes
  <2> QED BY <2>1, <2>2 DEF Quiet, TableShrinks, created, Mine
<1>3. CASE Apply
  <2>1. /\ UNCHANGED <<table, queue, scored>>
        /\ last_seen' = [last_seen EXCEPT ![current.flow] = now[Capture]]
    BY <1>3 DEF Apply
  <2>2. created' = created
    <3>1. last_seen \in Seq(Nat) /\ now[Capture] \in Nat
      BY ThreadNames DEF LiveTypes
    <3> QED BY <2>1, <3>1, SeenType DEF created
  <2>3. pc'[Handler] = pc[Handler]
    BY <1>3, ThreadNames DEF Apply, LiveTypes
  <2> QED BY <2>1, <2>2, <2>3 DEF Quiet, TableShrinks, Mine
<1>4. ASSUME UNCHANGED <<table, last_seen, queue, scored>>,
             pc'[Handler] = "idle" => pc[Handler] = "idle"
      PROVE  Quiet
  BY <1>4 DEF Quiet, TableShrinks, created, Mine
<1>5. ASSUME NEW t \in Threads, PredictFails(t) \/ Done(t)
      PROVE  /\ UNCHANGED <<table, last_seen, queue, scored>>
             /\ pc'[Handler] = "idle" => pc[Handler] = "idle"
  BY <1>5, ThreadNames DEF PredictFails, Done, LiveTypes
<1>6. ASSUME NEW t \in Checkers, Test(t) \/ Checked(t)
      PROVE  /\ UNCHANGED <<table, last_seen, queue, scored>>
             /\ pc'[Handler] = "idle" => pc[Handler] = "idle"
  BY <1>6, ThreadNames DEF Test, Checked, LiveTypes
<1>7. ASSUME NEW key \in Keys, NEW closes \in BOOLEAN, Receive(key, closes)
      PROVE  /\ UNCHANGED <<table, last_seen, queue, scored>>
             /\ pc'[Handler] = "idle" => pc[Handler] = "idle"
  BY <1>7, ThreadNames DEF Receive, LiveTypes
<1>8. CASE Admit \/ ScanRaises \/ ThenCheckTimeouts \/ WakeUp \/ Tick \/ UNCHANGED vars
  <2>1. /\ UNCHANGED <<table, last_seen, queue, scored>>
        /\ pc'[Handler] = "idle" => pc[Handler] = "idle"
    BY <1>8, ThreadNames
       DEF Admit, ScanRaises, ThenCheckTimeouts, WakeUp, Snapshot, Tick, vars, LiveTypes
  <2> QED BY <1>4, <2>1
<1> QED BY <1>1, <1>2, <1>3, <1>4, <1>5, <1>6, <1>7, <1>8 DEF QuietStep, ScoreSteps

(* The steps that take a flow out of the table.                             *)
LEMMA TakingSteps ==
  ASSUME LiveTypes, TableSound, MineOnce, InHandOnce
  PROVE  /\ Evict => \E f \in Nat : Gets(Capture, f)
         /\ Close => Gets(Capture, current.flow)
         /\ \A t \in Checkers : Expire(t) => Gets(t, Head(snapshot[t]).flow)
<1> USE DEF At, Goto
<1>0. created \in Nat /\ Flows = 1 .. created /\ \A k \in Keys : table[k] \in Nat
  BY CreatedType DEF LiveTypes
<1>1. ASSUME Evict PROVE \E f \in Nat : Gets(Capture, f)
  <2>1. PICK k \in Occupied :
          /\ table' = [table EXCEPT ![k] = None]
          /\ queue' = [queue EXCEPT ![Capture] = Append(@, table[k])]
    BY <1>1 DEF Evict
  <2>2. /\ UNCHANGED <<last_seen, scored>>
        /\ pc'[Handler] = pc[Handler]
    BY <1>1, ThreadNames DEF Evict, LiveTypes
  <2>3. k \in Keys /\ table[k] \in Nat /\ table[k] # None /\ table[k] <= created
    BY <1>0 DEF Occupied, TableSound
  <2>4. table[k] \in Flows
    BY <1>0, <2>3 DEF None
  <2>5. table[k] \notin Elements(Mine(Capture))
    BY <2>3, ThreadNames DEF MineOnce
  <2>6. \A j \in Keys : table'[j] = IF j = k THEN None ELSE table[j]
    BY <2>1 DEF LiveTypes
  <2>7. \A j \in Keys : table'[j] # table[k]
    BY <2>3, <2>6 DEF TableSound, Occupied
  <2>8. /\ Mine(Capture)' = Append(Mine(Capture), table[k])
        /\ \A t \in Threads \ {Capture} : Mine(t)' = Mine(t)
    BY <2>1, <2>2, <2>3, GivesOne, ThreadNames
  <2>9. TableShrinks
    BY <2>2, <2>6 DEF TableShrinks, created
  <2> QED BY <2>2, <2>3, <2>4, <2>5, <2>7, <2>8, <2>9 DEF Gets
<1>2. ASSUME Close PROVE Gets(Capture, current.flow)
  <2>1. /\ table' = [table EXCEPT ![current.key] = None]
        /\ queue' = [queue EXCEPT ![Capture] = Append(@, current.flow)]
        /\ UNCHANGED <<last_seen, scored>>
        /\ pc'[Handler] = pc[Handler] /\ pc[Capture] = "close"
    BY <1>2, ThreadNames DEF Close, LiveTypes
  <2>2. /\ current.flow \in Flows /\ current.flow \in Nat
        /\ AtHome(current.flow, current.key)
        /\ current.flow \notin Elements(Mine(Capture))
    BY <1>0, <2>1 DEF InHandOnce, Pending
  <2>3. \A j \in Keys : table'[j] = IF j = current.key THEN None ELSE table[j]
    BY <2>1 DEF LiveTypes
  <2>4. \A j \in Keys : table'[j] # current.flow
    BY <1>0, <2>2, <2>3 DEF AtHome, None
  <2>5. /\ Mine(Capture)' = Append(Mine(Capture), current.flow)
        /\ \A t \in Threads \ {Capture} : Mine(t)' = Mine(t)
    BY <2>1, <2>2, GivesOne, ThreadNames
  <2>6. TableShrinks
    BY <2>1, <2>3 DEF TableShrinks, created
  <2> QED BY <2>1, <2>2, <2>4, <2>5, <2>6 DEF Gets
<1>3. ASSUME NEW t \in Checkers, Expire(t) PROVE Gets(t, Head(snapshot[t]).flow)
  <2> DEFINE item == Head(snapshot[t])
  <2>0. t \in Threads
    BY ThreadNames
  <2>1. /\ table' = [table EXCEPT ![item.key] = None]
        /\ queue' = [queue EXCEPT ![t] = Append(@, item.flow)]
        /\ UNCHANGED <<last_seen, scored>>
        /\ pc'[Handler] = pc[Handler] /\ pc[t] = "expire"
    BY <1>3, ThreadNames DEF Expire, LiveTypes
  <2>2. snapshot[t] # <<>> /\ snapshot[t] \in Seq(Item)
    BY <2>0, <2>1 DEF InHandOnce, LiveTypes
  <2>3. item = snapshot[t][1] /\ 1 \in DOMAIN snapshot[t]
    BY <2>2, RestOf
  <2>4. Pending(t, item.flow, item.key)
    BY <2>3 DEF InHandOnce
  <2> HIDE DEF item
  <2>5. /\ item.flow \in Flows /\ item.flow \in Nat
        /\ AtHome(item.flow, item.key)
        /\ item.flow \notin Elements(Mine(t))
    BY <1>0, <2>4 DEF Pending
  <2>6. \A j \in Keys : table'[j] = IF j = item.key THEN None ELSE table[j]
    BY <2>1 DEF LiveTypes
  <2>7. \A j \in Keys : table'[j] # item.flow
    BY <1>0, <2>5, <2>6 DEF AtHome, None
  <2>8. /\ Mine(t)' = Append(Mine(t), item.flow)
        /\ \A u \in Threads \ {t} : Mine(u)' = Mine(u)
    BY <2>0, <2>1, <2>5, GivesOne
  <2>9. TableShrinks
    BY <2>1, <2>6 DEF TableShrinks, created
  <2> QED BY <2>1, <2>5, <2>7, <2>8, <2>9 DEF Gets, item
<1> QED BY <1>1, <1>2, <1>3

------------------------------------------------------------------------------
(* What these steps keep.                                                   *)

PendingKept == \A t \in Checkers, f \in Nat, key \in Keys :
                 Pending(t, f, key) => Pending(t, f, key)'

LEMMA ShrinkingKeeps ==
  ASSUME LiveTypes, TableSound, TableShrinks
  PROVE  /\ TableSound'
         /\ Occupied' \subseteq Occupied /\ Flows' = Flows
         /\ \A f \in Flows, key \in Keys : AtHome(f, key) => AtHome(f, key)'
<1>1. created \in Nat /\ Flows = 1 .. created /\ created' = created /\ Flows' = Flows
  BY CreatedType DEF TableShrinks, Flows
<1>2. Occupied' \subseteq Occupied /\ \A k \in Occupied' : table'[k] = table[k]
  BY DEF TableShrinks, Occupied
<1>3. TableSound'
  <2>1. \A k \in Keys : table'[k] <= created'
    BY <1>1 DEF TableShrinks, TableSound, None
  <2>2. \A k, j \in Occupied' : table'[k] = table'[j] => k = j
    BY <1>2 DEF TableSound
  <2> QED BY <2>1, <2>2 DEF TableSound
<1>4. ASSUME NEW f \in Flows, NEW key \in Keys, AtHome(f, key) PROVE AtHome(f, key)'
  <2>1. f # None
    BY <1>1 DEF None
  <2> QED BY <1>4, <2>1 DEF AtHome, TableShrinks
<1> QED BY <1>1, <1>2, <1>3, <1>4

LEMMA QuietKeeps ==
  ASSUME LiveTypes, TableSound, MineOnce, Quiet
  PROVE  TableSound' /\ MineOnce' /\ PendingKept
<1>1. /\ TableSound' /\ Flows' = Flows
      /\ \A f \in Flows, key \in Keys : AtHome(f, key) => AtHome(f, key)'
  BY ShrinkingKeeps DEF Quiet
<1>2. created \in Nat /\ Flows = 1 .. created
  BY CreatedType
<1>3. MineOnce'
  <2>1. \A t \in Threads : NoRepeat(Mine(t)') /\ Elements(Mine(t)') \subseteq Flows'
    BY <1>1 DEF Quiet, MineOnce
  <2>2. \A t \in Checkers : Elements(Mine(t)) \subseteq Flows /\ None \notin Elements(Mine(t))
    BY <1>2, ThreadNames DEF MineOnce, None
  <2>3. \A t \in Checkers, k \in Keys : table'[k] \notin Elements(Mine(t)')
    BY <2>2, ThreadNames DEF Quiet, TableShrinks, MineOnce
  <2>4. pc'[Handler] = "idle" => Mine(Handler)' = <<>>
    BY ThreadNames DEF Quiet, MineOnce
  <2> QED BY <2>1, <2>3, <2>4 DEF MineOnce, NoRepeat, Elements
<1>4. PendingKept
  <2> SUFFICES ASSUME NEW t \in Checkers, NEW f \in Nat, NEW key \in Keys, Pending(t, f, key)
               PROVE  Pending(t, f, key)'
    BY DEF PendingKept
  <2>1. Mine(t)' = Mine(t)
    BY ThreadNames DEF Quiet
  <2>2. f \in Flows' /\ AtHome(f, key)' /\ f \notin Elements(Mine(t)')
    BY <1>1, <2>1 DEF Pending
  <2> QED BY <2>2 DEF Pending, Elements
<1> QED BY <1>1, <1>3, <1>4

LEMMA GetsKeeps ==
  ASSUME LiveTypes, TableSound, MineOnce, NEW u \in Checkers, NEW f \in Nat, Gets(u, f)
  PROVE  /\ TableSound' /\ MineOnce'
         /\ \A t \in Checkers, g \in Nat, key \in Keys :
              (Pending(t, g, key) /\ (t # u \/ g # f)) => Pending(t, g, key)'
<1>1. /\ TableSound' /\ Flows' = Flows
      /\ \A g \in Flows, key \in Keys : AtHome(g, key) => AtHome(g, key)'
  BY ShrinkingKeeps DEF Gets
<1>2. created \in Nat /\ Flows = 1 .. created /\ f \in Flows
  BY CreatedType DEF Gets
<1>3. Mine(u) \in Seq(Nat) /\ u \in Threads
  BY MineType, ThreadNames
<1>4. /\ Elements(Append(Mine(u), f)) = Elements(Mine(u)) \cup {f}
      /\ NoRepeat(Append(Mine(u), f))
  BY <1>3, OneMore DEF Gets, MineOnce
<1>5. /\ NoRepeat(Mine(u)') /\ Elements(Mine(u)') = Elements(Mine(u)) \cup {f}
      /\ \A t \in Threads \ {u} : Mine(t)' = Mine(t)
  BY <1>4 DEF Gets
<1>6. MineOnce'
  <2>1. \A t \in Threads : NoRepeat(Mine(t)') /\ Elements(Mine(t)') \subseteq Flows'
    BY <1>1, <1>2, <1>3, <1>5 DEF MineOnce
  <2>2. \A t \in Checkers : None \notin Elements(Mine(t))
    BY <1>2, ThreadNames DEF MineOnce, None
  <2>3. \A t \in Checkers, k \in Keys : table'[k] \notin Elements(Mine(t)')
    BY <1>5, <2>2, ThreadNames DEF Gets, TableShrinks, MineOnce
  <2>4. pc'[Handler] = "idle" => Mine(Handler)' = <<>>
    <3>1. u # Handler
      BY ThreadNames
    <3> QED BY <1>5, <3>1, ThreadNames DEF Gets, MineOnce
  <2> QED BY <2>1, <2>3, <2>4 DEF MineOnce, NoRepeat, Elements
<1>7. ASSUME NEW t \in Checkers, NEW g \in Nat, NEW key \in Keys,
             Pending(t, g, key), t # u \/ g # f
      PROVE  Pending(t, g, key)'
  <2>1. g \notin Elements(Mine(t)')
    BY <1>5, <1>7, ThreadNames DEF Pending
  <2>2. g \in Flows' /\ AtHome(g, key)'
    BY <1>1, <1>7 DEF Pending
  <2> QED BY <2>1, <2>2 DEF Pending, Elements
<1> QED BY <1>1, <1>6, <1>7

(* A step that changes neither the packet in hand nor the snapshots.        *)
LEMMA HandsKept ==
  ASSUME LiveTypes, InHandOnce, UNCHANGED snapshot,
         pc'[Capture] \in {"apply", "close"} =>
           /\ pc[Capture] \in {"apply", "close"} /\ UNCHANGED current
           /\ Pending(Capture, current.flow, current.key)',
         \A t \in Checkers :
           /\ (snapshot[t] = <<>> /\ pc'[t] # "expire")
                \/ pc'[t] = pc[t]
                \/ (snapshot[t] # <<>> /\ pc'[t] \in {"test", "expire"})
           /\ \A i \in DOMAIN snapshot[t] :
                Pending(t, snapshot[t][i].flow, snapshot[t][i].key)'
  PROVE  InHandOnce'
<1>1. pc'[Capture] \in {"apply", "close"} => Pending(Capture, current.flow, current.key)'
  OBVIOUS
<1>2. ASSUME NEW t \in Checkers
      PROVE  /\ pc'[t] \notin {"test", "expire"} => snapshot'[t] = <<>>
             /\ pc'[t] = "expire" => snapshot'[t] # <<>>
             /\ \A i \in DOMAIN snapshot'[t] :
                  Pending(t, snapshot[t][i].flow, snapshot[t][i].key)'
             /\ \A i, j \in DOMAIN snapshot'[t] :
                  snapshot'[t][i].flow = snapshot'[t][j].flow => i = j
  BY DEF InHandOnce
<1> QED BY <1>1, <1>2 DEF InHandOnce

LEMMA HandsType ==
  ASSUME LiveTypes
  PROVE  /\ \A t \in Checkers : snapshot[t] \in Seq(Item)
         /\ \A t \in Checkers : \A i \in DOMAIN snapshot[t] :
              snapshot[t][i].flow \in Nat /\ snapshot[t][i].key \in Keys
         /\ current.flow \in Nat
         /\ pc[Capture] \in {"apply", "close"} => current.key \in Keys
<1>1. \A t \in Checkers : snapshot[t] \in Seq(Item)
  BY ThreadNames DEF LiveTypes
<1>2. \A t \in Checkers : \A i \in DOMAIN snapshot[t] : snapshot[t][i] \in Item
  BY <1>1
<1>3. current.flow \in Nat /\ (pc[Capture] \in {"apply", "close"} => current.key \in Keys)
  BY DEF LiveTypes, Packet
<1> QED BY <1>1, <1>2, <1>3 DEF Item

LEMMA PendingStays ==
  ASSUME LiveTypes, InHandOnce, PendingKept
  PROVE  /\ UNCHANGED snapshot =>
              \A t \in Checkers : \A i \in DOMAIN snapshot[t] :
                Pending(t, snapshot[t][i].flow, snapshot[t][i].key)'
         /\ (pc[Capture] \in {"apply", "close"} /\ UNCHANGED current) =>
              Pending(Capture, current.flow, current.key)'
<1>1. ASSUME UNCHANGED snapshot, NEW t \in Checkers, NEW i \in DOMAIN snapshot[t]
      PROVE  Pending(t, snapshot[t][i].flow, snapshot[t][i].key)'
  <2> DEFINE f == snapshot[t][i].flow
             key == snapshot[t][i].key
  <2>1. f \in Nat /\ key \in Keys /\ Pending(t, f, key)
    BY HandsType DEF InHandOnce
  <2>2. f \in Flows' /\ AtHome(f, key)' /\ f \notin Elements(Mine(t)')
    BY <1>1, <2>1 DEF PendingKept, Pending, AtHome, Elements
  <2> QED BY <1>1, <2>2 DEF Pending, AtHome, Elements
<1>2. ASSUME pc[Capture] \in {"apply", "close"}, UNCHANGED current
      PROVE  Pending(Capture, current.flow, current.key)'
  <2> DEFINE f == current.flow
             key == current.key
  <2>1. f \in Nat /\ key \in Keys /\ Pending(Capture, f, key)
    BY <1>2, HandsType DEF InHandOnce
  <2>2. f \in Flows' /\ AtHome(f, key)' /\ f \notin Elements(Mine(Capture)')
    BY <1>2, <2>1, ThreadNames DEF PendingKept, Pending, AtHome, Elements
  <2> QED BY <1>2, <2>2 DEF Pending, AtHome, Elements
<1> QED BY <1>1, <1>2

(* A timeout check is done with the first of its items.                     *)
LEMMA HandsAdvance ==
  ASSUME LiveTypes, InHandOnce, NEW t \in Checkers, snapshot[t] # <<>>,
         snapshot' = [snapshot EXCEPT ![t] = Tail(@)], UNCHANGED current,
         pc'[t] = "test", \A u \in Checkers \ {t} : pc'[u] = pc[u],
         \A u \in Checkers, f \in Nat, key \in Keys :
           (Pending(u, f, key) /\ (u # t \/ f # Head(snapshot[t]).flow)) => Pending(u, f, key)'
  PROVE  InHandOnce'
<1>1. /\ snapshot'[t] = Tail(snapshot[t])
      /\ \A u \in Checkers \ {t} : snapshot'[u] = snapshot[u]
  BY ThreadNames DEF LiveTypes
<1>2. /\ Head(snapshot[t]) = snapshot[t][1] /\ 1 \in DOMAIN snapshot[t]
      /\ \A i \in DOMAIN snapshot'[t] :
           i + 1 \in DOMAIN snapshot[t] /\ i + 1 # 1 /\ snapshot'[t][i] = snapshot[t][i + 1]
      /\ \A i, j \in DOMAIN snapshot'[t] : i + 1 = j + 1 => i = j
  <2>1. snapshot[t] \in Seq(Item)
    BY HandsType
  <2> DEFINE s == snapshot[t]
  <2>2. /\ Head(s) = s[1] /\ 1 \in DOMAIN s
        /\ \A i \in DOMAIN Tail(s) : i + 1 \in DOMAIN s /\ i + 1 # 1 /\ Tail(s)[i] = s[i + 1]
        /\ \A i, j \in DOMAIN Tail(s) : i + 1 = j + 1 => i = j
    BY <2>1, RestOf
  <2> QED BY <1>1, <2>2
<1>3. ASSUME NEW u \in Checkers, NEW i \in DOMAIN snapshot'[u]
      PROVE  Pending(u, snapshot[u][i].flow, snapshot[u][i].key)'
  <2>1. PICK j \in DOMAIN snapshot[u] :
          /\ snapshot'[u][i] = snapshot[u][j]
          /\ u # t \/ snapshot[u][j].flow # Head(snapshot[t]).flow
    <3>1. CASE u = t
      <4>1. i + 1 \in DOMAIN snapshot[t] /\ i + 1 # 1 /\ snapshot'[t][i] = snapshot[t][i + 1]
        BY <1>2, <1>3, <3>1
      <4>2. snapshot[t][i + 1].flow # snapshot[t][1].flow
        BY <1>2, <4>1 DEF InHandOnce
      <4> QED BY <1>2, <3>1, <4>1, <4>2
    <3>2. CASE u # t
      BY <1>1, <1>3, <3>2
    <3> QED BY <3>1, <3>2
  <2>2. PICK f \in Nat, key \in Keys : f = snapshot[u][j].flow /\ key = snapshot[u][j].key
    BY HandsType
  <2>3. Pending(u, f, key)'
    BY <2>1, <2>2 DEF InHandOnce
  <2>4. f = snapshot'[u][i].flow /\ key = snapshot'[u][i].key
    BY <2>1, <2>2
  <2> QED BY <2>3, <2>4 DEF Pending
<1>4. \A i, j \in DOMAIN snapshot'[t] : snapshot'[t][i].flow = snapshot'[t][j].flow => i = j
  BY <1>2 DEF InHandOnce
<1>5. \A u \in Checkers \ {t} :
        /\ \A i, j \in DOMAIN snapshot'[u] :
              snapshot'[u][i].flow = snapshot'[u][j].flow => i = j
        /\ pc'[u] \notin {"test", "expire"} => snapshot'[u] = <<>>
        /\ pc'[u] = "expire" => snapshot'[u] # <<>>
  BY <1>1 DEF InHandOnce
<1>6. pc'[Capture] \in {"apply", "close"} => Pending(Capture, current.flow, current.key)'
  <2> SUFFICES ASSUME pc'[Capture] \in {"apply", "close"}
               PROVE  Pending(Capture, current.flow, current.key)'
    OBVIOUS
  <2>1. Capture # t /\ Capture \in Checkers /\ pc[Capture] \in {"apply", "close"}
    BY ThreadNames
  <2>2. PICK f \in Nat, key \in Keys : f = current.flow /\ key = current.key
    BY <2>1, HandsType
  <2>3. Pending(Capture, f, key)'
    BY <2>1, <2>2 DEF InHandOnce
  <2> QED BY <2>2, <2>3 DEF Pending
<1> QED BY <1>3, <1>4, <1>5, <1>6 DEF InHandOnce

LEMMA QuietHands ==
  ASSUME LiveTypes, LiveTypes', TableSound, IsFiniteSet(Occupied), MineOnce, InHandOnce,
         QuietStep, PendingKept
  PROVE  InHandOnce'
<1> USE DEF At, Goto
<1>1. /\ \A t \in Checkers : pc[t] \notin {"test", "expire"} => snapshot[t] = <<>>
      /\ \A t \in Checkers : pc[t] = "expire" => snapshot[t] # <<>>
      /\ \A label : \A t \in Threads : [pc EXCEPT ![t] = label][t] = label
      /\ \A label : \A t, u \in Threads : t # u => [pc EXCEPT ![t] = label][u] = pc[u]
  BY DEF InHandOnce, LiveTypes
<1>2. ASSUME NEW t \in Threads, NEW label, Goto(t, label), UNCHANGED snapshot,
             label \notin {"apply", "close"} \/ (t = Capture /\ pc[t] = "apply" /\ UNCHANGED current),
             t # Capture => UNCHANGED current,
             t \in Checkers => snapshot[t] = <<>> /\ label # "expire"
      PROVE  InHandOnce'
  <2>1. /\ \A u \in Threads \ {t} : pc'[u] = pc[u]
        /\ pc'[t] = label
    <3>1. pc' = [pc EXCEPT ![t] = label] /\ DOMAIN pc = Threads
      BY <1>2 DEF LiveTypes
    <3> QED BY <3>1
  <2>2. pc'[Capture] \in {"apply", "close"} =>
          pc[Capture] \in {"apply", "close"} /\ UNCHANGED current
    BY <1>2, <2>1, ThreadNames
  <2>3. \A u \in Checkers : \/ snapshot[u] = <<>> /\ pc'[u] # "expire"
                            \/ pc'[u] = pc[u]
    BY <1>2, <2>1, ThreadNames
  <2> QED BY <1>2, <2>2, <2>3, PendingStays, HandsKept
<1>3. CASE Admit
  BY <1>1, <1>2, <1>3, ThreadNames DEF Admit
<1>4. CASE ScanRaises
  BY <1>1, <1>2, <1>4, ThreadNames DEF ScanRaises
<1>5. CASE Apply
  BY <1>1, <1>2, <1>5, ThreadNames DEF Apply
<1>6. ASSUME NEW t \in Checkers, Checked(t) PROVE InHandOnce'
  BY <1>2, <1>6, ThreadNames DEF Checked
<1>7. ASSUME NEW t \in Threads, ScoreSteps(t) PROVE InHandOnce'
  <2>1. CASE Score(t)
    <3>1. UNCHANGED <<pc, snapshot, current>>
      BY <2>1 DEF Score
    <3> QED BY <3>1, PendingStays, HandsKept
  <2>2. CASE PredictFails(t)
    BY <1>1, <1>2, <2>2, ThreadNames DEF PredictFails, Scoring
  <2>3. CASE Done(t)
    BY <1>1, <1>2, <2>3, ThreadNames DEF Done
  <2> QED BY <1>7, <2>1, <2>2, <2>3 DEF ScoreSteps
<1>8. CASE Clear
  BY <1>1, <1>2, <1>8, ThreadNames DEF Clear
<1>9. CASE Tick \/ UNCHANGED vars
  <2>1. UNCHANGED <<pc, snapshot, current>>
    BY <1>9 DEF Tick, vars
  <2> QED BY <2>1, PendingStays, HandsKept
<1>10. ASSUME NEW t \in Checkers, Test(t) PROVE InHandOnce'
  <2>1. /\ pc[t] = "test" /\ snapshot[t] # <<>> /\ UNCHANGED current
        /\ \/ Goto(t, "expire") /\ UNCHANGED snapshot
           \/ snapshot' = [snapshot EXCEPT ![t] = Tail(@)] /\ UNCHANGED pc
    BY <1>10 DEF Test
  <2>2. CASE Goto(t, "expire") /\ UNCHANGED snapshot
    <3>1. pc'[t] = "expire" /\ \A u \in Threads \ {t} : pc'[u] = pc[u]
      BY <2>2, ThreadNames DEF LiveTypes
    <3>2. pc'[Capture] \in {"apply", "close"} => pc[Capture] \in {"apply", "close"}
      BY <3>1, ThreadNames
    <3>3. \A u \in Checkers : \/ pc'[u] = pc[u]
                              \/ snapshot[u] # <<>> /\ pc'[u] \in {"test", "expire"}
      BY <2>1, <3>1, ThreadNames
    <3> QED BY <2>1, <2>2, <3>2, <3>3, PendingStays, HandsKept
  <2>3. CASE snapshot' = [snapshot EXCEPT ![t] = Tail(@)] /\ UNCHANGED pc
    BY <2>1, <2>3, HandsAdvance DEF PendingKept
  <2> QED BY <2>1, <2>2, <2>3
<1>11. ASSUME NEW key \in Keys, NEW closes \in BOOLEAN, Receive(key, closes) PROVE InHandOnce'
  <2>1. /\ UNCHANGED <<table, last_seen, snapshot, queue, scored>>
        /\ pc[Capture] = "idle"
        /\ pc'[Capture] = IF table[key] = None THEN "admit" ELSE "apply"
        /\ \A u \in Checkers \ {Capture} : pc'[u] = pc[u]
        /\ current'.key = key /\ current'.flow = table[key]
    BY <1>11, ThreadNames DEF Receive, LiveTypes, NoPacket
  <2>2. snapshot[Capture] = <<>>
    BY <1>1, <2>1, ThreadNames
  <2>3. ASSUME pc'[Capture] \in {"apply", "close"}
        PROVE  Pending(Capture, current.flow, current.key)'
    <3>1. key \in Occupied /\ table[key] \in Nat /\ table[key] # None
      BY <2>1, <2>3 DEF Occupied, LiveTypes
    <3>2. table[key] \in Flows
      BY <3>1, CreatedType DEF TableSound, None
    <3>3. AtHome(table[key], key)
      BY <3>1 DEF TableSound, AtHome, Occupied
    <3>4. table[key] \notin Elements(Mine(Capture))
      BY ThreadNames DEF MineOnce
    <3>5. Pending(Capture, table[key], key)
      BY <3>2, <3>3, <3>4 DEF Pending
    <3> QED BY <2>1, <3>5 DEF Pending, AtHome, Flows, created, Elements, Mine
  <2>4. \A u \in Checkers : \A i \in DOMAIN snapshot[u] :
          Pending(u, snapshot[u][i].flow, snapshot[u][i].key)'
    BY <2>1, PendingStays
  <2>5. \A u \in Checkers :
          /\ pc'[u] \notin {"test", "expire"} => snapshot'[u] = <<>>
          /\ pc'[u] = "expire" => snapshot'[u] # <<>>
          /\ \A i, j \in DOMAIN snapshot'[u] :
               snapshot'[u][i].flow = snapshot'[u][j].flow => i = j
    BY <2>1, <2>2, ThreadNames DEF InHandOnce
  <2> QED BY <2>1, <2>3, <2>4, <2>5 DEF InHandOnce
<1>12. ASSUME ThenCheckTimeouts \/ WakeUp PROVE InHandOnce'
  <2>1. PICK t \in Checkers :
          /\ UNCHANGED <<table, last_seen, queue, scored, current>>
          /\ snapshot' = [snapshot EXCEPT ![t] = Items]
          /\ pc' = [pc EXCEPT ![t] = "test"]
    BY <1>12, ThreadNames DEF ThenCheckTimeouts, WakeUp, Snapshot
  <2>2. /\ snapshot'[t] = Items /\ pc'[t] = "test"
        /\ \A u \in Checkers \ {t} : snapshot'[u] = snapshot[u] /\ pc'[u] = pc[u]
    BY <2>1, ThreadNames DEF LiveTypes
  <2>3. ItemsAreTable(Items)
    BY ItemsOfTable DEF LiveTypes
  <2>4. ASSUME NEW i \in DOMAIN snapshot'[t]
        PROVE  Pending(t, snapshot[t][i].flow, snapshot[t][i].key)'
    <3>1. PICK key \in Occupied : key = Items[i].key /\ Items[i].flow = table[key]
      BY <2>2, <2>3 DEF ItemsAreTable
    <3>2. key \in Keys /\ table[key] \in Nat /\ table[key] # None
      BY DEF Occupied, LiveTypes
    <3>3. table[key] \in Flows
      BY <3>2, CreatedType DEF TableSound, None
    <3>4. AtHome(table[key], key)
      BY <3>2 DEF TableSound, AtHome, Occupied
    <3>5. table[key] \notin Elements(Mine(t))
      BY <3>2 DEF MineOnce
    <3>6. Pending(t, table[key], key)
      BY <3>3, <3>4, <3>5 DEF Pending
    <3>7. snapshot'[t][i].flow = table[key] /\ snapshot'[t][i].key = key
      BY <2>2, <3>1
    <3> QED BY <2>1, <3>6, <3>7 DEF Pending, AtHome, Flows, created, Elements, Mine
  <2>5. ASSUME NEW u \in Checkers \ {t}, NEW i \in DOMAIN snapshot'[u]
        PROVE  Pending(u, snapshot[u][i].flow, snapshot[u][i].key)'
    <3>1. snapshot'[u] = snapshot[u] /\ Pending(u, snapshot[u][i].flow, snapshot[u][i].key)
      BY <2>2 DEF InHandOnce
    <3> QED BY <2>1, <3>1 DEF Pending, AtHome, Flows, created, Elements, Mine
  <2>6. \A i, j \in DOMAIN snapshot'[t] : snapshot'[t][i].flow = snapshot'[t][j].flow => i = j
    BY <2>2, <2>3 DEF ItemsAreTable
  <2>7. \A u \in Checkers \ {t} :
          /\ pc'[u] \notin {"test", "expire"} => snapshot'[u] = <<>>
          /\ pc'[u] = "expire" => snapshot'[u] # <<>>
          /\ \A i, j \in DOMAIN snapshot'[u] :
               snapshot'[u][i].flow = snapshot'[u][j].flow => i = j
    BY <2>2 DEF InHandOnce
  <2>8. pc'[Capture] \in {"apply", "close"} => Pending(Capture, current.flow, current.key)'
    <3>1. pc'[Capture] \in {"apply", "close"} => pc[Capture] \in {"apply", "close"}
      BY <2>2, ThreadNames
    <3> QED BY <2>1, <3>1, PendingStays
  <2> QED BY <2>2, <2>4, <2>5, <2>6, <2>7, <2>8 DEF InHandOnce
<1> QED BY <1>3, <1>4, <1>5, <1>6, <1>7, <1>8, <1>9, <1>10, <1>11, <1>12 DEF QuietStep

LEMMA TakingKeeps ==
  ASSUME LiveTypes, TableSound, MineOnce, InHandOnce,
         Evict \/ Close \/ \E t \in Checkers : Expire(t)
  PROVE  TableSound' /\ MineOnce' /\ InHandOnce'
<1> USE DEF At, Goto
<1>1. CASE Evict \/ Close
  <2>1. PICK f \in Nat : Gets(Capture, f)
    BY <1>1, TakingSteps, HandsType
  <2>2. TableSound' /\ MineOnce'
    BY <2>1, GetsKeeps, ThreadNames
  <2>3. \A g \in Nat, key \in Keys : Pending(Sweeper, g, key) => Pending(Sweeper, g, key)'
    BY <2>1, GetsKeeps, ThreadNames
  <2>4. /\ pc[Capture] \in {"scan", "close"} /\ pc'[Capture] \in {"insert", "score"}
        /\ pc'[Sweeper] = pc[Sweeper] /\ UNCHANGED snapshot
    BY <1>1, ThreadNames DEF Evict, Close, LiveTypes
  <2>5. snapshot[Capture] = <<>>
    BY <2>4, ThreadNames DEF InHandOnce
  <2>6. ASSUME NEW i \in DOMAIN snapshot[Sweeper]
        PROVE  Pending(Sweeper, snapshot[Sweeper][i].flow, snapshot[Sweeper][i].key)'
    <3>1. PICK f1 \in Nat, key \in Keys :
            f1 = snapshot[Sweeper][i].flow /\ key = snapshot[Sweeper][i].key
      BY HandsType, ThreadNames
    <3>2. Pending(Sweeper, f1, key)'
      BY <2>3, <3>1, ThreadNames DEF InHandOnce
    <3> QED BY <2>4, <3>1, <3>2 DEF Pending
  <2>7. InHandOnce'
    BY <2>4, <2>5, <2>6, HandsKept, ThreadNames
  <2> QED BY <2>2, <2>7
<1>2. ASSUME NEW t \in Checkers, Expire(t) PROVE TableSound' /\ MineOnce' /\ InHandOnce'
  <2>1. /\ snapshot' = [snapshot EXCEPT ![t] = Tail(@)] /\ UNCHANGED current
        /\ pc' = [pc EXCEPT ![t] = "test"] /\ pc[t] = "expire"
    BY <1>2 DEF Expire
  <2>2. pc'[t] = "test" /\ \A u \in Checkers \ {t} : pc'[u] = pc[u]
    BY <2>1, ThreadNames DEF LiveTypes
  <2>3. snapshot[t] # <<>>
    BY <2>1 DEF InHandOnce
  <2>4. PICK f \in Nat : f = Head(snapshot[t]).flow
    <3>1. snapshot[t] \in Seq(Item)
      BY HandsType
    <3>2. Head(snapshot[t]) \in Item
      BY <2>3, <3>1, HeadTailProperties
    <3> QED BY <3>2 DEF Item
  <2>5. Gets(t, f)
    BY <1>2, <2>4, TakingSteps
  <2>6. TableSound' /\ MineOnce'
    BY <2>5, GetsKeeps
  <2>7. \A u \in Checkers, g \in Nat, key \in Keys :
          (Pending(u, g, key) /\ (u # t \/ g # f)) => Pending(u, g, key)'
    BY <2>5, GetsKeeps
  <2>8. InHandOnce'
    BY <2>1, <2>2, <2>3, <2>4, <2>7, HandsAdvance
  <2> QED BY <2>6, <2>8
<1> QED BY <1>1, <1>2

LEMMA InsertKeeps ==
  ASSUME LiveTypes, TableSound, MineOnce, InHandOnce, Insert
  PROVE  TableSound' /\ MineOnce' /\ InHandOnce'
<1> DEFINE new == created + 1
<1>1. created \in Nat /\ Flows = 1 .. created
  BY CreatedType
<1>2. /\ pc[Capture] = "insert" /\ pc' = [pc EXCEPT ![Capture] = "apply"]
      /\ last_seen' = Append(last_seen, now[Capture])
      /\ table' = [table EXCEPT ![current.key] = new]
      /\ current' = [current EXCEPT !.flow = new]
      /\ UNCHANGED <<snapshot, queue, scored>>
  BY DEF Insert, At, Goto
<1>3. /\ pc'[Capture] = "apply" /\ \A u \in Threads \ {Capture} : pc'[u] = pc[u]
      /\ current.key \in Keys
  BY <1>2, ThreadNames DEF LiveTypes
<1>4. current'.key = current.key /\ current'.flow = new
  BY <1>2 DEF LiveTypes, Packet
<1>5. created' = new
  <2>1. last_seen \in Seq(Nat) /\ now[Capture] \in Nat
    BY ThreadNames DEF LiveTypes
  <2>2. Len(Append(last_seen, now[Capture])) = Len(last_seen) + 1
    BY <2>1, AppendProperties
  <2> QED BY <1>2, <2>2 DEF created
<1>6. PICK n \in Nat : n = created + 1
  BY <1>1
<1> HIDE DEF new
<1>7. /\ Flows' = 1 .. n /\ Flows \subseteq Flows' /\ n \in Flows' /\ n \notin Flows /\ n # None
      /\ created' = n /\ new = n
  <2>1. created' = n /\ new = n
    BY <1>5, <1>6 DEF new
  <2>2. Flows' = 1 .. n
    BY <2>1 DEF Flows
  <2>3. 1 .. created \subseteq 1 .. n /\ n \in 1 .. n /\ n \notin 1 .. created /\ n # 0
    BY <1>1, <1>6
  <2> QED BY <1>1, <2>1, <2>2, <2>3 DEF None
<1>8. \A k \in Keys : table'[k] = IF k = current.key THEN n ELSE table[k]
  BY <1>2, <1>7 DEF LiveTypes
<1>9. \A k \in Keys : table[k] # n
  <2>1. \A k \in Keys : table[k] \in Nat /\ table[k] <= created
    BY DEF LiveTypes, TableSound
  <2> QED BY <1>1, <1>6, <2>1
<1>10. TableSound'
  <2>1. \A k \in Keys : table[k] \in Nat /\ table[k] <= created
    BY DEF LiveTypes, TableSound
  <2>2. \A k \in Keys : table'[k] <= created'
    BY <1>1, <1>6, <1>7, <1>8, <2>1
  <2>3. Occupied' = Occupied \cup {current.key}
    BY <1>3, <1>7, <1>8 DEF Occupied
  <2>4. \A k, j \in Occupied' : table'[k] = table'[j] => k = j
    <3>1. \A k \in Occupied' : k \in Keys /\ (k = current.key \/ k \in Occupied)
      BY <1>3, <2>3 DEF Occupied
    <3> QED BY <1>8, <1>9, <3>1 DEF TableSound
  <2> QED BY <2>2, <2>4 DEF TableSound
<1>11. \A t \in Threads : Mine(t)' = Mine(t)
  BY <1>2 DEF Mine
<1>12. MineOnce'
  <2>1. \A t \in Threads : NoRepeat(Mine(t)') /\ Elements(Mine(t)') \subseteq Flows'
    BY <1>7, <1>11 DEF MineOnce
  <2>2. \A t \in Checkers : n \notin Elements(Mine(t))
    BY <1>7, ThreadNames DEF MineOnce
  <2>3. \A t \in Checkers, k \in Keys : table'[k] \notin Elements(Mine(t)')
    BY <1>8, <1>11, <2>2, ThreadNames DEF MineOnce
  <2>4. pc'[Handler] = "idle" => Mine(Handler)' = <<>>
    BY <1>3, <1>11, ThreadNames DEF MineOnce
  <2> QED BY <2>1, <2>3, <2>4 DEF MineOnce, NoRepeat, Elements
<1>13. Pending(Capture, current.flow, current.key)'
  <2>1. n \notin Elements(Mine(Capture)')
    BY <1>7, <1>11, ThreadNames DEF MineOnce
  <2>2. \A k \in Keys : table'[k] = n => k = current'.key
    BY <1>4, <1>8, <1>9
  <2>3. current'.flow = n
    BY <1>4, <1>7
  <2> QED BY <1>7, <2>1, <2>2, <2>3 DEF Pending, AtHome, Elements, Mine
<1>14. ASSUME NEW t \in Checkers, NEW i \in DOMAIN snapshot'[t]
       PROVE  Pending(t, snapshot[t][i].flow, snapshot[t][i].key)'
  <2>1. PICK f \in Nat, key \in Keys :
          f = snapshot[t][i].flow /\ key = snapshot[t][i].key /\ i \in DOMAIN snapshot[t]
    BY <1>2, <1>14, HandsType
  <2>2. Pending(t, f, key)
    BY <2>1 DEF InHandOnce
  <2>3. f \in Flows' /\ f # n
    BY <1>7, <2>2 DEF Pending
  <2>4. \A k \in Keys : table'[k] = f => k = key
    BY <1>8, <2>2, <2>3 DEF Pending, AtHome
  <2>5. f \notin Elements(Mine(t)')
    BY <1>11, <2>2, ThreadNames DEF Pending
  <2>6. f = snapshot'[t][i].flow /\ key = snapshot'[t][i].key
    BY <1>2, <2>1
  <2> QED BY <2>3, <2>4, <2>5, <2>6 DEF Pending, AtHome, Elements, Mine
<1>15. \A t \in Checkers :
         /\ pc'[t] \notin {"test", "expire"} => snapshot'[t] = <<>>
         /\ pc'[t] = "expire" => snapshot'[t] # <<>>
         /\ \A i, j \in DOMAIN snapshot'[t] :
              snapshot'[t][i].flow = snapshot'[t][j].flow => i = j
  BY <1>2, <1>3, ThreadNames DEF InHandOnce
<1>16. InHandOnce'
  BY <1>13, <1>14, <1>15 DEF InHandOnce
<1> QED BY <1>10, <1>12, <1>16

LEMMA InterruptKeeps ==
  ASSUME LiveTypes, TableSound, IsFiniteSet(Occupied), MineOnce, InHandOnce, Interrupt
  PROVE  TableSound' /\ MineOnce' /\ InHandOnce' /\ Elements(Mine(Handler)') = { table[k] : k \in Occupied }
<1> DEFINE flows == [i \in DOMAIN Items |-> Items[i].flow]
<1>1. TakesFlows(flows)
  BY FlushTakesTable
<1>2. /\ queue' = [queue EXCEPT ![Handler] = flows]
      /\ pc' = [pc EXCEPT ![Handler] = "clear"] /\ pc[Handler] = "idle"
      /\ UNCHANGED <<table, last_seen, snapshot, current, scored>>
  BY DEF Interrupt, Goto, Capturing
<1> HIDE DEF flows
<1>3. /\ queue'[Handler] = flows /\ pc'[Handler] = "clear"
      /\ \A t \in Checkers : queue'[t] = queue[t] /\ pc'[t] = pc[t]
  BY <1>2, ThreadNames DEF LiveTypes
<1>4. Mine(Handler)' = flows
  <2>1. scored[Handler] \in Seq(Nat) /\ queue[Handler] \in Seq(Nat) /\ flows \in Seq(Nat)
    BY <1>1, MineType, ThreadNames DEF TakesFlows
  <2>2. scored[Handler] = <<>>
    <3>1. scored[Handler] \o queue[Handler] = <<>>
      BY <1>2 DEF MineOnce, Mine
    <3> QED BY <2>1, <3>1, ConcatEqualIffEmpty
  <2>3. <<>> \o flows = flows
    BY <2>1, ConcatEmptySeq
  <2> QED BY <1>2, <1>3, <2>2, <2>3, Zenon DEF Mine
<1>5. \A t \in Checkers : Mine(t)' = Mine(t)
  BY <1>2, <1>3 DEF Mine
<1>6. created' = created /\ Flows' = Flows /\ Flows = 1 .. created
  BY <1>2, CreatedType DEF created, Flows
<1>7. TableSound'
  BY <1>2, <1>6 DEF TableSound, Occupied
<1>8. Elements(flows) \subseteq Flows /\ NoRepeat(flows)
  <2>1. \A k \in Occupied : table[k] \in Flows
    <3>1. \A k \in Occupied : table[k] \in Nat /\ table[k] # 0 /\ table[k] <= created
      BY DEF Occupied, LiveTypes, TableSound, None
    <3> QED BY <1>6, <3>1, CreatedType
  <2> QED BY <1>1, <2>1 DEF TakesFlows
<1>9. MineOnce'
  <2>1. \A t \in Threads : NoRepeat(Mine(t)') /\ Elements(Mine(t)') \subseteq Flows'
    BY <1>4, <1>5, <1>6, <1>8, ThreadNames DEF MineOnce
  <2>2. \A t \in Checkers, k \in Keys : table'[k] \notin Elements(Mine(t)')
    BY <1>2, <1>5 DEF MineOnce
  <2>3. pc'[Handler] # "idle"
    BY <1>3
  <2> QED BY <2>1, <2>2, <2>3 DEF MineOnce, NoRepeat, Elements
<1>10. PendingKept
  <2> SUFFICES ASSUME NEW t \in Checkers, NEW f \in Nat, NEW key \in Keys, Pending(t, f, key)
               PROVE  Pending(t, f, key)'
    BY DEF PendingKept
  <2>1. f \in Flows' /\ (\A k \in Keys : table'[k] = f => k = key) /\ f \notin Elements(Mine(t)')
    BY <1>2, <1>5, <1>6 DEF Pending, AtHome
  <2> QED BY <2>1 DEF Pending, AtHome, Elements
<1>11. InHandOnce'
  BY <1>2, <1>3, <1>10, PendingStays, HandsKept, ThreadNames
<1>12. Elements(Mine(Handler)') = { table[k] : k \in Occupied }
  BY <1>1, <1>4 DEF TakesFlows
<1> QED BY <1>7, <1>9, <1>11, <1>12

------------------------------------------------------------------------------
(* The invariant holds, and with it the bound and the threads' own order.   *)

TakingStep == Evict \/ Close \/ \E t \in Checkers : Expire(t)

LEMMA StepKinds ==
  [Next]_vars => QuietStep \/ TakingStep \/ Insert \/ Interrupt
BY ThreadNames
   DEF Next, CaptureSteps, SweeperSteps, HandlerSteps, AddSteps, CheckSteps, QuietStep, TakingStep

LEMMA TypesPreserved ==
  ASSUME LiveTypes, TableSound, IsFiniteSet(Occupied), InHandOnce, [Next]_vars
  PROVE  LiveTypes'
<1>1. ASSUME NEW key \in Keys, NEW closes \in BOOLEAN, Receive(key, closes) PROVE LiveTypes'
  BY <1>1, AddStepsType
<1>2. CASE AddSteps
  <2>1. \E key \in Keys : TRUE
    BY <1>2 DEF AddSteps, Admit, ScanRaises, Evict, Insert, Apply, Close, At, LiveTypes
  <2> QED BY <1>2, <2>1, AddStepsType
<1>3. CASE ThenCheckTimeouts \/ CheckSteps(Capture) \/ WakeUp \/ CheckSteps(Sweeper)
  BY <1>3, CheckStepsType, ThreadNames
<1>4. CASE \E t \in Threads : ScoreSteps(t)
  BY <1>4, ScoreStepsType
<1>5. CASE Clear \/ Interrupt \/ Tick
  BY <1>5, OtherStepsType
<1>6. CASE UNCHANGED vars
  BY <1>6 DEF vars, LiveTypes
<1> QED BY <1>1, <1>2, <1>3, <1>4, <1>5, <1>6, ThreadNames
        DEF Next, CaptureSteps, SweeperSteps, HandlerSteps

(* Only Insert puts a flow in, and the two steps that lead to it have seen  *)
(* or made room.                                                            *)
LEMMA RoomKept ==
  ASSUME LiveTypes, TableSound, RoomMade, MineOnce, InHandOnce, [Next]_vars
  PROVE  RoomMade'
<1> USE DEF At, Goto
<1>0. Cardinality(Occupied) \in Nat /\ max_active_flows \in Nat
  BY FS_CardinalityType, LiveCaptureAssumption DEF RoomMade
<1>1. ASSUME Occupied' \subseteq Occupied,
             pc'[Capture] = "insert" => pc[Capture] = "insert"
                                        \/ Cardinality(Occupied') < max_active_flows
      PROVE  RoomMade'
  <2> DEFINE before == Occupied
             after  == Occupied'
  <2>1. after \in SUBSET before /\ IsFiniteSet(before)
    BY <1>1 DEF RoomMade
  <2> HIDE DEF before, after
  <2>2. IsFiniteSet(after) /\ Cardinality(after) <= Cardinality(before)
        /\ Cardinality(after) \in Nat
    BY <2>1, FS_Subset, FS_CardinalityType
  <2> QED BY <1>0, <1>1, <2>2 DEF RoomMade, before, after
<1>2. CASE QuietStep
  <2>1. Occupied' \subseteq Occupied
    BY <1>2, QuietSteps, ShrinkingKeeps DEF Quiet
  <2>2. CASE Admit
    <3>1. UNCHANGED table /\ (pc'[Capture] = "insert" => Cardinality(Occupied) < max_active_flows)
      BY <2>2, ThreadNames DEF Admit, LiveTypes
    <3>2. Occupied' = Occupied
      BY <3>1 DEF Occupied
    <3> QED BY <1>1, <3>1, <3>2
  <2>3. CASE ~Admit
    <3>1. pc'[Capture] = "insert" => pc[Capture] = "insert"
      <4>1. CASE Clear \/ WakeUp \/ Tick \/ UNCHANGED vars
        BY <4>1, ThreadNames DEF Clear, WakeUp, Snapshot, Tick, vars, LiveTypes
      <4>2. CASE \E key \in Keys, closes \in BOOLEAN : Receive(key, closes)
        BY <4>2, ThreadNames DEF Receive, LiveTypes
      <4>3. CASE ScanRaises \/ Apply \/ ThenCheckTimeouts
        BY <4>3, ThreadNames DEF ScanRaises, Apply, ThenCheckTimeouts, Snapshot, LiveTypes
      <4>4. CASE \E t \in Checkers : Test(t) \/ Checked(t)
        BY <4>4, ThreadNames DEF Test, Checked, LiveTypes
      <4>5. CASE \E t \in Threads : ScoreSteps(t)
        BY <4>5, ThreadNames DEF ScoreSteps, Score, PredictFails, Done, LiveTypes
      <4> QED BY <1>2, <2>3, <4>1, <4>2, <4>3, <4>4, <4>5 DEF QuietStep
    <3> QED BY <1>1, <2>1, <3>1
  <2> QED BY <2>2, <2>3
<1>3. CASE Evict
  <2>1. PICK k \in Occupied : table' = [table EXCEPT ![k] = None]
    BY <1>3 DEF Evict
  <2>2. k \in Keys /\ \A j \in Keys : table'[j] = IF j = k THEN None ELSE table[j]
    BY <2>1 DEF Occupied, LiveTypes
  <2>3. Occupied' = Occupied \ {k}
    BY <2>2 DEF Occupied
  <2>4. Cardinality(Occupied \ {k}) = Cardinality(Occupied) - 1
    BY FS_RemoveElement DEF RoomMade
  <2>5. Cardinality(Occupied') < max_active_flows
    BY <1>0, <2>3, <2>4 DEF RoomMade
  <2> QED BY <1>1, <2>3, <2>5
<1>4. CASE Close \/ \E t \in Checkers : Expire(t)
  <2>1. Occupied' \subseteq Occupied
    BY <1>4, TakingSteps, ShrinkingKeeps DEF Gets
  <2>2. pc'[Capture] = "insert" => pc[Capture] = "insert"
    BY <1>4, ThreadNames DEF Close, Expire, LiveTypes
  <2> QED BY <1>1, <2>1, <2>2
<1>5. CASE Insert
  <2>1. /\ Cardinality(Occupied) < max_active_flows /\ pc'[Capture] = "apply"
        /\ current.key \in Keys /\ table' = [table EXCEPT ![current.key] = created + 1]
    BY <1>5, ThreadNames DEF Insert, RoomMade, LiveTypes
  <2>2. created + 1 # None
    BY CreatedType DEF None
  <2>3. Occupied' = Occupied \cup {current.key}
    BY <2>1, <2>2 DEF Occupied, LiveTypes
  <2>4. /\ IsFiniteSet(Occupied \cup {current.key})
        /\ Cardinality(Occupied \cup {current.key}) <= Cardinality(Occupied) + 1
    BY <1>0, FS_AddElement DEF RoomMade
  <2>5. Cardinality(Occupied \cup {current.key}) \in Nat
    BY <2>4, FS_CardinalityType
  <2> QED BY <1>0, <2>1, <2>3, <2>4, <2>5 DEF RoomMade
<1>6. CASE Interrupt
  <2>1. Occupied' = Occupied /\ pc'[Capture] = pc[Capture]
    BY <1>6, ThreadNames DEF Interrupt, Occupied, LiveTypes
  <2> QED BY <1>1, <2>1
<1> QED BY <1>2, <1>3, <1>4, <1>5, <1>6, StepKinds DEF TakingStep

LEMMA InitLive == Init => LiveInv
<1> SUFFICES ASSUME Init PROVE LiveInv
  OBVIOUS
<1>1. LiveTypes
  <2>1. PICK program \in Programs :
          pc = [t \in Threads |-> IF t = Sweeper THEN SweeperAtStart(program) ELSE "idle"]
    BY DEF Init
  <2>2. SweeperAtStart(program) \in {"idle", "absent"}
    BY DEF SweeperAtStart
  <2>3. /\ pc \in [Threads -> CaptureLabels \cup SweeperLabels \cup HandlerLabels]
        /\ pc[Capture] = "idle" /\ pc[Handler] = "idle" /\ pc[Sweeper] \in SweeperLabels
    BY <2>1, <2>2, ThreadNames DEF CaptureLabels, SweeperLabels, HandlerLabels
  <2>4. current \in Packet
    BY DEF Init, NoPacket, Packet, None
  <2>5. <<>> \in Seq(Nat) /\ <<>> \in Seq(Item) /\ 0 \in Nat
    OBVIOUS
  <2>6. /\ table \in [Keys -> Nat] /\ last_seen \in Seq(Nat) /\ clock \in Nat
        /\ now \in [Threads -> Nat] /\ snapshot \in [Threads -> Seq(Item)]
        /\ queue \in [Threads -> Seq(Nat)] /\ scored \in [Threads -> Seq(Nat)]
    BY <2>5 DEF Init, None
  <2>7. pc[Capture] \in CaptureLabels /\ pc[Handler] \in HandlerLabels
        /\ pc[Capture] \notin {"admit", "scan", "insert", "apply", "close"}
    BY <2>3 DEF CaptureLabels, HandlerLabels
  <2> QED BY <2>3, <2>4, <2>6, <2>7 DEF LiveTypes
<1>2. created = 0 /\ Flows = {} /\ Occupied = {}
  BY DEF Init, created, Flows, Occupied
<1>3. TableSound
  BY <1>2 DEF TableSound, Init, None
<1>4. RoomMade
  BY <1>2, FS_EmptySet, LiveCaptureAssumption, <1>1, ThreadNames
     DEF RoomMade, Init
<1>5. \A t \in Threads : Mine(t) = <<>>
  <2>1. \A t \in Threads : Mine(t) = <<>> \o <<>>
    BY DEF Init, Mine
  <2>2. <<>> \o <<>> = <<>>
    OBVIOUS
  <2> QED BY <2>1, <2>2
<1>6. MineOnce
  <2>1. DOMAIN <<>> = {}
    OBVIOUS
  <2>2. Elements(<<>>) = {} /\ NoRepeat(<<>>)
    BY <2>1 DEF Elements, NoRepeat
  <2> QED BY <1>5, <2>2, ThreadNames DEF MineOnce
<1>7. InHandOnce
  <2>1. \A t \in Checkers : snapshot[t] = <<>> /\ pc[t] \in {"idle", "absent"}
    BY ThreadNames DEF Init, SweeperAtStart
  <2> QED BY <2>1, ThreadNames DEF InHandOnce
<1> QED BY <1>1, <1>3, <1>4, <1>6, <1>7 DEF LiveInv

LEMMA LiveInvPreserved == LiveInv /\ [Next]_vars => LiveInv'
<1> SUFFICES ASSUME LiveInv, [Next]_vars PROVE LiveInv'
  OBVIOUS
<1>1. /\ LiveTypes /\ TableSound /\ RoomMade /\ MineOnce /\ InHandOnce
      /\ IsFiniteSet(Occupied)
  BY DEF LiveInv, RoomMade
<1>2. LiveTypes'
  BY <1>1, TypesPreserved
<1>3. RoomMade'
  BY <1>1, RoomKept
<1>4. TableSound' /\ MineOnce' /\ InHandOnce'
  <2>1. CASE QuietStep
    BY <1>1, <1>2, <2>1, QuietSteps, QuietKeeps, QuietHands
  <2>2. CASE TakingStep
    BY <1>1, <2>2, TakingKeeps DEF TakingStep
  <2>3. CASE Insert
    BY <1>1, <2>3, InsertKeeps
  <2>4. CASE Interrupt
    BY <1>1, <2>4, InterruptKeeps
  <2> QED BY <2>1, <2>2, <2>3, <2>4, StepKinds
<1> QED BY <1>2, <1>3, <1>4 DEF LiveInv

(* Every state of the capture, whatever is scheduled when, satisfies the    *)
(* invariant: the types, flows under one key each, room before an insertion *)
(* and no flow twice in the hands of a thread (capture_live.py:38-75).      *)
THEOREM LiveInvariant == Spec => []LiveInv
<1>1. Init => LiveInv
  BY InitLive
<1>2. LiveInv /\ [Next]_vars => LiveInv'
  BY LiveInvPreserved
<1> QED BY <1>1, <1>2, PTL DEF Spec

(* The table never holds more than max_active_flows, with the sweeper and   *)
(* the handler at work between the check and the insertion                  *)
(* (flow_builder.py:24-28, 209-219).                                        *)
THEOREM TableBounded == Spec => []CapacityBound
<1>1. LiveInv => CapacityBound
  BY DEF LiveInv, RoomMade, CapacityBound
<1> QED BY <1>1, LiveInvariant, PTL

(* No thread takes a flow twice, and no flow is under two keys.             *)
THEOREM ThreadsTakeFlowsOnce == Spec => []OncePerThread
<1>1. LiveInv => OncePerThread
  BY DEF LiveInv, MineOnce, TableSound, OncePerThread, NoRepeat, Mine
<1> QED BY <1>1, LiveInvariant, PTL

------------------------------------------------------------------------------
(* Without the sweeper                                                      *)

MainStep == CaptureSteps \/ \E key \in Keys, closes \in BOOLEAN : Receive(key, closes)

LEMMA MainReadsTrue ==
  ASSUME LiveTypes, TableSound, IsFiniteSet(Occupied), InHandOnce,
         pc[Handler] = "idle", InStep, MainStep
  PROVE  InStep' /\ (pc'[Capture] = "dead" => queue'[Capture] # <<>>)
<1>1. /\ \A label : pc' = [pc EXCEPT ![Capture] = label] => pc'[Capture] = label
      /\ \A f : \A key \in Keys :
           table' = [table EXCEPT ![key] = f] =>
             \A k \in Keys : table'[k] = IF k = key THEN f ELSE table[k]
      /\ \A items :
           snapshot' = [snapshot EXCEPT ![Capture] = items] => snapshot'[Capture] = items
  BY ThreadNames DEF LiveTypes
<1>2. /\ pc[Capture] \notin {"test", "expire"} => snapshot[Capture] = <<>>
      /\ pc[Capture] = "expire" => snapshot[Capture] # <<>>
  BY ThreadNames DEF InHandOnce
<1>3. DOMAIN <<>> = {}
  OBVIOUS
<1>4. snapshot[Capture] \in Seq(Item)
  BY HandsType, ThreadNames
<1> USE DEF At, Goto
<1>5. ASSUME NEW key \in Keys, NEW closes \in BOOLEAN, Receive(key, closes)
      PROVE  InStep' /\ pc'[Capture] # "dead"
  <2>1. /\ UNCHANGED <<table, snapshot>> /\ pc[Capture] = "idle"
        /\ pc'[Capture] = IF table[key] = None THEN "admit" ELSE "apply"
        /\ current'.key = key /\ current'.flow = table[key]
    BY <1>1, <1>5 DEF Receive, NoPacket
  <2> QED BY <1>2, <1>3, <2>1 DEF InStep
<1>6. CASE Admit
  <2>1. /\ UNCHANGED <<table, snapshot>> /\ pc[Capture] = "admit"
        /\ pc'[Capture] \in {"insert", "scan"}
        /\ current'.key = current.key /\ current'.scan = Occupied
    BY <1>1, <1>6 DEF Admit, LiveTypes, Packet
  <2>2. Occupied' = Occupied
    BY <2>1 DEF Occupied
  <2> QED BY <1>2, <1>3, <2>1, <2>2 DEF InStep
<1>7. CASE ScanRaises
  BY <1>7 DEF ScanRaises, InStep
<1>8. CASE Evict
  <2>1. PICK key \in Keys : table' = [table EXCEPT ![key] = None]
    BY <1>8 DEF Evict, Occupied
  <2>2. /\ UNCHANGED <<snapshot, current>> /\ pc[Capture] = "scan" /\ pc'[Capture] = "insert"
        /\ current.key \in Keys
    BY <1>1, <1>8 DEF Evict, LiveTypes
  <2> QED BY <1>1, <1>2, <1>3, <2>1, <2>2 DEF InStep
<1>9. CASE Insert
  <2>1. /\ UNCHANGED snapshot /\ pc[Capture] = "insert" /\ pc'[Capture] = "apply"
        /\ table' = [table EXCEPT ![current.key] = created + 1]
        /\ current'.key = current.key /\ current'.flow = created + 1
        /\ current.key \in Keys
    BY <1>1, <1>9 DEF Insert, LiveTypes, Packet
  <2>2. table'[current'.key] = created + 1
    <3>1. table \in [Keys -> Nat]
      BY DEF LiveTypes
    <3> QED BY <2>1, <3>1
  <2> QED BY <1>2, <1>3, <2>1, <2>2 DEF InStep
<1>10. CASE Apply
  <2>1. /\ UNCHANGED <<table, snapshot, current>> /\ pc[Capture] = "apply"
        /\ pc'[Capture] \in {"close", "score"}
    BY <1>1, <1>10 DEF Apply
  <2> QED BY <1>2, <1>3, <2>1 DEF InStep
<1>11. CASE Close
  <2>1. UNCHANGED snapshot /\ pc[Capture] = "close" /\ pc'[Capture] = "score"
    BY <1>1, <1>11 DEF Close
  <2> QED BY <1>2, <1>3, <2>1 DEF InStep
<1>12. CASE ThenCheckTimeouts
  <2>1. UNCHANGED table /\ pc'[Capture] = "test" /\ snapshot'[Capture] = Items
    BY <1>1, <1>12 DEF ThenCheckTimeouts, Snapshot
  <2>2. \A i \in DOMAIN Items : table[Items[i].key] = Items[i].flow
    BY ItemsOfTable DEF ItemsAreTable, LiveTypes
  <2> QED BY <2>1, <2>2 DEF InStep
<1>13. CASE Test(Capture)
  <2>1. /\ UNCHANGED table /\ pc[Capture] = "test" /\ pc'[Capture] \in {"test", "expire"}
        /\ snapshot[Capture] # <<>>
        /\ snapshot'[Capture] = snapshot[Capture] \/ snapshot'[Capture] = Tail(snapshot[Capture])
    BY <1>1, <1>13 DEF Test
  <2>2. \A i \in DOMAIN Tail(snapshot[Capture]) :
          i + 1 \in DOMAIN snapshot[Capture] /\ Tail(snapshot[Capture])[i] = snapshot[Capture][i + 1]
    BY <1>4, <2>1, RestOf
  <2>3. \A i \in DOMAIN snapshot'[Capture] :
          \E j \in DOMAIN snapshot[Capture] : snapshot'[Capture][i] = snapshot[Capture][j]
    BY <2>1, <2>2
  <2>4. \A i \in DOMAIN snapshot'[Capture] :
          table'[snapshot'[Capture][i].key] = snapshot'[Capture][i].flow
    BY <2>1, <2>3 DEF InStep
  <2>5. pc'[Capture] \notin {"apply", "close", "admit", "scan", "insert", "dead"}
    BY <2>1
  <2> QED BY <2>4, <2>5 DEF InStep
<1>14. CASE Expire(Capture)
  <2> DEFINE items == snapshot[Capture]
  <2>1. /\ pc[Capture] = "expire" /\ pc'[Capture] = "test"
        /\ table' = [table EXCEPT ![Head(items).key] = None]
        /\ snapshot'[Capture] = Tail(items)
    BY <1>1, <1>14 DEF Expire
  <2>2. /\ Head(items) = items[1] /\ 1 \in DOMAIN items
        /\ \A i \in DOMAIN Tail(items) : /\ i + 1 \in DOMAIN items /\ i + 1 # 1
                                         /\ Tail(items)[i] = items[i + 1]
    BY <1>2, <1>4, <2>1, RestOf
  <2>3. \A i \in DOMAIN items : items[i].key \in Keys /\ table[items[i].key] = items[i].flow
    BY HandsType, ThreadNames DEF InStep
  <2>4. \A i, j \in DOMAIN items : items[i].flow = items[j].flow => i = j
    BY ThreadNames DEF InHandOnce
  <2> HIDE DEF items
  <2>5. \A i \in DOMAIN Tail(items) :
          table'[Tail(items)[i].key] = Tail(items)[i].flow
    <3> TAKE i \in DOMAIN Tail(items)
    <3>1. items[i + 1].flow # items[1].flow
      BY <2>2, <2>4
    <3>2. items[i + 1].key # items[1].key
      BY <2>2, <2>3, <3>1
    <3>3. table'[items[i + 1].key] = table[items[i + 1].key]
      BY <1>1, <2>1, <2>2, <2>3, <3>2
    <3> QED BY <2>2, <2>3, <3>3
  <2> QED BY <2>1, <2>5 DEF InStep
<1>15. CASE Checked(Capture)
  <2>1. UNCHANGED snapshot /\ snapshot[Capture] = <<>> /\ pc'[Capture] = "score last"
    BY <1>1, <1>15 DEF Checked
  <2> QED BY <1>3, <2>1 DEF InStep
<1>16. CASE Score(Capture)
  <2>1. UNCHANGED <<table, pc, snapshot, current>> /\ pc[Capture] \in {"score", "score last"}
    BY <1>16 DEF Score, Scoring
  <2> QED BY <2>1 DEF InStep, Occupied
<1>17. CASE PredictFails(Capture) \/ Done(Capture)
  <2>1. /\ UNCHANGED <<table, snapshot, current, queue>>
        /\ pc[Capture] \in {"score", "score last"}
        /\ \/ pc'[Capture] = "dead" /\ queue[Capture] # <<>>
           \/ pc'[Capture] = "idle"
    BY <1>1, <1>17, ThreadNames DEF PredictFails, Done, Scoring
  <2> QED BY <1>2, <1>3, <2>1 DEF InStep
<1> QED BY <1>5, <1>6, <1>7, <1>8, <1>9, <1>10, <1>11, <1>12, <1>13, <1>14, <1>15, <1>16, <1>17
        DEF MainStep, CaptureSteps, AddSteps, CheckSteps, ScoreSteps

(* The main thread queues the flow that it takes out of the table.          *)
LEMMA TakenIsQueued ==
  ASSUME LiveTypes, \A f \in Flows : Somewhere(f),
         NEW key \in Keys, NEW g \in Nat, table[key] = g,
         table' = [table EXCEPT ![key] = None],
         queue' = [queue EXCEPT ![Capture] = Append(@, g)],
         UNCHANGED <<last_seen, scored>>
  PROVE  \A f \in Flows' : Somewhere(f)'
<1>1. \A k \in Keys \ {key} : table'[k] = table[k]
  BY DEF LiveTypes
<1>2. Mine(Capture)' = Append(Mine(Capture), g) /\ \A t \in Threads \ {Capture} : Mine(t)' = Mine(t)
  BY GivesOne, ThreadNames
<1>3. Mine(Capture) \in Seq(Nat)
  BY MineType, ThreadNames
<1>4. Elements(Append(Mine(Capture), g)) = Elements(Mine(Capture)) \cup {g}
  <2>1. \A s \in Seq(Nat) : Elements(Append(s, g)) = Elements(s) \cup {g}
    BY OneMore
  <2> QED BY <1>3, <2>1
<1>5. Elements(Mine(Capture)') = Elements(Mine(Capture)) \cup {g}
  BY <1>2, <1>4
<1>6. \A t \in Threads : Elements(Mine(t)) \subseteq Elements(Mine(t)')
  BY <1>2, <1>5
<1> SUFFICES ASSUME NEW f \in Flows' PROVE Somewhere(f)'
  OBVIOUS
<1>7. Somewhere(f)
  BY DEF Flows, created
<1>8. \/ \E k \in Keys : table'[k] = f
      \/ \E t \in Threads : f \in Elements(Mine(t)')
  <2>1. CASE f = g
    BY <1>5, <2>1, ThreadNames
  <2>2. CASE f # g
    BY <1>1, <1>6, <1>7, <2>2 DEF Somewhere
  <2> QED BY <2>1, <2>2
<1> QED BY <1>8 DEF Somewhere, Elements

LEMMA MainLosesNone ==
  ASSUME LiveTypes, InHandOnce, pc[Handler] = "idle", InStep, MainStep,
         \A f \in Flows : Somewhere(f)
  PROVE  \A f \in Flows' : Somewhere(f)'
<1> USE DEF At, Goto
<1>1. ASSUME table' = table, created' = created, \A t \in Threads : Mine(t)' = Mine(t)
      PROVE  \A f \in Flows' : Somewhere(f)'
  <2>1. Flows' = Flows
    BY <1>1 DEF Flows
  <2>2. \A f \in Flows' : (\E k \in Keys : table'[k] = f)
                          \/ \E t \in Threads : f \in Elements(Mine(t)')
    BY <1>1, <2>1 DEF Somewhere
  <2> QED BY <2>2 DEF Somewhere, Elements
<1>2. CASE Evict
  <2>1. PICK k \in Keys : /\ table' = [table EXCEPT ![k] = None]
                          /\ queue' = [queue EXCEPT ![Capture] = Append(@, table[k])]
    BY <1>2 DEF Evict, Occupied
  <2>2. UNCHANGED <<last_seen, scored>>
    BY <1>2 DEF Evict
  <2>3. PICK g \in Nat : g = table[k]
    BY DEF LiveTypes
  <2> QED BY <2>1, <2>2, <2>3, TakenIsQueued
<1>3. CASE Close
  <2>1. /\ table' = [table EXCEPT ![current.key] = None]
        /\ queue' = [queue EXCEPT ![Capture] = Append(@, current.flow)]
        /\ UNCHANGED <<last_seen, scored>> /\ pc[Capture] = "close"
    BY <1>3 DEF Close
  <2>2. /\ current.key \in Keys /\ current.flow \in Nat
        /\ table[current.key] = current.flow
    BY <2>1, HandsType DEF InStep
  <2>3. PICK key \in Keys, g \in Nat : key = current.key /\ g = current.flow
    BY <2>2
  <2> QED BY <2>1, <2>2, <2>3, TakenIsQueued
<1>4. CASE Expire(Capture)
  <2>1. /\ table' = [table EXCEPT ![Head(snapshot[Capture]).key] = None]
        /\ queue' = [queue EXCEPT ![Capture] = Append(@, Head(snapshot[Capture]).flow)]
        /\ UNCHANGED <<last_seen, scored>> /\ pc[Capture] = "expire"
    BY <1>4 DEF Expire
  <2>2. snapshot[Capture] # <<>> /\ snapshot[Capture] \in Seq(Item)
    BY <2>1, HandsType, ThreadNames DEF InHandOnce
  <2>3. Head(snapshot[Capture]) = snapshot[Capture][1] /\ 1 \in DOMAIN snapshot[Capture]
    BY <2>2, RestOf
  <2>4. /\ Head(snapshot[Capture]).key \in Keys /\ Head(snapshot[Capture]).flow \in Nat
        /\ table[Head(snapshot[Capture]).key] = Head(snapshot[Capture]).flow
    BY <2>3, HandsType, ThreadNames DEF InStep
  <2>5. PICK key \in Keys, g \in Nat :
          key = Head(snapshot[Capture]).key /\ g = Head(snapshot[Capture]).flow
    BY <2>4
  <2> QED BY <2>1, <2>4, <2>5, TakenIsQueued
<1>5. CASE Insert
  <2>1. /\ pc[Capture] = "insert"
        /\ table' = [table EXCEPT ![current.key] = created + 1]
        /\ last_seen' = Append(last_seen, now[Capture])
        /\ UNCHANGED <<queue, scored>>
    BY <1>5 DEF Insert
  <2>2. table[current.key] = None /\ current.key \in Keys
    BY <2>1 DEF InStep, LiveTypes
  <2>3. created' = created + 1
    <3>1. last_seen \in Seq(Nat) /\ now[Capture] \in Nat
      BY ThreadNames DEF LiveTypes
    <3>2. Len(Append(last_seen, now[Capture])) = Len(last_seen) + 1
      BY <3>1, AppendProperties
    <3> QED BY <2>1, <3>2 DEF created
  <2>4. created \in Nat /\ Flows = 1 .. created
    BY CreatedType
  <2>5. PICK n \in Nat : n = created + 1
    BY <2>4
  <2>6. Flows' = Flows \cup {n} /\ None \notin Flows
    BY <2>3, <2>4, <2>5 DEF Flows, None
  <2>7. \A t \in Threads : Mine(t)' = Mine(t)
    BY <2>1 DEF Mine
  <2>8. table'[current.key] = n /\ \A k \in Keys \ {current.key} : table'[k] = table[k]
    BY <2>1, <2>2, <2>5 DEF LiveTypes
  <2>9. \A f \in Flows' : (\E k \in Keys : table'[k] = f)
                          \/ \E t \in Threads : f \in Elements(Mine(t)')
    <3> TAKE f \in Flows'
    <3>1. CASE f = n
      BY <2>2, <2>8, <3>1
    <3>2. CASE f # n
      <4>1. f \in Flows /\ f # None
        BY <2>6, <3>2
      <4> QED BY <2>2, <2>7, <2>8, <4>1 DEF Somewhere
    <3> QED BY <3>1, <3>2
  <2> QED BY <2>9 DEF Somewhere, Elements
<1>6. CASE ~(Evict \/ Close \/ Expire(Capture) \/ Insert)
  <2>1. QuietStep
    BY <1>6, ThreadNames DEF MainStep, CaptureSteps, AddSteps, CheckSteps, QuietStep
  <2>2. Quiet
    BY <2>1, QuietSteps
  <2>3. table' = table
    BY <1>6 DEF MainStep, CaptureSteps, AddSteps, CheckSteps, ScoreSteps, Receive, Admit,
                ScanRaises, Apply, ThenCheckTimeouts, Snapshot, Test, Checked, Score,
                PredictFails, Done
  <2> QED BY <1>1, <2>2, <2>3 DEF Quiet, TableShrinks
<1> QED BY <1>2, <1>3, <1>4, <1>5, <1>6

LEMMA SweeperStaysAbsent ==
  ASSUME LiveTypes, [Next]_vars, SingleThread'
  PROVE  SingleThread /\ (MainStep \/ HandlerSteps \/ Interrupt \/ Tick \/ UNCHANGED vars)
<1> USE DEF SingleThread, At, Goto
<1>1. ~SweeperSteps
  <2>1. CASE WakeUp
    BY <2>1, ThreadNames DEF WakeUp, Snapshot, LiveTypes
  <2>2. CASE CheckSteps(Sweeper)
    BY <2>2, ThreadNames DEF CheckSteps, Test, Expire, Checked, LiveTypes
  <2>3. CASE ScoreSteps(Sweeper)
    BY <2>3, ThreadNames DEF ScoreSteps, Score, PredictFails, Done, Scoring, LiveTypes
  <2> QED BY <2>1, <2>2, <2>3 DEF SweeperSteps
<1>2. MainStep \/ HandlerSteps \/ Interrupt \/ Tick \/ UNCHANGED vars
  BY <1>1 DEF Next, MainStep
<1>3. pc'[Sweeper] = pc[Sweeper]
  <2>1. CASE \E key \in Keys, closes \in BOOLEAN : Receive(key, closes)
    BY <2>1, ThreadNames DEF Receive, LiveTypes
  <2>2. CASE AddSteps \/ ThenCheckTimeouts
    BY <2>2, ThreadNames DEF AddSteps, Admit, ScanRaises, Evict, Insert, Apply, Close,
                             ThenCheckTimeouts, Snapshot, LiveTypes
  <2>3. CASE CheckSteps(Capture)
    BY <2>3, ThreadNames DEF CheckSteps, Test, Expire, Checked, LiveTypes
  <2>4. CASE ScoreSteps(Capture) \/ ScoreSteps(Handler)
    BY <2>4, ThreadNames DEF ScoreSteps, Score, PredictFails, Done, LiveTypes
  <2>5. CASE Clear \/ Interrupt \/ Tick \/ UNCHANGED vars
    BY <2>5, ThreadNames DEF Clear, Interrupt, Tick, vars, LiveTypes
  <2> QED BY <1>2, <2>1, <2>2, <2>3, <2>4, <2>5 DEF MainStep, CaptureSteps, HandlerSteps
<1> QED BY <1>2, <1>3

LEMMA MainLeavesOthers ==
  ASSUME LiveTypes, TableSound, MineOnce, InHandOnce, MainStep
  PROVE  /\ pc[Handler] = "idle" /\ pc'[Handler] = "idle"
         /\ Mine(Sweeper)' = Mine(Sweeper)
<1> USE DEF At, Goto, MayStep, Capturing
<1>1. CASE \E key \in Keys, closes \in BOOLEAN : Receive(key, closes)
  BY <1>1, ThreadNames DEF Receive, LiveTypes, Mine
<1>2. CASE AddSteps \/ ThenCheckTimeouts
  BY <1>2, ThreadNames DEF AddSteps, Admit, ScanRaises, Evict, Insert, Apply, Close,
                           ThenCheckTimeouts, Snapshot, LiveTypes, Mine
<1>3. CASE CheckSteps(Capture)
  BY <1>3, ThreadNames DEF CheckSteps, Test, Expire, Checked, LiveTypes, Mine
<1>4. CASE ScoreSteps(Capture)
  BY <1>4, ThreadNames DEF ScoreSteps, Score, PredictFails, Done, Scoring, LiveTypes, Mine
<1> QED BY <1>1, <1>2, <1>3, <1>4 DEF MainStep, CaptureSteps

LEMMA SingleInvPreserved ==
  ASSUME LiveInv, LiveInv', SingleInv, [Next]_vars
  PROVE  SingleInv'
<1> SUFFICES ASSUME SingleThread' PROVE SingleInv'
  BY DEF SingleInv
<1>1. /\ LiveTypes /\ TableSound /\ IsFiniteSet(Occupied) /\ MineOnce /\ InHandOnce
      /\ MineOnce'
  BY DEF LiveInv, RoomMade
<1>2. SingleThread /\ (MainStep \/ HandlerSteps \/ Interrupt \/ Tick \/ UNCHANGED vars)
  BY <1>1, SweeperStaysAbsent
<1>3. /\ Mine(Sweeper) = <<>>
      /\ pc[Handler] = "idle" => InStep
      /\ pc[Handler] = "clear" => \A k \in Occupied : table[k] \in Elements(Mine(Handler))
      /\ Elements(Mine(Capture)) \cap Elements(Mine(Handler)) = {}
      /\ \A f \in Flows : Somewhere(f)
      /\ pc[Capture] = "dead" => queue[Capture] # <<>>
  BY <1>2 DEF SingleInv
<1>4. DOMAIN <<>> = {}
  OBVIOUS
<1> USE DEF At, Goto
<1>5. CASE MainStep
  <2>1. pc[Handler] = "idle" /\ pc'[Handler] = "idle" /\ Mine(Sweeper)' = <<>>
    BY <1>1, <1>3, <1>5, MainLeavesOthers
  <2>2. InStep' /\ (pc'[Capture] = "dead" => queue'[Capture] # <<>>)
    BY <1>1, <1>3, <1>5, <2>1, MainReadsTrue
  <2>3. \A f \in Flows' : Somewhere(f)'
    BY <1>1, <1>3, <1>5, <2>1, MainLosesNone
  <2>4. Elements(Mine(Handler)') = {}
    BY <1>1, <1>4, <2>1 DEF MineOnce, Elements
  <2> QED BY <2>1, <2>2, <2>3, <2>4 DEF SingleInv, Elements
<1>6. CASE Interrupt
  <2>1. /\ UNCHANGED <<table, last_seen, scored>>
        /\ pc[Handler] = "idle" /\ pc'[Handler] = "clear" /\ pc'[Capture] = pc[Capture]
        /\ queue'[Capture] = queue[Capture] /\ queue'[Sweeper] = queue[Sweeper]
    BY <1>6, ThreadNames DEF Interrupt, Capturing, LiveTypes, LiveInv
  <2>2. Mine(Capture)' = Mine(Capture) /\ Mine(Sweeper)' = Mine(Sweeper) /\ Flows' = Flows
        /\ Occupied' = Occupied
    BY <2>1 DEF Mine, Flows, created, Occupied
  <2>3. Elements(Mine(Handler)') = { table[k] : k \in Occupied }
    BY <1>1, <1>6, InterruptKeeps
  <2>4. Elements(Mine(Handler)) = {}
    BY <1>1, <1>4, <2>1 DEF MineOnce, Elements
  <2>5. \A k \in Occupied : k \in Keys /\ table[k] \notin Elements(Mine(Capture))
    BY <1>1, ThreadNames DEF Occupied, MineOnce
  <2>6. Elements(Mine(Capture)') \cap Elements(Mine(Handler)') = {}
    BY <2>2, <2>3, <2>5 DEF Elements
  <2>7. \A k \in Occupied' : table'[k] \in Elements(Mine(Handler)')
    BY <2>1, <2>2, <2>3
  <2>8. \A f \in Flows' : (\E k \in Keys : table'[k] = f)
                          \/ \E t \in Threads : f \in Elements(Mine(t)')
    BY <1>3, <2>1, <2>2, <2>4, ThreadNames DEF Somewhere
  <2>9. \A f \in Flows' : Somewhere(f)'
    BY <2>8 DEF Somewhere, Elements
  <2>10. pc'[Capture] = "dead" => queue'[Capture] # <<>>
    BY <1>3, <2>1
  <2> QED BY <1>3, <2>1, <2>2, <2>6, <2>7, <2>9, <2>10 DEF SingleInv, Elements
<1>7. CASE Clear
  <2>1. /\ pc[Handler] = "clear" /\ pc'[Handler] = "score last" /\ pc'[Capture] = pc[Capture]
        /\ UNCHANGED <<last_seen, queue, scored>>
    BY <1>1, <1>7, ThreadNames DEF Clear, LiveTypes
  <2>2. (\A t \in Threads : Mine(t)' = Mine(t)) /\ Flows' = Flows
    BY <2>1 DEF Mine, Flows, created
  <2>3. None \notin Flows
    BY <1>1, CreatedType DEF None
  <2>4. \A f \in Flows' : \E t \in Threads : f \in Elements(Mine(t)')
    <3> TAKE f \in Flows'
    <3>1. CASE \E k \in Keys : table[k] = f
      <4>1. PICK k \in Keys : table[k] = f
        BY <3>1
      <4>2. k \in Occupied
        BY <2>2, <2>3, <4>1 DEF Occupied
      <4> QED BY <1>3, <2>1, <2>2, <4>1, <4>2, ThreadNames
    <3>2. CASE ~\E k \in Keys : table[k] = f
      BY <1>3, <2>2, <3>2 DEF Somewhere
    <3> QED BY <3>1, <3>2
  <2>5. \A f \in Flows' : Somewhere(f)'
    BY <2>4 DEF Somewhere, Elements
  <2> QED BY <1>3, <2>1, <2>2, <2>5, ThreadNames DEF SingleInv, Elements
<1>8. CASE ScoreSteps(Handler)
  <2>1. /\ UNCHANGED <<table, last_seen>> /\ pc'[Capture] = pc[Capture]
        /\ queue'[Capture] = queue[Capture]
        /\ pc[Handler] # "clear" /\ pc[Handler] # "idle"
        /\ pc'[Handler] # "clear" /\ pc'[Handler] # "idle"
    BY <1>1, <1>8, ThreadNames
       DEF ScoreSteps, Score, PredictFails, Done, Scoring, LiveTypes
  <2>2. \A t \in Threads : Mine(t)' = Mine(t)
    <3>1. QuietStep
      BY <1>8, ThreadNames DEF QuietStep
    <3> QED BY <1>1, <3>1, QuietSteps DEF Quiet
  <2>3. Flows' = Flows
    BY <2>1 DEF Flows, created
  <2>4. \A f \in Flows' : (\E k \in Keys : table'[k] = f)
                          \/ \E t \in Threads : f \in Elements(Mine(t)')
    BY <1>3, <2>1, <2>2, <2>3 DEF Somewhere
  <2>5. \A f \in Flows' : Somewhere(f)'
    BY <2>4 DEF Somewhere, Elements
  <2> QED BY <1>3, <2>1, <2>2, <2>5, ThreadNames DEF SingleInv, Elements
<1>9. CASE Tick \/ UNCHANGED vars
  <2>1. UNCHANGED <<table, last_seen, pc, snapshot, queue, current, scored>>
    BY <1>9 DEF Tick, vars
  <2>2. /\ \A t \in Threads : Mine(t)' = Mine(t)
        /\ Flows' = Flows /\ Occupied' = Occupied
    BY <2>1 DEF Mine, Flows, created, Occupied
  <2>3. pc'[Handler] = "idle" => InStep'
    BY <1>3, <2>1, <2>2 DEF InStep
  <2>4. \A f \in Flows' : Somewhere(f)'
    <3>1. \A f \in Flows' : (\E k \in Keys : table'[k] = f)
                            \/ \E t \in Threads : f \in Elements(Mine(t)')
      BY <1>3, <2>1, <2>2 DEF Somewhere
    <3> QED BY <3>1 DEF Somewhere, Elements
  <2> QED BY <1>3, <2>1, <2>2, <2>3, <2>4, ThreadNames DEF SingleInv, Elements
<1> QED BY <1>2, <1>5, <1>6, <1>7, <1>8, <1>9 DEF HandlerSteps

LEMMA InitSingle == Init => SingleInv
<1> SUFFICES ASSUME Init PROVE SingleInv
  OBVIOUS
<1>1. Flows = {} /\ Occupied = {} /\ pc[Capture] = "idle" /\ pc[Handler] = "idle"
  BY ThreadNames DEF Init, Flows, created, Occupied
<1>2. \A t \in Threads : Mine(t) = <<>>
  <2>1. \A t \in Threads : Mine(t) = <<>> \o <<>>
    BY DEF Init, Mine
  <2>2. <<>> \o <<>> = <<>>
    OBVIOUS
  <2> QED BY <2>1, <2>2
<1>3. Elements(<<>>) = {} /\ DOMAIN <<>> = {}
  BY DEF Elements
<1>4. InStep
  <2>1. snapshot[Capture] = <<>>
    BY ThreadNames DEF Init
  <2> QED BY <1>1, <1>3, <2>1 DEF InStep
<1> QED BY <1>1, <1>2, <1>3, <1>4, ThreadNames DEF SingleInv

(* A capture without the sweeper (demo.py:69-89), interrupted at any step   *)
(* and flushed: no flow is scored by the main thread and by the handler,    *)
(* none is lost from sight, and the main thread dies only of a prediction   *)
(* that raised.                                                             *)
THEOREM CleanWithoutSweeper == Spec => []OneThreadIsClean
<1>1. LiveInv /\ SingleInv => OneThreadIsClean
  <2> SUFFICES ASSUME LiveInv, SingleInv, SingleThread
               PROVE  ScoredOnce /\ NoFlowVanishes /\ (pc[Capture] = "dead" => Raised(Capture))
    BY DEF OneThreadIsClean
  <2>1. \A t \in Threads : Elements(Mine(t)) = ScoredBy(t) \cup Elements(queue[t])
    BY MineType DEF LiveInv, ScoredBy
  <2>2. Elements(Mine(Sweeper)) = {}
    <3>1. DOMAIN <<>> = {}
      OBVIOUS
    <3> QED BY <3>1 DEF SingleInv, Elements
  <2>3. ScoredOnce
    BY <2>1, <2>2, ThreadNames DEF SingleInv, ScoredOnce, Checkers
  <2>4. NoFlowVanishes
    BY <2>1 DEF SingleInv, Somewhere, NoFlowVanishes, InTable, InHand
  <2>5. pc[Capture] = "dead" => Raised(Capture)
    BY DEF SingleInv, Raised
  <2> QED BY <2>3, <2>4, <2>5
<1>2. Init => LiveInv /\ SingleInv
  BY InitLive, InitSingle
<1>3. LiveInv /\ SingleInv /\ [Next]_vars => LiveInv' /\ SingleInv'
  BY LiveInvPreserved, SingleInvPreserved
<1> QED BY <1>1, <1>2, <1>3, PTL DEF Spec
==============================================================================
