------------------------ MODULE SourceHistoryLemmas --------------------------
(****************************************************************************)
(* What the operations of the source history preserve and bound, for every  *)
(* window and every bound on entries.  Used by the proofs about a single    *)
(* history and by those about the flow table that owns one.                 *)
(****************************************************************************)
EXTENDS SourceHistory, FiniteSetTheorems, SequenceTheorems, WellFoundedInduction, TLAPS

(* A dict of deques of entries. *)
IsHistory(entries) == \A s \in DOMAIN entries : entries[s] \in Seq(Entry)

(* No deque is longer than the bound. *)
WithinBound(entries) == \A s \in DOMAIN entries : Len(entries[s]) <= max_entries

(* A set of natural numbers has a least one.                                *)
LEMMA SmallestExists ==
  ASSUME NEW S \in SUBSET Nat, S # {}
  PROVE  \E m \in S : \A n \in S : m <= n
<1> DEFINE T == { 1 .. n : n \in S }
<1>1. IsWellFoundedOn(StrictSubsetOrdering(Nat), FiniteSubsetsOf(Nat))
  BY FS_StrictSubsetOrderingWellFounded
<1>2. T \subseteq FiniteSubsetsOf(Nat) /\ T # {}
  <2>1. \A n \in S : 1 .. n \in SUBSET Nat /\ IsFiniteSet(1 .. n)
    BY FS_Interval
  <2> QED BY <2>1 DEF FiniteSubsetsOf
<1>3. \E x \in T : \A y \in T : <<y, x>> \notin StrictSubsetOrdering(Nat)
  BY <1>1, <1>2, WFMin
<1>4. PICK m \in S : \A n \in S : <<1 .. n, 1 .. m>> \notin StrictSubsetOrdering(Nat)
  BY <1>3
<1>5. ASSUME NEW n \in S, n < m PROVE FALSE
  <2>1. 1 .. n \subseteq 1 .. m /\ m \in 1 .. m /\ m \notin 1 .. n
    BY <1>5
  <2>2. <<1 .. n, 1 .. m>> \in (SUBSET Nat) \X (SUBSET Nat)
    OBVIOUS
  <2> QED BY <1>4, <2>1, <2>2 DEF StrictSubsetOrdering
<1> QED BY <1>5

(* _prune's loop (flow_builder.py:96-98) leaves a run of the deque's latest *)
(* entries: something is dropped from the left and nothing else changes.    *)
LEMMA DropOldIsSuffix ==
  ASSUME NEW buf \in Seq(Entry), NEW cutoff \in Int
  PROVE  \E k \in 1 .. Len(buf) + 1 : DropOld(buf, cutoff) = SubSeq(buf, k, Len(buf))
<1> DEFINE kept == { i \in DOMAIN buf : \E j \in 1 .. i : buf[j].ts >= cutoff }
<1>1. Len(buf) \in Nat /\ DOMAIN buf = 1 .. Len(buf)
  OBVIOUS
<1>2. IsFiniteSet(1 .. Len(buf)) /\ Cardinality(1 .. Len(buf)) = Len(buf)
  BY <1>1, FS_Interval
<1>3. Cardinality(kept) \in Nat /\ Cardinality(kept) <= Len(buf)
  <2>1. kept \in SUBSET (1 .. Len(buf))
    BY <1>1
  <2> QED BY <2>1, <1>2, FS_Subset, FS_CardinalityType
<1>4. Len(buf) - Cardinality(kept) + 1 \in 1 .. Len(buf) + 1
  BY <1>1, <1>3
<1> QED BY <1>4 DEF DropOld

(* On a deque in time order the loop keeps exactly the entries that are not *)
(* older than the cutoff.                                                   *)
Sorted(buf) == \A i, j \in DOMAIN buf : i <= j => buf[i].ts <= buf[j].ts

LEMMA DropOldOfSorted ==
  ASSUME NEW buf \in Seq(Entry), Sorted(buf), NEW cutoff \in Int
  PROVE  \E m \in 1 .. Len(buf) + 1 :
           /\ DropOld(buf, cutoff) = SubSeq(buf, m, Len(buf))
           /\ \A i \in 1 .. Len(buf) : buf[i].ts >= cutoff <=> i >= m
<1> DEFINE kept == { i \in DOMAIN buf : \E j \in 1 .. i : buf[j].ts >= cutoff }
           fresh == { i \in 1 .. Len(buf) : buf[i].ts >= cutoff }
<1>1. Len(buf) \in Nat /\ DOMAIN buf = 1 .. Len(buf)
  OBVIOUS
<1>2. \A i \in 1 .. Len(buf) : buf[i].ts \in Int
  <2>1. \A i \in 1 .. Len(buf) : buf[i] \in Entry
    BY <1>1
  <2> QED BY <2>1 DEF Entry
<1>3. PICK m \in fresh \cup {Len(buf) + 1} : \A n \in fresh \cup {Len(buf) + 1} : m <= n
  <2>1. fresh \cup {Len(buf) + 1} \in SUBSET Nat
    BY <1>1
  <2> HIDE DEF fresh
  <2> QED BY <2>1, SmallestExists
<1>4. m \in 1 .. Len(buf) + 1
  BY <1>1, <1>3
<1>5. ASSUME NEW i \in 1 .. Len(buf) PROVE buf[i].ts >= cutoff <=> i >= m
  <2>1. CASE m = Len(buf) + 1
    BY <1>1, <1>3, <2>1
  <2>2. CASE m \in fresh
    <3>1. m <= i => buf[m].ts <= buf[i].ts
      BY <1>1, <2>2 DEF Sorted
    <3> QED BY <1>1, <1>2, <1>3, <2>2, <3>1
  <2> QED BY <1>3, <2>1, <2>2
<1>6. kept = m .. Len(buf)
  <2>1. ASSUME NEW i \in kept PROVE i \in m .. Len(buf)
    <3>1. PICK j \in 1 .. i : buf[j].ts >= cutoff
      OBVIOUS
    <3> QED BY <1>1, <1>4, <1>5, <3>1
  <2>2. ASSUME NEW i \in m .. Len(buf) PROVE i \in kept
    BY <1>1, <1>4, <1>5
  <2> HIDE DEF kept
  <2> QED BY <2>1, <2>2
<1>7. Cardinality(kept) = Len(buf) - m + 1
  <2>1. m \in Int /\ Len(buf) \in Int /\ m <= Len(buf) + 1
    BY <1>1, <1>4
  <2>2. Cardinality(m .. Len(buf)) = IF m > Len(buf) THEN 0 ELSE Len(buf) - m + 1
    BY <2>1, FS_Interval
  <2>3. Cardinality(m .. Len(buf)) = Len(buf) - m + 1
    BY <2>1, <2>2
  <2> QED BY <1>6, <2>3
<1>8. Len(buf) - Cardinality(kept) + 1 = m
  BY <1>1, <1>4, <1>7
<1> QED BY <1>4, <1>5, <1>8 DEF DropOld

LEMMA DropOldType ==
  ASSUME NEW buf \in Seq(Entry), NEW cutoff \in Int
  PROVE  /\ DropOld(buf, cutoff) \in Seq(Entry)
         /\ Len(DropOld(buf, cutoff)) <= Len(buf)
<1>1. PICK k \in 1 .. Len(buf) + 1 : DropOld(buf, cutoff) = SubSeq(buf, k, Len(buf))
  BY DropOldIsSuffix
<1>2. \A i \in k .. Len(buf) : buf[i] \in Entry
  BY <1>1
<1> QED BY <1>1, <1>2, SubSeqProperties

(* prune keeps the dict a dict of entries, with the same keys. *)
LEMMA PruneType ==
  ASSUME NEW entries, IsHistory(entries), NEW src, NEW now \in Int
  PROVE  /\ IsHistory(Prune(entries, src, now))
         /\ DOMAIN Prune(entries, src, now) = DOMAIN entries
         /\ WithinBound(entries) => WithinBound(Prune(entries, src, now))
<1>1. now - window_sec \in Int
  BY SourceHistoryAssumption
<1>2. max_entries \in Nat
  BY SourceHistoryAssumption
<1>3. \A s \in DOMAIN entries :
        /\ entries[s] \in Seq(Entry)
        /\ DropOld(entries[s], now - window_sec) \in Seq(Entry)
        /\ Len(DropOld(entries[s], now - window_sec)) <= Len(entries[s])
  BY <1>1, DropOldType DEF IsHistory
<1>4. \A s \in DOMAIN entries :
        /\ Len(entries[s]) \in Nat
        /\ Len(DropOld(entries[s], now - window_sec)) \in Nat
  BY <1>3
<1> QED BY <1>2, <1>3, <1>4 DEF Prune, IsHistory, WithinBound

(* record_new_flow adds at most the source's key and keeps every deque      *)
(* within the bound, which is what lines 89-90 are there for.               *)
LEMMA RecordType ==
  ASSUME NEW entries, IsHistory(entries),
         NEW src \in Int, NEW dst \in Int, NEW port \in Int, NEW ts \in Int
  PROVE  /\ IsHistory(RecordNewFlow(entries, src, dst, port, ts))
         /\ DOMAIN RecordNewFlow(entries, src, dst, port, ts) = DOMAIN entries \cup {src}
         /\ WithinBound(entries) => WithinBound(RecordNewFlow(entries, src, dst, port, ts))
<1> DEFINE e == [ts |-> ts, dst_ip |-> dst, dst_port |-> port]
           old == Deque(entries, src)
           buf == Append(old, e)
           new == IF Len(buf) > max_entries THEN Tail(buf) ELSE buf
<1>1. e \in Entry
  BY DEF Entry
<1>2. old \in Seq(Entry)
  BY DEF Deque, IsHistory
<1>3. buf \in Seq(Entry) /\ Len(buf) = Len(old) + 1 /\ buf # <<>>
  BY <1>1, <1>2
<1>4. Tail(buf) \in Seq(Entry) /\ Len(Tail(buf)) = Len(old)
  BY <1>3, <1>2, HeadTailProperties
<1>5. new \in Seq(Entry)
  BY <1>3, <1>4
<1>6. WithinBound(entries) => Len(new) <= max_entries
  <2> SUFFICES ASSUME WithinBound(entries) PROVE Len(new) <= max_entries
    OBVIOUS
  <2>1. Len(old) \in Nat /\ max_entries \in Nat
    BY <1>2, SourceHistoryAssumption
  <2>2. Len(old) <= max_entries
    BY <2>1 DEF Deque, WithinBound
  <2> QED BY <2>1, <2>2, <1>3, <1>4
<1>7. RecordNewFlow(entries, src, dst, port, ts)
        = [s \in DOMAIN entries \cup {src} |-> IF s # src THEN entries[s] ELSE new]
  BY DEF RecordNewFlow
<1> HIDE DEF new
<1> QED BY <1>5, <1>6, <1>7 DEF IsHistory, WithinBound

(* The counts of a deque are natural numbers: the two fan-outs are sizes of *)
(* finite sets.                                                             *)
LEMMA CountsType ==
  ASSUME NEW buf \in Seq(Entry)
  PROVE  CountsOf(buf) \in [dest_fanout : Nat, port_fanout : Nat, flow_count : Nat]
<1> DEFINE seen == { buf[i] : i \in DOMAIN buf }
           ips == { e.dst_ip : e \in seen }
           ports == { e.dst_port : e \in seen }
<1>1. Len(buf) \in Nat /\ DOMAIN buf = 1 .. Len(buf)
  OBVIOUS
<1>2. IsFiniteSet(1 .. Len(buf))
  BY <1>1, FS_Interval
<1>3. IsFiniteSet(ips)
  <2>1. [i \in 1 .. Len(buf) |-> buf[i].dst_ip] \in Surjection(1 .. Len(buf), ips)
    BY <1>1 DEF Surjection
  <2> QED BY <2>1, <1>2, FS_Surjection
<1>4. IsFiniteSet(ports \ {NoPort})
  <2>1. [i \in 1 .. Len(buf) |-> buf[i].dst_port] \in Surjection(1 .. Len(buf), ports)
    BY <1>1 DEF Surjection
  <2>2. IsFiniteSet(ports)
    BY <2>1, <1>2, FS_Surjection
  <2> HIDE DEF ports
  <2> QED BY <2>2, FS_RemoveElement
<1>5. Cardinality(ips) \in Nat /\ Cardinality(ports \ {NoPort}) \in Nat
  BY <1>3, <1>4, FS_CardinalityType
<1> QED BY <1>1, <1>5 DEF CountsOf

------------------------------------------------------------------------------
(* What a deque still answers.                                              *)

(* Of everything recorded for a source up to a time, its deque has the      *)
(* latest entries, and lacks none but those beyond the bound and those that *)
(* have left the window.                                                    *)
Remembers(kept, all, latest) ==
  LET dropped == Len(all) - Len(kept)
  IN  /\ Len(kept) <= Len(all) /\ Len(kept) <= max_entries
      /\ \A i \in 1 .. Len(kept) : kept[i] = all[dropped + i]
      /\ Sorted(all)
      /\ \A i \in 1 .. Len(all) : all[i].ts <= latest
      /\ \A i \in 1 .. dropped :
           i <= Len(all) - max_entries \/ all[i].ts < latest - window_sec

(* Time goes on and nothing is recorded.                                    *)
LEMMA RememberedLater ==
  ASSUME NEW kept \in Seq(Entry), NEW all \in Seq(Entry), NEW latest \in Int,
         Remembers(kept, all, latest), NEW later \in Int, latest <= later
  PROVE  Remembers(kept, all, later)
<1>1. window_sec \in Nat /\ max_entries \in Nat
  BY SourceHistoryAssumption
<1>2. \A i \in 1 .. Len(all) : all[i].ts \in Int
  <2>1. \A i \in 1 .. Len(all) : all[i] \in Entry
    OBVIOUS
  <2> QED BY <2>1 DEF Entry
<1>3. Len(all) \in Nat /\ Len(kept) \in Nat
  OBVIOUS
<1>4. ASSUME NEW i \in 1 .. Len(all) - Len(kept)
      PROVE  i <= Len(all) - max_entries \/ all[i].ts < later - window_sec
  <2>1. i \in 1 .. Len(all)
    BY <1>3 DEF Remembers
  <2>2. i <= Len(all) - max_entries \/ all[i].ts < latest - window_sec
    BY DEF Remembers
  <2>3. all[i].ts \in Int
    BY <1>2, <2>1
  <2> QED BY <1>1, <2>2, <2>3
<1>5. \A i \in 1 .. Len(all) : all[i].ts <= later
  BY <1>2 DEF Remembers
<1> QED BY <1>4, <1>5 DEF Remembers

(* record_new_flow appends; what it drops is beyond the bound.              *)
LEMMA RememberedRecord ==
  ASSUME NEW kept \in Seq(Entry), NEW all \in Seq(Entry), NEW latest \in Int,
         Remembers(kept, all, latest), NEW e \in Entry, latest <= e.ts
  PROVE  LET buf == Append(kept, e)
         IN  Remembers(IF Len(buf) > max_entries THEN Tail(buf) ELSE buf,
                       Append(all, e), e.ts)
<1> DEFINE buf == Append(kept, e)
           more == Append(all, e)
           new == IF Len(buf) > max_entries THEN Tail(buf) ELSE buf
<1>1. PICK k \in Nat, n \in Nat, w \in Nat, max \in Nat :
        k = Len(kept) /\ n = Len(all) /\ w = window_sec /\ max = max_entries
  BY SourceHistoryAssumption
<1>2. /\ k <= n /\ k <= max
      /\ \A i \in 1 .. k : kept[i] = all[n - k + i]
      /\ Sorted(all)
      /\ \A i \in 1 .. n : all[i].ts <= latest
      /\ \A i \in 1 .. n - k : i <= n - max \/ all[i].ts < latest - w
  BY <1>1 DEF Remembers
<1>3. /\ more \in Seq(Entry) /\ Len(more) = n + 1 /\ more[n + 1] = e
      /\ \A i \in 1 .. n : more[i] = all[i]
      /\ DOMAIN more = 1 .. n + 1
  BY <1>1, AppendProperties
<1>4. /\ buf \in Seq(Entry) /\ Len(buf) = k + 1 /\ buf[k + 1] = e
      /\ \A i \in 1 .. k : buf[i] = kept[i]
  BY <1>1, AppendProperties
<1>5. e.ts \in Int /\ \A i \in 1 .. n : all[i].ts \in Int
  <2>1. \A i \in 1 .. n : all[i] \in Entry
    BY <1>1
  <2> QED BY <2>1 DEF Entry
<1> HIDE DEF more, buf
<1>6. \A i \in 1 .. n + 1 : more[i].ts <= e.ts
  <2> SUFFICES ASSUME NEW i \in 1 .. n + 1 PROVE more[i].ts <= e.ts
    OBVIOUS
  <2>1. CASE i = n + 1
    BY <1>3, <1>5, <2>1
  <2>2. CASE i # n + 1
    <3>1. i \in 1 .. n
      BY <2>2
    <3> QED BY <1>2, <1>3, <1>5, <3>1
  <2> QED BY <2>1, <2>2
<1>7. Sorted(more)
  <2> SUFFICES ASSUME NEW i \in 1 .. n + 1, NEW j \in 1 .. n + 1, i <= j
               PROVE  more[i].ts <= more[j].ts
    BY <1>3 DEF Sorted
  <2>1. CASE j = n + 1
    BY <1>3, <1>6, <2>1
  <2>2. CASE j # n + 1
    <3>1. i \in 1 .. n /\ j \in 1 .. n /\ DOMAIN all = 1 .. n
      BY <1>1, <2>2
    <3> QED BY <1>2, <1>3, <3>1 DEF Sorted
  <2> QED BY <2>1, <2>2
<1>8. ASSUME NEW i \in 1 .. n - k
      PROVE  i <= (n + 1) - max \/ more[i].ts < e.ts - w
  <2>1. i \in 1 .. n
    BY <1>2
  <2>2. i <= n - max \/ all[i].ts < latest - w
    BY <1>2
  <2>3. more[i] = all[i] /\ all[i].ts \in Int /\ e.ts \in Int
    BY <1>3, <1>5, <2>1
  <2> QED BY <2>2, <2>3
<1>9. \A i \in 1 .. k + 1 : buf[i] = more[n - k + i]
  <2> SUFFICES ASSUME NEW i \in 1 .. k + 1 PROVE buf[i] = more[n - k + i]
    OBVIOUS
  <2>1. CASE i = k + 1
    BY <1>3, <1>4, <2>1
  <2>2. CASE i # k + 1
    <3>1. i \in 1 .. k /\ n - k + i \in 1 .. n
      BY <1>2, <2>2
    <3> QED BY <1>2, <1>3, <1>4, <3>1
  <2> QED BY <2>1, <2>2
<1>10. CASE k + 1 > max
  <2>1. k = max
    BY <1>2, <1>10
  <2>2. new = Tail(buf)
    BY <1>1, <1>4, <1>10
  <2>3. buf # <<>>
    BY <1>4
  <2>4. /\ Tail(buf) \in Seq(Entry) /\ Len(Tail(buf)) = k
        /\ \A i \in 1 .. k : Tail(buf)[i] = buf[i + 1]
    BY <1>4, <2>3, HeadTailProperties
  <2>5. \A i \in 1 .. k : Tail(buf)[i] = more[(n + 1) - k + i]
    <3> SUFFICES ASSUME NEW i \in 1 .. k PROVE Tail(buf)[i] = more[(n + 1) - k + i]
      OBVIOUS
    <3>1. i + 1 \in 1 .. k + 1 /\ n - k + (i + 1) = (n + 1) - k + i
      OBVIOUS
    <3> QED BY <1>9, <2>4, <3>1
  <2>6. \A i \in 1 .. (n + 1) - k : i <= (n + 1) - max
    BY <2>1
  <2> HIDE DEF new
  <2>7. Len(new) = k /\ \A i \in 1 .. k : new[i] = more[(n + 1) - k + i]
    BY <2>2, <2>4, <2>5
  <2>8. Remembers(new, more, e.ts)
    <3>1. Len(new) <= Len(more) /\ Len(new) <= max_entries
      BY <1>1, <1>2, <1>3, <2>7
    <3>2. \A i \in 1 .. Len(more) - Len(new) : i <= Len(more) - max_entries
      BY <1>1, <1>3, <2>6, <2>7
    <3> QED BY <1>1, <1>3, <1>6, <1>7, <2>7, <3>1, <3>2 DEF Remembers
  <2> QED BY <2>8 DEF new, buf, more
<1>11. CASE k + 1 <= max
  <2>1. new = buf
    BY <1>1, <1>4, <1>11
  <2> HIDE DEF new
  <2>2. Len(new) = k + 1 /\ \A i \in 1 .. k + 1 : new[i] = more[(n + 1) - (k + 1) + i]
    <3>1. (n + 1) - (k + 1) = n - k
      OBVIOUS
    <3> QED BY <1>4, <1>9, <2>1, <3>1
  <2>3. \A i \in 1 .. (n + 1) - (k + 1) : i <= (n + 1) - max \/ more[i].ts < e.ts - w
    <3>1. (n + 1) - (k + 1) = n - k
      OBVIOUS
    <3> QED BY <1>8, <3>1
  <2>4. Remembers(new, more, e.ts)
    BY <1>1, <1>2, <1>3, <1>6, <1>7, <1>11, <2>2, <2>3 DEF Remembers
  <2> QED BY <2>4 DEF new, buf, more
<1> QED BY <1>10, <1>11

(* The positions of what a query with the given time has to count.          *)
Recent(all, now) ==
  { i \in DOMAIN all : i > Len(all) - max_entries /\ all[i].ts >= now - window_sec }

EntriesAt(buf, positions) == { buf[i] : i \in positions }

(* stats drops what has left the window, and what remains is what a scan of *)
(* everything finds.                                                        *)
LEMMA RememberedStats ==
  ASSUME NEW kept \in Seq(Entry), NEW all \in Seq(Entry), NEW latest \in Int,
         Remembers(kept, all, latest),
         NEW now \in Int, NEW later \in Int, latest <= later, now <= later,
         NEW buf, buf = DropOld(kept, now - window_sec)
  PROVE  /\ Remembers(buf, all, later)
         /\ latest <= now =>
              /\ Len(buf) = Cardinality(Recent(all, now))
              /\ EntriesAt(buf, DOMAIN buf) = EntriesAt(all, Recent(all, now))
<1>1. PICK k \in Nat, n \in Nat, w \in Nat, max \in Nat, c \in Int :
        /\ k = Len(kept) /\ n = Len(all) /\ w = window_sec /\ max = max_entries
        /\ c = now - window_sec
  BY SourceHistoryAssumption
<1>2. /\ k <= n /\ k <= max
      /\ \A i \in 1 .. k : kept[i] = all[n - k + i]
      /\ Sorted(all)
      /\ \A i \in 1 .. n : all[i].ts <= later
      /\ \A i \in 1 .. n - k : i <= n - max \/ all[i].ts < later - w
  <2>1. Remembers(kept, all, later)
    BY RememberedLater
  <2> QED BY <1>1, <2>1 DEF Remembers
<1>3. DOMAIN all = 1 .. n /\ \A i \in 1 .. n : all[i].ts \in Int
  <2>1. \A i \in 1 .. n : all[i] \in Entry
    BY <1>1
  <2> QED BY <1>1, <2>1 DEF Entry
<1>4. Sorted(kept)
  <2> SUFFICES ASSUME NEW i \in 1 .. k, NEW j \in 1 .. k, i <= j
               PROVE  kept[i].ts <= kept[j].ts
    BY <1>1 DEF Sorted
  <2>1. n - k + i \in 1 .. n /\ n - k + j \in 1 .. n /\ n - k + i <= n - k + j
    BY <1>2
  <2>2. all[n - k + i].ts <= all[n - k + j].ts
    BY <1>2, <1>3, <2>1 DEF Sorted
  <2> QED BY <1>2, <2>2
<1>5. PICK m \in 1 .. k + 1 :
        /\ DropOld(kept, c) = SubSeq(kept, m, k)
        /\ \A i \in 1 .. k : kept[i].ts >= c <=> i >= m
  BY <1>1, <1>4, DropOldOfSorted
<1>6. buf = DropOld(kept, c)
  BY <1>1
<1>7. /\ buf \in Seq(Entry) /\ Len(buf) = k - m + 1
      /\ \A i \in 1 .. k - m + 1 : buf[i] = kept[m + i - 1]
  <2>1. \A i \in m .. k : kept[i] \in Entry
    BY <1>1, <1>5
  <2>2. /\ SubSeq(kept, m, k) \in Seq(Entry)
        /\ Len(SubSeq(kept, m, k)) = IF m <= k THEN k - m + 1 ELSE 0
        /\ \A i \in 1 .. k - m + 1 : SubSeq(kept, m, k)[i] = kept[m + i - 1]
    BY <1>5, <2>1, SubSeqProperties
  <2>3. Len(SubSeq(kept, m, k)) = k - m + 1
    BY <1>5, <2>2
  <2>4. buf = SubSeq(kept, m, k)
    BY <1>5, <1>6
  <2> QED BY <2>2, <2>3, <2>4
<1>8. PICK j \in Int, first \in Nat : j = k - m + 1 /\ first = n - j
  BY <1>2, <1>5
<1>9. 0 <= j /\ j <= k /\ Len(buf) = j
  BY <1>5, <1>7, <1>8
<1>10. \A i \in 1 .. j : buf[i] = all[first + i]
  <2> SUFFICES ASSUME NEW i \in 1 .. j PROVE buf[i] = all[first + i]
    OBVIOUS
  <2>1. i \in 1 .. k - m + 1 /\ m + i - 1 \in 1 .. k /\ n - k + (m + i - 1) = first + i
    BY <1>5, <1>8, <1>9
  <2> QED BY <1>2, <1>7, <2>1
<1>11. Remembers(buf, all, later)
  <2>1. Len(buf) <= Len(all) /\ Len(buf) <= max_entries
    BY <1>1, <1>2, <1>9
  <2>2. Len(all) - Len(buf) = first
    BY <1>1, <1>8, <1>9
  <2>3. ASSUME NEW i \in 1 .. first PROVE i <= n - max \/ all[i].ts < later - w
    <3>1. CASE i <= n - k
      BY <1>2, <3>1
    <3>2. CASE i > n - k
      <4>1. i - (n - k) \in 1 .. k /\ n - k + (i - (n - k)) = i /\ ~(i - (n - k) >= m)
        BY <1>5, <1>8, <1>9, <3>2
      <4>2. kept[i - (n - k)] = all[i]
        BY <1>2, <4>1
      <4>3. ~(all[i].ts >= c)
        BY <1>5, <4>1, <4>2
      <4>4. all[i].ts \in Int /\ c <= later - w
        BY <1>1, <1>3, <1>8, <1>9
      <4> QED BY <4>3, <4>4
    <3> QED BY <3>1, <3>2
  <2> QED BY <1>1, <1>2, <1>9, <1>10, <2>1, <2>2, <2>3 DEF Remembers
<1> SUFFICES ASSUME latest <= now
             PROVE  /\ Len(buf) = Cardinality(Recent(all, now))
                    /\ EntriesAt(buf, DOMAIN buf) = EntriesAt(all, Recent(all, now))
  BY <1>11
<1>12. \A i \in 1 .. n : (i > n - max /\ all[i].ts >= c) <=> i > first
  <2> SUFFICES ASSUME NEW i \in 1 .. n
               PROVE  (i > n - max /\ all[i].ts >= c) <=> i > first
    OBVIOUS
  <2>1. CASE i <= n - k
    <3>1. i <= n - max \/ all[i].ts < c
      <4>1. Remembers(kept, all, now)
        BY RememberedLater
      <4> QED BY <1>1, <2>1, <4>1 DEF Remembers
    <3>2. ~(i > first)
      BY <1>8, <1>9, <2>1
    <3> QED BY <1>3, <3>1, <3>2
  <2>2. CASE i > n - k
    <3>1. i - (n - k) \in 1 .. k /\ n - k + (i - (n - k)) = i
      BY <2>2
    <3>2. kept[i - (n - k)] = all[i]
      BY <1>2, <3>1
    <3>3. all[i].ts >= c <=> i - (n - k) >= m
      BY <1>5, <3>1, <3>2
    <3>4. i - (n - k) >= m <=> i > first
      BY <1>5, <1>8
    <3>5. i > n - max
      BY <1>2, <2>2
    <3> QED BY <3>3, <3>4, <3>5
  <2> QED BY <2>1, <2>2
<1>13. PICK inWindow : inWindow = Recent(all, now)
  OBVIOUS
<1>14. inWindow = first + 1 .. n
  <2>1. \A i : i \in inWindow <=> (i \in 1 .. n /\ i > n - max /\ all[i].ts >= c)
    BY <1>1, <1>3, <1>13 DEF Recent
  <2>2. \A i : i \in inWindow <=> (i \in 1 .. n /\ i > first)
    BY <1>12, <2>1
  <2>3. \A i : (i \in 1 .. n /\ i > first) <=> i \in first + 1 .. n
    BY <1>8
  <2> QED BY <2>2, <2>3
<1>15. Cardinality(inWindow) = j
  <2>1. first + 1 \in Int /\ n \in Int /\ first + 1 <= n + 1
    BY <1>8, <1>9
  <2>2. Cardinality(first + 1 .. n) = IF first + 1 > n THEN 0 ELSE n - (first + 1) + 1
    BY <2>1, FS_Interval
  <2>3. Cardinality(first + 1 .. n) = j
    BY <1>8, <1>9, <2>1, <2>2
  <2> QED BY <1>14, <2>3
<1>16. { buf[i] : i \in DOMAIN buf } = { all[i] : i \in inWindow }
  <2>1. DOMAIN buf = 1 .. j
    BY <1>7, <1>9
  <2>2. ASSUME NEW i \in 1 .. j PROVE buf[i] \in { all[l] : l \in inWindow }
    <3>1. first + i \in first + 1 .. n
      BY <1>8, <1>9
    <3> QED BY <1>10, <1>14, <3>1
  <2>3. ASSUME NEW i \in inWindow PROVE all[i] \in { buf[l] : l \in 1 .. j }
    <3>1. i - first \in 1 .. j /\ first + (i - first) = i
      BY <1>8, <1>14
    <3> QED BY <1>10, <3>1
  <2> QED BY <2>1, <2>2, <2>3
<1> QED BY <1>9, <1>13, <1>15, <1>16 DEF EntriesAt
==============================================================================
