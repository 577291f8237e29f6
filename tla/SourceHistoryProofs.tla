-------------------------- MODULE SourceHistoryProofs ------------------------
(****************************************************************************)
(* One source history under any calls, for every window, bound, set of      *)
(* sources and times: deques stay within their bound and hold a run of the  *)
(* latest entries recorded for their source, and while the times of the     *)
(* calls do not go back, a query is answered as by a scan of everything.    *)
(****************************************************************************)
EXTENDS SourceHistorySpec, SourceHistoryLemmas

LEMMA RecordCallArguments ==
  ASSUME TypeOK, NEW src \in Sources, NEW target \in Targets, NEW t \in Times
  PROVE  /\ src \in Int /\ target[1] \in Int /\ target[2] \in Int
         /\ t \in Nat
         /\ IsHistory(entries)
BY SourceHistorySpecAssumption DEF Times, TypeOK, IsHistory

------------------------------------------------------------------------------

(* Whatever the calls, the deques hold entries and the answers are counts   *)
(* (flow_builder.py:73-124).                                                *)
THEOREM HistoryTypeOK == Spec => []TypeOK
<1>1. Init => TypeOK
  <2> SUFFICES ASSUME Init PROVE TypeOK
    OBVIOUS
  <2>1. answer \in [dest_fanout : Nat, port_fanout : Nat, flow_count : Nat]
    <3>1. <<>> \in Seq(Entry)
      OBVIOUS
    <3> QED BY <3>1, CountsType DEF Init
  <2> QED BY <2>1 DEF Init, TypeOK, EmptyHistory
<1>2. TypeOK /\ [Next]_vars => TypeOK'
  <2> SUFFICES ASSUME TypeOK, [Next]_vars PROVE TypeOK'
    OBVIOUS
  <2>1. ASSUME NEW src \in Sources, NEW t \in Times, NEW target \in Targets,
               CallRecord(src, target, t)
        PROVE  TypeOK'
    <3>1. /\ src \in Int /\ target[1] \in Int /\ target[2] \in Int /\ t \in Int
          /\ IsHistory(entries)
      BY RecordCallArguments
    <3>2. entries' = RecordNewFlow(entries, src, target[1], target[2], t)
      BY <2>1 DEF CallRecord
    <3>3. IsHistory(RecordNewFlow(entries, src, target[1], target[2], t))
      BY <3>1, RecordType
    <3>4. DOMAIN RecordNewFlow(entries, src, target[1], target[2], t)
            = DOMAIN entries \cup {src}
      BY DEF RecordNewFlow
    <3>5. [ts |-> t, dst_ip |-> target[1], dst_port |-> target[2]] \in Entry
      BY RecordCallArguments DEF Entry
    <3>6. recorded' \in [Sources -> Seq(Entry)]
      BY <2>1, <3>5 DEF CallRecord, TypeOK
    <3>7. t \in Nat
      BY DEF Times
    <3> QED BY <2>1, <3>2, <3>4, <3>3, <3>6, <3>7 DEF CallRecord, At, TypeOK, IsHistory
  <2>2. ASSUME NEW src \in Sources, NEW t \in Times, CallStats(src, t)
        PROVE  TypeOK'
    <3>1. t \in Nat /\ IsHistory(entries)
      BY DEF Times, TypeOK, IsHistory
    <3>2. /\ IsHistory(Prune(entries, src, t))
          /\ DOMAIN Prune(entries, src, t) = DOMAIN entries
      BY <3>1, PruneType
    <3>3. Deque(Prune(entries, src, t), src) \in Seq(Entry)
      BY <3>2 DEF Deque, IsHistory
    <3>4. answer' \in [dest_fanout : Nat, port_fanout : Nat, flow_count : Nat]
      BY <2>2, <3>3, CountsType DEF CallStats, Stats
    <3> QED BY <2>2, <3>1, <3>2, <3>4 DEF CallStats, At, TypeOK, IsHistory
  <2>3. CASE UNCHANGED vars
    BY <2>3 DEF vars, TypeOK
  <2> QED BY <2>1, <2>2, <2>3 DEF Next
<1> QED BY <1>1, <1>2, PTL DEF Spec

(* However fast a source opens flows, its deque stays within the bound      *)
(* (flow_builder.py:29-32).                                                 *)
THEOREM HistoryBounded == Spec => []BoundedHistory
<1>1. Init => BoundedHistory
  BY DEF Init, BoundedHistory, EmptyHistory
<1>2. TypeOK /\ BoundedHistory /\ [Next]_vars => BoundedHistory'
  <2> SUFFICES ASSUME TypeOK, BoundedHistory, [Next]_vars PROVE BoundedHistory'
    OBVIOUS
  <2>0. WithinBound(entries)
    BY DEF WithinBound, BoundedHistory
  <2>1. ASSUME NEW src \in Sources, NEW t \in Times, NEW target \in Targets,
               CallRecord(src, target, t)
        PROVE  BoundedHistory'
    <3>1. /\ src \in Int /\ target[1] \in Int /\ target[2] \in Int /\ t \in Int
          /\ IsHistory(entries)
      BY RecordCallArguments
    <3>2. WithinBound(RecordNewFlow(entries, src, target[1], target[2], t))
      BY <2>0, <3>1, RecordType
    <3>3. entries' = RecordNewFlow(entries, src, target[1], target[2], t)
      BY <2>1 DEF CallRecord
    <3> QED BY <3>2, <3>3 DEF WithinBound, BoundedHistory
  <2>2. ASSUME NEW src \in Sources, NEW t \in Times, CallStats(src, t)
        PROVE  BoundedHistory'
    <3>1. t \in Nat /\ IsHistory(entries)
      BY DEF Times, TypeOK, IsHistory
    <3>2. WithinBound(entries')
      BY <2>0, <2>2, <3>1, PruneType DEF CallStats
    <3> QED BY <3>2 DEF WithinBound, BoundedHistory
  <2>3. CASE UNCHANGED vars
    BY <2>3 DEF vars, BoundedHistory
  <2> QED BY <2>1, <2>2, <2>3 DEF Next
<1> QED BY <1>1, <1>2, HistoryTypeOK, PTL DEF Spec

------------------------------------------------------------------------------
(* What is kept of what was recorded.                                       *)

(* `kept` is the part of `all` from some index on.                          *)
IsSuffix(kept, all) ==
  \E k \in 1 .. Len(all) + 1 : kept = SubSeq(all, k, Len(all))

LEMMA SuffixOfSuffix ==
  ASSUME NEW all \in Seq(Entry), NEW mid, NEW kept,
         IsSuffix(mid, all), IsSuffix(kept, mid)
  PROVE  IsSuffix(kept, all)
<1>1. PICK k \in 1 .. Len(all) + 1 : mid = SubSeq(all, k, Len(all))
  BY DEF IsSuffix
<1>2. \A i \in k .. Len(all) : all[i] \in Entry
  BY <1>1
<1>3. Len(all) \in Nat
  OBVIOUS
<1>4. /\ mid \in Seq(Entry)
      /\ Len(mid) = IF k <= Len(all) THEN Len(all) - k + 1 ELSE 0
      /\ \A i \in 1 .. Len(mid) : mid[i] = all[k + i - 1]
  BY <1>1, <1>2, <1>3, SubSeqProperties
<1>5. Len(mid) = Len(all) - k + 1
  BY <1>1, <1>3, <1>4
<1>6. PICK j \in 1 .. Len(mid) + 1 : kept = SubSeq(mid, j, Len(mid))
  BY DEF IsSuffix
<1>7. /\ kept \in Seq(Entry)
      /\ Len(kept) = IF j <= Len(mid) THEN Len(mid) - j + 1 ELSE 0
      /\ \A i \in 1 .. Len(kept) : kept[i] = mid[j + i - 1]
  BY <1>4, <1>6, SubSeqProperties
<1> DEFINE m == k + j - 1
           rest == SubSeq(all, m, Len(all))
<1>8. m \in 1 .. Len(all) + 1 /\ j \in Int /\ k \in Int
  BY <1>1, <1>3, <1>5, <1>6
<1>9. /\ rest \in Seq(Entry)
      /\ Len(rest) = IF m <= Len(all) THEN Len(all) - m + 1 ELSE 0
      /\ \A i \in 1 .. Len(rest) : rest[i] = all[m + i - 1]
  BY <1>3, <1>8, SubSeqProperties
<1>10. Len(rest) = Len(kept)
  BY <1>3, <1>5, <1>7, <1>8, <1>9
<1>11. ASSUME NEW i \in 1 .. Len(kept) PROVE kept[i] = rest[i]
  <2>1. j + i - 1 \in 1 .. Len(mid)
    BY <1>3, <1>5, <1>6, <1>7, <1>8
  <2>2. k + (j + i - 1) - 1 = m + i - 1
    BY <1>8
  <2> QED BY <1>4, <1>7, <1>9, <1>10, <2>1, <2>2
<1> HIDE DEF rest, m
<1>12. kept = rest
  BY <1>7, <1>9, <1>10, <1>11, SeqEqual
<1> QED BY <1>8, <1>12 DEF IsSuffix, rest

LEMMA AppendToSuffix ==
  ASSUME NEW all \in Seq(Entry), NEW kept, IsSuffix(kept, all), NEW e \in Entry
  PROVE  IsSuffix(Append(kept, e), Append(all, e))
<1> DEFINE new == Append(all, e)
<1>1. PICK k \in 1 .. Len(all) + 1 : kept = SubSeq(all, k, Len(all))
  BY DEF IsSuffix
<1>2. /\ Len(all) \in Nat
      /\ kept \in Seq(Entry)
      /\ Len(kept) = Len(all) - k + 1
      /\ \A i \in 1 .. Len(kept) : kept[i] = all[k + i - 1]
  BY <1>1, SubSeqProperties
<1>3. /\ new \in Seq(Entry) /\ Len(new) = Len(all) + 1
      /\ \A i \in 1 .. Len(all) : new[i] = all[i]
      /\ new[Len(all) + 1] = e
  BY AppendProperties
<1>4. /\ Append(kept, e) \in Seq(Entry) /\ Len(Append(kept, e)) = Len(kept) + 1
      /\ \A i \in 1 .. Len(kept) : Append(kept, e)[i] = kept[i]
      /\ Append(kept, e)[Len(kept) + 1] = e
  BY <1>2, AppendProperties
<1> HIDE DEF new
<1> DEFINE rest == SubSeq(new, k, Len(new))
<1>5. /\ rest \in Seq(Entry)
      /\ Len(rest) = Len(new) - k + 1
      /\ \A i \in 1 .. Len(rest) : rest[i] = new[k + i - 1]
  BY <1>1, <1>2, <1>3, SubSeqProperties
<1>6. Len(rest) = Len(Append(kept, e))
  BY <1>1, <1>2, <1>3, <1>4, <1>5
<1>7. ASSUME NEW i \in 1 .. Len(rest) PROVE rest[i] = Append(kept, e)[i]
  <2>1. CASE i = Len(kept) + 1
    <3>1. k + i - 1 = Len(all) + 1
      BY <1>1, <1>2, <2>1
    <3> QED BY <1>3, <1>4, <1>5, <2>1, <3>1
  <2>2. CASE i # Len(kept) + 1
    <3>1. i \in 1 .. Len(kept) /\ k + i - 1 \in 1 .. Len(all)
      <4>1. i \in Nat /\ 1 <= i /\ i <= Len(kept) + 1 /\ Len(kept) \in Nat /\ k \in Nat
        BY <1>2, <1>4, <1>6
      <4> HIDE DEF rest
      <4> QED BY <1>1, <1>2, <2>2, <4>1
    <3> QED BY <1>2, <1>3, <1>4, <1>5, <3>1
  <2> QED BY <2>1, <2>2
<1> HIDE DEF rest
<1>8. Append(kept, e) = rest
  BY <1>4, <1>5, <1>6, <1>7, SeqEqual
<1>9. k \in 1 .. Len(new) + 1
  BY <1>1, <1>2, <1>3
<1> QED BY <1>8, <1>9 DEF IsSuffix, rest, new

LEMMA TailIsSuffix ==
  ASSUME NEW s \in Seq(Entry), s # <<>>
  PROVE  IsSuffix(Tail(s), s)
<1>1. Tail(s) = SubSeq(s, 2, Len(s)) /\ Len(s) \in Nat /\ Len(s) >= 1
  BY TailIsSubSeq, EmptySeq
<1> QED BY <1>1 DEF IsSuffix

LEMMA EmptyIsSuffix ==
  ASSUME NEW s \in Seq(Entry)
  PROVE  IsSuffix(<<>>, s)
<1>1. Len(s) \in Nat /\ Len(s) + 1 \in 1 .. Len(s) + 1
  OBVIOUS
<1>2. SubSeq(s, Len(s) + 1, Len(s)) = <<>>
  BY <1>1, SubSeqEmpty
<1> QED BY <1>1, <1>2 DEF IsSuffix

(* A call of record_new_flow keeps a run of the latest entries.             *)
LEMMA RecordKeepsSuffix ==
  ASSUME TypeOK, SuffixOfRecorded,
         NEW src \in Sources, NEW t \in Times, NEW target \in Targets,
         CallRecord(src, target, t)
  PROVE  SuffixOfRecorded'
<1> DEFINE e == [ts |-> t, dst_ip |-> target[1], dst_port |-> target[2]]
           old == Deque(entries, src)
           buf == Append(old, e)
           new == IF Len(buf) > max_entries THEN Tail(buf) ELSE buf
<1>1. e \in Entry /\ recorded[src] \in Seq(Entry)
  BY RecordCallArguments DEF Entry, TypeOK
<1>2. old \in Seq(Entry) /\ IsSuffix(old, recorded[src])
  <2>1. CASE src \in DOMAIN entries
    BY <2>1 DEF Deque, TypeOK, SuffixOfRecorded, IsSuffix
  <2>2. CASE src \notin DOMAIN entries
    BY <1>1, <2>2, EmptyIsSuffix DEF Deque
  <2> QED BY <2>1, <2>2
<1>3. /\ entries' = [s \in DOMAIN entries \cup {src} |-> IF s # src THEN entries[s] ELSE new]
      /\ recorded' = [recorded EXCEPT ![src] = Append(recorded[src], e)]
      /\ recorded \in [Sources -> Seq(Entry)]
  BY DEF CallRecord, RecordNewFlow, TypeOK
<1> HIDE DEF e, old
<1>4. buf \in Seq(Entry) /\ buf # <<>> /\ Append(recorded[src], e) \in Seq(Entry)
  BY <1>1, <1>2, AppendProperties
<1>5. IsSuffix(buf, Append(recorded[src], e))
  BY <1>1, <1>2, AppendToSuffix
<1> HIDE DEF buf
<1>6. IsSuffix(new, Append(recorded[src], e))
  BY <1>4, <1>5, TailIsSuffix, SuffixOfSuffix
<1> HIDE DEF new
<1>7. ASSUME NEW s \in DOMAIN entries' PROVE IsSuffix(entries'[s], recorded'[s])
  <2>1. CASE s = src
    BY <1>3, <1>6, <2>1
  <2>2. CASE s # src
    BY <1>3, <2>2 DEF TypeOK, SuffixOfRecorded, IsSuffix
  <2> QED BY <2>1, <2>2
<1> QED BY <1>7 DEF SuffixOfRecorded, IsSuffix

(* A call of stats keeps one too, of the source it prunes and of every      *)
(* other.                                                                   *)
LEMMA StatsKeepsSuffix ==
  ASSUME TypeOK, SuffixOfRecorded,
         NEW src \in Sources, NEW t \in Times, CallStats(src, t)
  PROVE  SuffixOfRecorded'
<1>1. t - window_sec \in Int
  BY SourceHistoryAssumption DEF Times
<1>2. /\ entries' = [s \in DOMAIN entries |->
                       IF s = src THEN DropOld(entries[s], t - window_sec) ELSE entries[s]]
      /\ recorded' = recorded
  BY DEF CallStats, Prune
<1>3. ASSUME NEW s \in DOMAIN entries' PROVE IsSuffix(entries'[s], recorded'[s])
  <2>1. /\ s \in DOMAIN entries /\ entries[s] \in Seq(Entry)
        /\ recorded[s] \in Seq(Entry) /\ IsSuffix(entries[s], recorded[s])
    BY <1>2 DEF TypeOK, SuffixOfRecorded, IsSuffix
  <2>2. IsSuffix(DropOld(entries[s], t - window_sec), entries[s])
    BY <1>1, <2>1, DropOldIsSuffix DEF IsSuffix
  <2> QED BY <1>2, <2>1, <2>2, SuffixOfSuffix
<1> QED BY <1>3 DEF SuffixOfRecorded, IsSuffix

(* Capping and pruning only ever forget the oldest entries of a source      *)
(* (flow_builder.py:86-98): in any order of calls and times, its deque is a *)
(* run of the latest entries recorded for it.                               *)
THEOREM HistoryIsSuffix == Spec => []SuffixOfRecorded
<1>1. Init => SuffixOfRecorded
  BY DEF Init, SuffixOfRecorded, EmptyHistory
<1>2. TypeOK /\ SuffixOfRecorded /\ [Next]_vars => SuffixOfRecorded'
  <2>1. ASSUME SuffixOfRecorded, UNCHANGED vars PROVE SuffixOfRecorded'
    BY <2>1 DEF vars, SuffixOfRecorded
  <2> QED BY <2>1, RecordKeepsSuffix, StatsKeepsSuffix DEF Next
<1> QED BY <1>1, <1>2, HistoryTypeOK, PTL DEF Spec

------------------------------------------------------------------------------
(* Answers in time order                                                    *)

(* While times do not go back, every deque remembers what was recorded.     *)
WindowInv ==
  ordered => \A s \in Sources : Remembers(Deque(entries, s), recorded[s], clock)

(* A call of record_new_flow in time order: the source's deque remembers    *)
(* the new entry, the others what they did.                                 *)
LEMMA WindowRecord ==
  ASSUME TypeOK, WindowInv, NEW src \in Sources, NEW t \in Times, NEW target \in Targets,
         CallRecord(src, target, t)
  PROVE  WindowInv'
<1> SUFFICES ASSUME ordered', NEW s \in Sources
             PROVE  Remembers(Deque(entries, s)', recorded'[s], clock')
  BY DEF WindowInv
<1> DEFINE e == [ts |-> t, dst_ip |-> target[1], dst_port |-> target[2]]
           buf == Append(Deque(entries, src), e)
           new == IF Len(buf) > max_entries THEN Tail(buf) ELSE buf
<1>1. /\ ordered /\ clock \in Nat /\ t \in Nat /\ clock <= t /\ clock' = t
      /\ e \in Entry /\ e.ts = t
  <2>1. ordered /\ t >= clock
    BY Zenon DEF CallRecord, At
  <2>2. clock \in Nat /\ t \in Nat /\ clock' = IF t > clock THEN t ELSE clock
    BY RecordCallArguments DEF CallRecord, At, TypeOK
  <2>3. e \in Entry /\ e.ts = t
    BY RecordCallArguments DEF Entry
  <2> QED BY <2>1, <2>2, <2>3
<1>2. /\ Remembers(Deque(entries, s), recorded[s], clock)
      /\ Deque(entries, s) \in Seq(Entry) /\ recorded[s] \in Seq(Entry)
  BY <1>1 DEF WindowInv, TypeOK, Deque
<1>3. /\ entries' = [a \in DOMAIN entries \cup {src} |-> IF a # src THEN entries[a] ELSE new]
      /\ recorded' = [recorded EXCEPT ![src] = Append(recorded[src], e)]
      /\ recorded \in [Sources -> Seq(Entry)]
  BY DEF CallRecord, RecordNewFlow, TypeOK
<1>4. CASE s = src
  <2>1. Deque(entries, s)' = new
    BY <1>3, <1>4 DEF Deque
  <2>2. recorded'[s] = Append(recorded[s], e)
    BY <1>3, <1>4
  <2>3. Remembers(new, Append(recorded[s], e), e.ts)
    BY <1>1, <1>2, <1>4, RememberedRecord
  <2> QED BY <1>1, <2>1, <2>2, <2>3
<1>5. CASE s # src
  <2>1. Deque(entries, s)' = Deque(entries, s) /\ recorded'[s] = recorded[s]
    BY <1>3, <1>5 DEF Deque
  <2>2. Remembers(Deque(entries, s), recorded[s], t)
    BY <1>1, <1>2, RememberedLater
  <2> QED BY <1>1, <2>1, <2>2
<1> QED BY <1>4, <1>5

(* A call of stats in time order: the source's deque still remembers, and   *)
(* the answer is that of the scan.                                          *)
LEMMA WindowStats ==
  ASSUME TypeOK, WindowInv, NEW src \in Sources, NEW t \in Times,
         CallStats(src, t), ordered'
  PROVE  /\ WindowInv'
         /\ answer' = ScanOf(src, t)
<1> DEFINE d == Deque(entries, src)
           buf == DropOld(d, t - window_sec)
<1>1. ordered /\ clock \in Nat /\ t \in Nat /\ clock <= t /\ clock' = t
  <2>1. ordered /\ t >= clock
    BY Zenon DEF CallStats, At
  <2>2. clock \in Nat /\ t \in Nat /\ clock' = IF t > clock THEN t ELSE clock
    BY DEF CallStats, At, TypeOK, Times
  <2> QED BY <2>1, <2>2
<1>2. \A s \in Sources : /\ Remembers(Deque(entries, s), recorded[s], clock)
                         /\ Deque(entries, s) \in Seq(Entry)
                         /\ recorded[s] \in Seq(Entry)
  BY <1>1 DEF WindowInv, TypeOK, Deque
<1>3. /\ entries' = [s \in DOMAIN entries |->
                       IF s = src THEN DropOld(entries[s], t - window_sec) ELSE entries[s]]
      /\ recorded' = recorded
  BY DEF CallStats, Prune
<1>4. /\ Remembers(buf, recorded[src], t)
      /\ Len(buf) = Cardinality(Recent(recorded[src], t))
      /\ EntriesAt(buf, DOMAIN buf) = EntriesAt(recorded[src], Recent(recorded[src], t))
  <2>1. /\ d \in Seq(Entry) /\ recorded[src] \in Seq(Entry)
        /\ Remembers(d, recorded[src], clock) /\ clock \in Int /\ t \in Int
        /\ clock <= t /\ t <= t /\ buf = DropOld(d, t - window_sec)
    BY <1>1, <1>2
  <2> HIDE DEF d, buf
  <2> QED BY <2>1, RememberedStats
<1>5. Deque(entries', src) = buf
  <2>1. CASE src \in DOMAIN entries
    BY <1>3, <2>1 DEF Deque
  <2>2. CASE src \notin DOMAIN entries
    <3>1. d = <<>> /\ Deque(entries', src) = <<>>
      BY <1>3, <2>2 DEF Deque
    <3>2. Len(buf) <= Len(d) /\ buf \in Seq(Entry)
      <4>1. d \in Seq(Entry) /\ t - window_sec \in Int
        BY <1>1, <1>2, SourceHistoryAssumption
      <4> QED BY <4>1, DropOldType
    <3>3. Len(buf) = 0
      BY <3>1, <3>2
    <3> QED BY <3>1, <3>2, <3>3, EmptySeq
  <2> QED BY <2>1, <2>2
<1>6. ASSUME NEW s \in Sources
      PROVE  Remembers(Deque(entries, s)', recorded'[s], clock')
  <2>1. CASE s = src
    BY <1>1, <1>3, <1>4, <1>5, <2>1
  <2>2. CASE s # src
    <3>1. Deque(entries, s)' = Deque(entries, s)
      BY <1>3, <2>2 DEF Deque
    <3>2. Remembers(Deque(entries, s), recorded[s], t)
      BY <1>1, <1>2, RememberedLater
    <3> QED BY <1>1, <1>3, <3>1, <3>2
  <2> QED BY <2>1, <2>2
<1>7. answer' = CountsOf(buf)
  BY <1>3, <1>5 DEF CallStats, Stats
<1> HIDE DEF buf
<1>8. CountsOf(buf) = ScanOf(src, t)
  <2>1. InWindow(src, t) = Recent(recorded[src], t)
    BY DEF InWindow, Recent
  <2> QED BY <1>4, <2>1 DEF CountsOf, ScanOf, EntriesAt
<1> QED BY <1>6, <1>7, <1>8 DEF WindowInv

LEMMA WindowStep == TypeOK /\ WindowInv /\ [Next]_vars => WindowInv'
<1> SUFFICES ASSUME TypeOK, WindowInv, [Next]_vars PROVE WindowInv'
  OBVIOUS
<1>1. CASE UNCHANGED vars
  BY <1>1 DEF vars, WindowInv, Deque
<1>2. ASSUME NEW src \in Sources, NEW t \in Times, CallStats(src, t) PROVE WindowInv'
  <2>1. CASE ordered'
    BY <1>2, <2>1, WindowStats
  <2>2. CASE ~ordered'
    BY <2>2 DEF WindowInv
  <2> QED BY <2>1, <2>2
<1> QED BY <1>1, <1>2, WindowRecord DEF Next

LEMMA WindowInvariance == Spec => []WindowInv
<1>1. Init => WindowInv
  <2> SUFFICES ASSUME Init, NEW s \in Sources
               PROVE  Remembers(Deque(entries, s), recorded[s], clock)
    BY DEF WindowInv
  <2>1. Deque(entries, s) = <<>> /\ recorded[s] = <<>>
    BY DEF Init, EmptyHistory, Deque
  <2> QED BY <2>1, SourceHistoryAssumption DEF Remembers, Sorted
<1> QED BY <1>1, WindowStep, HistoryTypeOK, PTL DEF Spec

(* While the times of the calls do not go back, stats answers what a scan   *)
(* of everything ever recorded for the source would                         *)
(* (flow_builder.py:92-107).                                                *)
THEOREM AnswersAreScans == Spec => AnswerExact
<1>1. TypeOK /\ WindowInv /\ [Next]_vars =>
        [\A src \in Sources, t \in Times :
           ordered' /\ CallStats(src, t) => answer' = ScanOf(src, t)]_vars
  BY WindowStats
<1> QED BY <1>1, HistoryTypeOK, WindowInvariance, PTL DEF Spec, AnswerExact
==============================================================================
