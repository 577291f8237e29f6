---------------------------- MODULE SourceHistory ----------------------------
(****************************************************************************)
(* The per-source behaviour tracker of the flow builder: class              *)
(* _SourceHistory of ingest/flow_builder.py.                                *)
(*                                                                          *)
(* A history is the dict `_entries`: a function from the source addresses   *)
(* it has a key for to deques (sequences) of entries, oldest first.  The    *)
(* operators below are the methods of the class as functions of that dict.  *)
(* Addresses, ports and times are numbers; NoPort stands for None.          *)
(****************************************************************************)
EXTENDS Integers, Sequences, FiniteSets

CONSTANTS
  window_sec,   \* config.source_history_window_sec
  max_entries   \* config.max_source_history_entries

ASSUME SourceHistoryAssumption ==
  /\ window_sec \in Nat
  /\ max_entries \in Nat

NoPort == -1

Entry == [ts : Int, dst_ip : Int, dst_port : Int]

(* self._entries before any flow was recorded: no key at all. *)
EmptyHistory == [src \in {} |-> <<>>]

(* dict.get(src_ip, deque()): a source without a key has an empty deque. *)
Deque(entries, src) == IF src \in DOMAIN entries THEN entries[src] ELSE <<>>

(* Mutant: the entry is filed under the destination. *)
RecordUnderTarget(entries, src, dst, port, ts) ==
  [s \in DOMAIN entries \cup {dst} |->
     IF s # dst THEN entries[s]
     ELSE Append(Deque(entries, dst), [ts |-> ts, dst_ip |-> src, dst_port |-> port])]

(* Mutant: the bound is off by one. *)
RecordOneMore(entries, src, dst, port, ts) ==
  LET buf == Append(Deque(entries, src), [ts |-> ts, dst_ip |-> dst, dst_port |-> port])
  IN  [s \in DOMAIN entries \cup {src} |->
         IF s # src THEN entries[s]
         ELSE IF Len(buf) > max_entries + 1 THEN Tail(buf) ELSE buf]

(* Mutant: a full deque drops an entry from the wrong end. *)
RecordDropsNewest(entries, src, dst, port, ts) ==
  LET buf == Append(Deque(entries, src), [ts |-> ts, dst_ip |-> dst, dst_port |-> port])
  IN  [s \in DOMAIN entries \cup {src} |->
         IF s # src THEN entries[s]
         ELSE IF Len(buf) > max_entries THEN SubSeq(buf, 1, max_entries) ELSE buf]

(* record_new_flow: append at the right, drop the leftmost when too long. *)
RecordNewFlow(entries, src, dst, port, ts) ==
  LET buf == Append(Deque(entries, src), [ts |-> ts, dst_ip |-> dst, dst_port |-> port])
  IN  [s \in DOMAIN entries \cup {src} |->
         IF s # src THEN entries[s]
         ELSE IF Len(buf) > max_entries THEN Tail(buf) ELSE buf]

(* Mutant: an entry at the cutoff is dropped too. *)
DropOldAndCutoff(buf, cutoff) ==
  LET kept == { i \in DOMAIN buf : \E j \in 1 .. i : buf[j].ts > cutoff }
  IN  SubSeq(buf, Len(buf) - Cardinality(kept) + 1, Len(buf))

(* The loop of _prune on one deque: drop entries from the left while the    *)
(* leftmost is older than the cutoff, and stop at the first that is not.    *)
(* An entry stays when it, or one to its left, is not older.                *)
DropOld(buf, cutoff) ==
  LET kept == { i \in DOMAIN buf : \E j \in 1 .. i : buf[j].ts >= cutoff }
  IN  SubSeq(buf, Len(buf) - Cardinality(kept) + 1, Len(buf))

(* _prune: returns early for a source with no key or an empty deque; the    *)
(* key itself stays, also when its deque becomes empty.                     *)
Prune(entries, src, now) ==
  [s \in DOMAIN entries |->
     IF s = src THEN DropOld(entries[s], now - window_sec) ELSE entries[s]]

(* The dict returned by stats once the deque is pruned. *)
CountsOf(buf) ==
  LET seen == { buf[i] : i \in DOMAIN buf }
  IN  [dest_fanout |-> Cardinality({ e.dst_ip : e \in seen }),
       port_fanout |-> Cardinality({ e.dst_port : e \in seen } \ {NoPort}),
       flow_count  |-> Len(buf)]

Stats(entries, src, now) == CountsOf(Deque(Prune(entries, src, now), src))
==============================================================================
