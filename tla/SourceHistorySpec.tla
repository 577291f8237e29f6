-------------------------- MODULE SourceHistorySpec --------------------------
(****************************************************************************)
(* One _SourceHistory object under any sequence of calls of its two public  *)
(* methods.  `recorded`, `clock` and `ordered` are history variables: every *)
(* entry ever recorded, in call order, the latest time any call was given,  *)
(* and whether no call's time was before that of an earlier one.            *)
(****************************************************************************)
EXTENDS SourceHistory

CONSTANTS
  Sources,      \* source addresses that open flows
  Targets,      \* <<dst_ip, dst_port>> pairs of the flows they open
  MaxTime,      \* bound: largest time a call is given
  MaxRecords,   \* bound: entries recorded in all
  Reorder       \* how far behind the latest time a call's time may be

ASSUME SourceHistorySpecAssumption ==
  /\ Sources \subseteq Int
  /\ Targets \subseteq Int \X Int
  /\ MaxTime \in Nat /\ MaxRecords \in Nat /\ Reorder \in Nat

VARIABLES
  entries,      \* self._entries
  answer,       \* what the latest call of stats returned
  recorded,     \* history: source -> every entry recorded for it
  calls,        \* history: number of entries recorded
  clock,        \* history: the latest time of a call
  ordered       \* history: the times of the calls never went back

vars == <<entries, answer, recorded, calls, clock, ordered>>

Times == { t \in 0 .. MaxTime : t >= clock - Reorder }

Init ==
  /\ entries = EmptyHistory
  /\ answer = CountsOf(<<>>)
  /\ recorded = [s \in Sources |-> <<>>]
  /\ calls = 0
  /\ clock = 0
  /\ ordered = TRUE

At(t) ==
  /\ clock' = IF t > clock THEN t ELSE clock
  /\ ordered' = (ordered /\ t >= clock)

CallRecord(src, target, ts) ==
  /\ calls < MaxRecords
  /\ entries' = RecordNewFlow(entries, src, target[1], target[2], ts)
  /\ recorded' = [recorded EXCEPT ![src] =
                    Append(@, [ts |-> ts, dst_ip |-> target[1], dst_port |-> target[2]])]
  /\ calls' = calls + 1
  /\ At(ts)
  /\ UNCHANGED answer

CallStats(src, now) ==
  /\ entries' = Prune(entries, src, now)
  /\ answer' = Stats(entries, src, now)
  /\ At(now)
  /\ UNCHANGED <<recorded, calls>>

Next ==
  \E src \in Sources, t \in Times :
    \/ \E target \in Targets : CallRecord(src, target, t)
    \/ CallStats(src, t)

Spec == Init /\ [][Next]_vars

------------------------------------------------------------------------------

(* Every value of the state lies in its type, and the entries were counted. *)
TypeOK ==
  /\ DOMAIN entries \subseteq Sources
  /\ \A s \in DOMAIN entries : entries[s] \in Seq(Entry)
  /\ recorded \in [Sources -> Seq(Entry)]
  /\ answer \in [dest_fanout : Nat, port_fanout : Nat, flow_count : Nat]
  /\ calls \in Nat
  /\ clock \in Nat
  /\ ordered \in BOOLEAN

(* The deque of a source never exceeds its bound, however fast the source   *)
(* opens flows (flow_builder.py:29-32).                                     *)
BoundedHistory == \A s \in DOMAIN entries : Len(entries[s]) <= max_entries

(* What is kept for a source is a run of its latest recorded entries:       *)
(* capping and pruning only ever forget the oldest, never reorder, never    *)
(* mix two sources and never leave a hole, in any order of calls and times. *)
SuffixOfRecorded ==
  \A s \in DOMAIN entries :
    \E k \in 1 .. Len(recorded[s]) + 1 :
      entries[s] = SubSeq(recorded[s], k, Len(recorded[s]))

(* The reference meaning of a query, a scan of everything ever recorded for *)
(* the source: where it has the entries that count, which are those of the  *)
(* last max_entries that are not older than the window, and what they show. *)
InWindow(src, now) ==
  { i \in DOMAIN recorded[src] :
      /\ i > Len(recorded[src]) - max_entries
      /\ recorded[src][i].ts >= now - window_sec }

ScanOf(src, now) ==
  LET seen == { recorded[src][i] : i \in InWindow(src, now) }
  IN  [dest_fanout |-> Cardinality({ e.dst_ip : e \in seen }),
       port_fanout |-> Cardinality({ e.dst_port : e \in seen } \ {NoPort}),
       flow_count  |-> Cardinality(InWindow(src, now))]

(* While the calls come in time order, stats answers exactly what a scan of *)
(* everything ever recorded would: the incremental deque loses nothing that *)
(* is still in the window and counts nothing that has left it.              *)
AnswerExact ==
  [][\A src \in Sources, t \in Times :
       ordered' /\ CallStats(src, t) => answer' = ScanOf(src, t)]_vars

(* ingest/README.md:147-151, "per-source behavioral history is capped +     *)
(* TTL-pruned ... None of these dictionaries grow without bound": a source  *)
(* of which nothing is left in the window leaves the dict.  _prune never    *)
(* deletes a key: MCSourceKeys.cfg refutes it.                              *)
LiveSourcesOnly == \A s \in DOMAIN entries : entries[s] # <<>>
==============================================================================
