----------------------------- MODULE FlowBuilder -----------------------------
(****************************************************************************)
(* The flow table: class FlowBuilder of ingest/flow_builder.py, which turns *)
(* a stream of packets into flows, one packet at a time.                    *)
(*                                                                          *)
(* A packet is a header and a timestamp.  Addresses and ports are numbers   *)
(* (only their order matters: it chooses the canonical endpoint), times are *)
(* integers, and byte counts, DNS and TLS fields are left out: they are     *)
(* carried along with packet_count and never steer the code.                *)
(****************************************************************************)
EXTENDS SourceHistory

CONSTANTS
  Headers,              \* headers of the packets that can arrive
  tcp_flow_timeout, udp_flow_timeout, general_flow_timeout,
  max_active_flows,     \* config.max_active_flows
  max_history_per_flow, \* config.max_history_per_flow
  Times,                \* the times calls are given
  MaxPackets            \* bound: packets delivered in all

Protocols == {"TCP", "UDP", "ICMP", "OTHER"}
Endpoint == Int \X Int        \* (ip, port)

Header == [src : Endpoint, dst : Endpoint, protocol : Protocols,
           tcp_flags : SUBSET {"F", "R"}]

(* min() over an empty table raises: a capacity of zero is not a usable     *)
(* configuration.                                                           *)
ASSUME FlowBuilderAssumption ==
  /\ Headers \subseteq Header
  /\ tcp_flow_timeout \in Nat /\ udp_flow_timeout \in Nat
  /\ general_flow_timeout \in Nat
  /\ max_active_flows \in Nat \ {0}
  /\ max_history_per_flow \in Nat
  /\ Times \subseteq Int
  /\ MaxPackets \in Nat

VARIABLES
  active_flows,          \* canonical key -> FlowState
  flow_counter,          \* self._flow_counter
  source_history,        \* self.source_history._entries
  total_flows_created, total_flows_finalized, capacity_evictions,
  returned,              \* the list the latest call returned
  log,                   \* history: every packet, with the flow it went to
  closed                 \* history: the flows calls have returned so far

builderVars == <<active_flows, flow_counter, source_history, total_flows_created,
                 total_flows_finalized, capacity_evictions>>
vars == <<builderVars, returned, log, closed>>

------------------------------------------------------------------------------

(* The order Python gives two (ip, port) tuples. *)
Leq(a, b) == a[1] < b[1] \/ (a[1] = b[1] /\ a[2] <= b[2])

(* normalize_flow_key: without ports the address alone is the endpoint. *)
KeyEndpoint(e, protocol) ==
  IF protocol \in {"TCP", "UDP"} THEN e ELSE <<e[1], NoPort>>

IsForward(h) == Leq(KeyEndpoint(h.src, h.protocol), KeyEndpoint(h.dst, h.protocol))

(* Mutant: a key per direction. *)
DirectedKey(h) ==
  [a |-> KeyEndpoint(h.src, h.protocol), b |-> KeyEndpoint(h.dst, h.protocol),
   protocol |-> h.protocol]

CanonicalKey(h) ==
  LET s == KeyEndpoint(h.src, h.protocol)
      d == KeyEndpoint(h.dst, h.protocol)
  IN  [a |-> IF IsForward(h) THEN s ELSE d,
       b |-> IF IsForward(h) THEN d ELSE s,
       protocol |-> h.protocol]

Key == [a : Endpoint, b : Endpoint, protocol : Protocols]

TimeoutFor(protocol) ==
  CASE protocol = "TCP" -> tcp_flow_timeout
    [] protocol = "UDP" -> udp_flow_timeout
    [] OTHER -> general_flow_timeout

Reasons == {"", "capacity_evict", "tcp_close", "timeout", "flush"}

FlowState ==
  [flow_id : Nat, canonical_key : Key, initiator : Endpoint, responder : Endpoint,
   start_time : Int, last_seen : Int,
   packet_count : Nat, forward_packet_count : Nat, reverse_packet_count : Nat,
   packet_timestamps : Seq(Int), finalize_reason : Reasons]

(* The FlowState that add_packet builds for the first packet of a flow: its *)
(* initiator is the packet's sender only when the packet is "forward".      *)
NewFlow(id, h, ts) ==
  [flow_id |-> id, canonical_key |-> CanonicalKey(h),
   initiator |-> IF IsForward(h) THEN h.src ELSE h.dst,
   responder |-> IF IsForward(h) THEN h.dst ELSE h.src,
   start_time |-> ts, last_seen |-> ts,
   packet_count |-> 0, forward_packet_count |-> 0, reverse_packet_count |-> 0,
   packet_timestamps |-> <<>>, finalize_reason |-> ""]

(* Mutant: the reverse count is taken from a stale total. *)
ApplyWithStaleTotal(flow, h, ts) ==
  LET forward == flow.forward_packet_count + (IF IsForward(h) THEN 1 ELSE 0)
  IN  [flow EXCEPT !.last_seen = ts, !.packet_count = @ + 1,
                   !.forward_packet_count = forward,
                   !.reverse_packet_count = flow.packet_count - forward]

(* Mutant: a full list of timestamps refuses the newest. *)
ApplyDropsNewest(flow, h, ts) ==
  [flow EXCEPT
     !.last_seen = ts,
     !.packet_count = @ + 1,
     !.forward_packet_count = IF IsForward(h) THEN @ + 1 ELSE @,
     !.reverse_packet_count = IF IsForward(h) THEN @ ELSE @ + 1,
     !.packet_timestamps = IF Len(@) < max_history_per_flow THEN Append(@, ts) ELSE @]

(* _apply_packet *)
ApplyPacket(flow, h, ts) ==
  LET stamps == Append(flow.packet_timestamps, ts)
  IN  [flow EXCEPT
         !.last_seen = ts,
         !.packet_count = @ + 1,
         !.forward_packet_count = IF IsForward(h) THEN @ + 1 ELSE @,
         !.reverse_packet_count = IF IsForward(h) THEN @ ELSE @ + 1,
         !.packet_timestamps =
            IF Len(stamps) > max_history_per_flow THEN Tail(stamps) ELSE stamps]

Finalize(flow, reason) == [flow EXCEPT !.finalize_reason = reason]

Without(table, keys) == [k \in DOMAIN table \ keys |-> table[k]]

(* Mutant: the flow that started first is evicted. *)
IsFirstStarted(table, k) ==
  \A j \in DOMAIN table \ {k} : table[k].flow_id < table[j].flow_id

(* The choice of min(active_flows, key=last_seen): the first of the oldest  *)
(* in the dict's insertion order, which is the order of the flow ids.       *)
IsOldest(table, k) ==
  \A j \in DOMAIN table \ {k} :
    \/ table[k].last_seen < table[j].last_seen
    \/ /\ table[k].last_seen = table[j].last_seen
       /\ table[k].flow_id < table[j].flow_id

WithFlow(table, key, flow) ==
  [k \in DOMAIN table \cup {key} |-> IF k = key THEN flow ELSE table[k]]

(* A TCP packet with FIN or RST closes its flow. *)
Closes(h) == h.protocol = "TCP" /\ h.tcp_flags # {}

------------------------------------------------------------------------------

Init ==
  /\ active_flows = [k \in {} |-> 0]
  /\ flow_counter = 0
  /\ source_history = EmptyHistory
  /\ total_flows_created = 0
  /\ total_flows_finalized = 0
  /\ capacity_evictions = 0
  /\ returned = {}
  /\ log = <<>>
  /\ closed = {}

(* Calls return lists in the order of the flow ids (dict order), so a set   *)
(* of flows loses nothing.                                                  *)
Return(flows) ==
  /\ returned' = flows
  /\ closed' = closed \cup flows

(* Mutant: a packet that closes its flow hides the flow evicted for it. *)
DeliverHidesEvicted(table, evicted, flow, h, ts) ==
  LET key == CanonicalKey(h)
      updated == ApplyPacket(flow, h, ts)
  IN  /\ Len(log) < MaxPackets
      /\ log' = Append(log, [header |-> h, ts |-> ts, flow_id |-> flow.flow_id])
      /\ active_flows' = IF Closes(h) THEN Without(table, {key})
                                      ELSE WithFlow(table, key, updated)
      /\ total_flows_finalized' = total_flows_finalized + IF Closes(h) THEN 1 ELSE 0
      /\ Return(IF Closes(h) THEN {Finalize(updated, "tcp_close")} ELSE evicted)

(* Mutant: a closed flow stays in the table. *)
DeliverKeepsClosed(table, evicted, flow, h, ts) ==
  LET updated == ApplyPacket(flow, h, ts)
      done == IF Closes(h) THEN {Finalize(updated, "tcp_close")} ELSE {}
  IN  /\ Len(log) < MaxPackets
      /\ log' = Append(log, [header |-> h, ts |-> ts, flow_id |-> flow.flow_id])
      /\ active_flows' = WithFlow(table, CanonicalKey(h), updated)
      /\ total_flows_finalized' = total_flows_finalized + Cardinality(done)
      /\ Return(evicted \cup done)

(* add_packet once the packet's flow is at hand: apply the packet, close on *)
(* FIN or RST, return what was evicted before and what is closed now.       *)
Deliver(table, evicted, flow, h, ts) ==
  LET key == CanonicalKey(h)
      updated == ApplyPacket(flow, h, ts)
  IN  /\ Len(log) < MaxPackets
      /\ log' = Append(log, [header |-> h, ts |-> ts, flow_id |-> flow.flow_id])
      /\ IF Closes(h)
           THEN /\ active_flows' = Without(table, {key})
                /\ total_flows_finalized' = total_flows_finalized + 1
                /\ Return(evicted \cup {Finalize(updated, "tcp_close")})
           ELSE /\ active_flows' = WithFlow(table, key, updated)
                /\ UNCHANGED total_flows_finalized
                /\ Return(evicted)

(* add_packet for a packet whose flow is in the table. *)
AddToActive(h, ts) ==
  /\ CanonicalKey(h) \in DOMAIN active_flows
  /\ Deliver(active_flows, {}, active_flows[CanonicalKey(h)], h, ts)
  /\ UNCHANGED <<flow_counter, source_history, total_flows_created, capacity_evictions>>

(* The part of add_packet that creates a flow in a table with room for it. *)
CreateFlow(table, evicted, h, ts) ==
  LET flow == NewFlow(flow_counter + 1, h, ts)
  IN  /\ flow_counter' = flow_counter + 1
      /\ total_flows_created' = total_flows_created + 1
      /\ source_history' = RecordNewFlow(source_history, flow.initiator[1],
                                         flow.responder[1], flow.responder[2], ts)
      /\ Deliver(table, evicted, flow, h, ts)

(* add_packet for a new flow, with a free place in the table. *)
OpenFlow(h, ts) ==
  /\ CanonicalKey(h) \notin DOMAIN active_flows
  /\ Cardinality(DOMAIN active_flows) < max_active_flows
  /\ CreateFlow(active_flows, {}, h, ts)
  /\ UNCHANGED capacity_evictions

(* Mutant: the eviction is not counted. *)
EvictUncounted(h, ts) ==
  /\ CanonicalKey(h) \notin DOMAIN active_flows
  /\ Cardinality(DOMAIN active_flows) >= max_active_flows
  /\ \E oldest \in DOMAIN active_flows :
       /\ IsOldest(active_flows, oldest)
       /\ CreateFlow(Without(active_flows, {oldest}),
                     {Finalize(active_flows[oldest], "capacity_evict")}, h, ts)
  /\ UNCHANGED capacity_evictions

(* add_packet for a new flow when _enforce_capacity has to evict first. *)
EvictAndOpen(h, ts) ==
  /\ CanonicalKey(h) \notin DOMAIN active_flows
  /\ Cardinality(DOMAIN active_flows) >= max_active_flows
  /\ \E oldest \in DOMAIN active_flows :
       /\ IsOldest(active_flows, oldest)
       /\ CreateFlow(Without(active_flows, {oldest}),
                     {Finalize(active_flows[oldest], "capacity_evict")}, h, ts)
  /\ capacity_evictions' = capacity_evictions + 1

AddPacket(h, ts) == AddToActive(h, ts) \/ OpenFlow(h, ts) \/ EvictAndOpen(h, ts)

Idle(flow, now) == now - flow.last_seen >= TimeoutFor(flow.canonical_key.protocol)

(* Mutant: the finalized flows are returned but stay in the table. *)
RemoveNothing(keys, reason) ==
  /\ total_flows_finalized' = total_flows_finalized + Cardinality(keys)
  /\ Return({ Finalize(active_flows[k], reason) : k \in keys })
  /\ UNCHANGED <<active_flows, flow_counter, source_history, total_flows_created,
                 capacity_evictions, log>>

(* Mutant: the counter counts the calls that finalized something. *)
RemoveCountsCalls(keys, reason) ==
  /\ active_flows' = Without(active_flows, keys)
  /\ total_flows_finalized' = total_flows_finalized + IF keys = {} THEN 0 ELSE 1
  /\ Return({ Finalize(active_flows[k], reason) : k \in keys })
  /\ UNCHANGED <<flow_counter, source_history, total_flows_created,
                 capacity_evictions, log>>

(* Finalize the flows under the given keys, with the given reason. *)
Remove(keys, reason) ==
  /\ active_flows' = Without(active_flows, keys)
  /\ total_flows_finalized' = total_flows_finalized + Cardinality(keys)
  /\ Return({ Finalize(active_flows[k], reason) : k \in keys })
  /\ UNCHANGED <<flow_counter, source_history, total_flows_created,
                 capacity_evictions, log>>

(* Mutant: idle for longer than the timeout, instead of at least as long. *)
CheckTimeoutsStrictly(now) ==
  Remove({ k \in DOMAIN active_flows :
             now - active_flows[k].last_seen > TimeoutFor(k.protocol) }, "timeout")

CheckTimeouts(now) ==
  Remove({ k \in DOMAIN active_flows : Idle(active_flows[k], now) }, "timeout")

(* flush: an active flow carries no reason yet, so it becomes "flush". *)
Flush == Remove(DOMAIN active_flows, "flush")

(* source_stats: the query prunes the source's deque. *)
SourceStats(src, now) ==
  /\ source_history' = Prune(source_history, src, now)
  /\ UNCHANGED <<active_flows, flow_counter, total_flows_created, total_flows_finalized,
                 capacity_evictions, returned, log, closed>>

Next ==
  \/ \E h \in Headers, ts \in Times : AddPacket(h, ts)
  \/ \E now \in Times : CheckTimeouts(now)
  \/ Flush
  \/ \E h \in Headers, now \in Times :
       \E src \in {h.src[1], h.dst[1]} : SourceStats(src, now)

Spec == Init /\ [][Next]_vars

------------------------------------------------------------------------------

Ids(flows) == { f.flow_id : f \in flows }

Active == { active_flows[k] : k \in DOMAIN active_flows }

(* The positions at which a log has the packets of one flow. *)
PacketsOf(packets, id) == { i \in DOMAIN packets : packets[i].flow_id = id }

IsLeast(i, positions) == i \in positions /\ \A m \in positions : i <= m
IsGreatest(i, positions) == i \in positions /\ \A m \in positions : m <= i

TypeOK ==
  /\ DOMAIN active_flows \subseteq { CanonicalKey(h) : h \in Headers }
  /\ \A k \in DOMAIN active_flows : active_flows[k] \in FlowState
  /\ IsFiniteSet(DOMAIN active_flows)
  /\ flow_counter \in Nat
  /\ total_flows_created \in Nat
  /\ total_flows_finalized \in Nat
  /\ capacity_evictions \in Nat
  /\ \A s \in DOMAIN source_history : source_history[s] \in Seq(Entry)
  /\ returned \subseteq FlowState
  /\ closed \subseteq FlowState
  /\ log \in Seq([header : Headers, ts : Times, flow_id : Nat])

(* The table never exceeds its bound, on any burst of new flows             *)
(* (flow_builder.py:24-28: "never grows an unbounded dict").                *)
CapacityBound == Cardinality(DOMAIN active_flows) <= max_active_flows

(* The counters of pipeline.stats() account for every flow: each one ever   *)
(* created is still active, was finalized, or was evicted for capacity --   *)
(* an evicted flow is not counted as finalized.                             *)
CountersAccount ==
  total_flows_created =
    Cardinality(DOMAIN active_flows) + total_flows_finalized + capacity_evictions

(* Every flow id ever given out names exactly one flow: either one in the   *)
(* table, under one key, or one that a call has returned -- never both,     *)
(* never neither.  No flow is dropped and none is returned while active.    *)
EveryFlowOnce ==
  /\ Ids(Active) \cup Ids(closed) = 1 .. flow_counter
  /\ Ids(Active) \cap Ids(closed) = {}
  /\ \A k, j \in DOMAIN active_flows :
       active_flows[k].flow_id = active_flows[j].flow_id => k = j
  /\ \A f, g \in closed : f.flow_id = g.flow_id => f = g

(* Two headers of one conversation: the same protocol and the same two      *)
(* endpoints, in either direction.                                          *)
Ends(h) == { KeyEndpoint(h.src, h.protocol), KeyEndpoint(h.dst, h.protocol) }
SameConversation(g, h) == g.protocol = h.protocol /\ Ends(g) = Ends(h)

(* The packets of one conversation, in both directions, go to one flow as   *)
(* long as it is active (flow_builder.py:5-12): of two packets in different *)
(* flows the earlier one's flow is the older one and was closed before.     *)
NeverSplit ==
  \A i, j \in DOMAIN log :
    (i < j /\ SameConversation(log[i].header, log[j].header)) =>
      \/ log[i].flow_id = log[j].flow_id
      \/ log[i].flow_id < log[j].flow_id /\ log[i].flow_id \in Ids(closed)

(* The incremental FlowState is the summary that a scan of the flow's own   *)
(* packets would give: counts per direction, first and last time, and the   *)
(* latest max_history_per_flow timestamps.  No packet is lost, counted      *)
(* twice, or credited to another flow or direction.                         *)
SummaryOf(packets, flow) ==
  LET mine == PacketsOf(packets, flow.flow_id)
      n == Cardinality(mine)
      fromA == { i \in mine : KeyEndpoint(packets[i].header.src, packets[i].header.protocol)
                                = flow.canonical_key.a }
      kept == IF n < max_history_per_flow THEN n ELSE max_history_per_flow
      later(i) == Cardinality({ m \in mine : m > i })
  IN  /\ flow.packet_count = n
      /\ flow.forward_packet_count = Cardinality(fromA)
      /\ flow.forward_packet_count + flow.reverse_packet_count = n
      /\ Len(flow.packet_timestamps) = kept
      /\ \A i \in mine :
           later(i) < kept => flow.packet_timestamps[kept - later(i)] = packets[i].ts
      /\ \E i \in mine : IsLeast(i, mine) /\ packets[i].ts = flow.start_time
      /\ \E i \in mine : IsGreatest(i, mine) /\ packets[i].ts = flow.last_seen

SummariesExact == \A flow \in Active \cup closed : SummaryOf(log, flow)

(* The i-th packet is the latest one of the flow, and when that one came.   *)
IsLast(i, id) ==
  log[i].flow_id = id /\ \A m \in DOMAIN log : log[m].flow_id = id => m <= i
LatestOf(id) == log[CHOOSE i \in DOMAIN log : IsLast(i, id)].ts

(* An evicted flow had been silent for at least as long as every flow that  *)
(* stays: no flow that stays has an older latest packet.                    *)
EvictsLeastRecent ==
  [][\A f \in closed' \ closed : f.finalize_reason = "capacity_evict" =>
       \A k \in DOMAIN active_flows \cap DOMAIN active_flows' :
         LatestOf(f.flow_id) <= LatestOf(active_flows[k].flow_id)]_vars

(* A FIN or RST is the last packet of its flow, and only flows that end     *)
(* with one are reported as "tcp_close": nothing is added to a closed       *)
(* connection, and no open one is reported as closed.                       *)
CloseIsLast ==
  /\ \A f \in closed : \A i \in DOMAIN log :
       log[i].flow_id = f.flow_id =>
         (Closes(log[i].header) <=>
            IsLast(i, f.flow_id) /\ f.finalize_reason = "tcp_close")
  /\ \A i \in DOMAIN log : log[i].flow_id \in Ids(Active) => ~Closes(log[i].header)

(* schemas.py:46-48 and flow_builder.py:8-11: the initiator of a flow is    *)
(* the sender of its first packet.                                          *)
InitiatorSentFirst ==
  \A flow \in Active \cup closed :
    \E i \in DOMAIN log : /\ IsLeast(i, PacketsOf(log, flow.flow_id))
                           /\ flow.initiator = log[i].header.src

(* The flow table is a ledger: a call returns a flow exactly when the flow  *)
(* leaves the table, so no flow is handed to the pipeline twice ("a flow is *)
(* scored once", ingest/README.md:140), none leaves unseen, and none that   *)
(* was handed over stays -- as long as one thread calls the builder.        *)
Ledger == INSTANCE FlowLedger WITH
  opened <- flow_counter, open <- Ids(Active), returned <- Ids(returned)
LedgerSpec == Ledger!Spec
==============================================================================
