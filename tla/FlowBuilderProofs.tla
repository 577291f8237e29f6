-------------------------- MODULE FlowBuilderProofs --------------------------
(****************************************************************************)
(* The flow table under any calls, for every set of headers and times and   *)
(* every configuration: its types, its bound, the account its counters give *)
(* and that every flow is in the table or closed, once -- so that it        *)
(* implements the ledger of FlowLedger.  Conversations are never split, a   *)
(* flow closed by FIN or RST gets nothing more, every flow is the summary   *)
(* of its packets, and eviction takes the flow that has been silent the     *)
(* longest.                                                                 *)
(****************************************************************************)
EXTENDS FlowBuilder, SourceHistoryLemmas

------------------------------------------------------------------------------
(* Canonical keys                                                           *)

(* A packet and the reply to it.                                            *)
Reply(h) == [h EXCEPT !.src = h.dst, !.dst = h.src]

(* normalize_flow_key is direction-independent (flow_builder.py:6-8): a     *)
(* packet and its reply belong to the same flow, whatever the order of      *)
(* their addresses and ports.                                               *)
THEOREM KeyIsDirectionless ==
  ASSUME NEW h \in Header
  PROVE  CanonicalKey(Reply(h)) = CanonicalKey(h)
<1>1. h.src \in Int \X Int /\ h.dst \in Int \X Int
  BY DEF Header, Endpoint
<1>2. /\ Reply(h).src = h.dst /\ Reply(h).dst = h.src
      /\ Reply(h).protocol = h.protocol
  BY DEF Reply, Header
<1> DEFINE s == KeyEndpoint(h.src, h.protocol)
           d == KeyEndpoint(h.dst, h.protocol)
<1>3. s \in Int \X Int /\ d \in Int \X Int
  BY <1>1 DEF KeyEndpoint, NoPort
<1>4. Leq(s, d) \/ Leq(d, s)
  BY <1>3 DEF Leq
<1>5. Leq(s, d) /\ Leq(d, s) => s = d
  BY <1>3 DEF Leq
<1>6. IsForward(h) <=> Leq(s, d)
  BY DEF IsForward
<1>7. IsForward(Reply(h)) <=> Leq(d, s)
  BY <1>2 DEF IsForward
<1> HIDE DEF s, d
<1>8. CanonicalKey(h) = [a |-> IF Leq(s, d) THEN s ELSE d,
                         b |-> IF Leq(s, d) THEN d ELSE s, protocol |-> h.protocol]
  BY <1>6 DEF CanonicalKey, s, d
<1>9. CanonicalKey(Reply(h)) = [a |-> IF Leq(d, s) THEN d ELSE s,
                                b |-> IF Leq(d, s) THEN s ELSE d, protocol |-> h.protocol]
  BY <1>2, <1>7 DEF CanonicalKey, s, d
<1> QED BY <1>4, <1>5, <1>8, <1>9

LEMMA KeyType ==
  ASSUME NEW h \in Headers
  PROVE  /\ h \in Header /\ CanonicalKey(h) \in Key
<1>1. h \in Header
  BY FlowBuilderAssumption
<1>2. /\ KeyEndpoint(h.src, h.protocol) \in Endpoint
      /\ KeyEndpoint(h.dst, h.protocol) \in Endpoint
      /\ h.protocol \in Protocols
  BY <1>1 DEF Header, KeyEndpoint, Endpoint, NoPort
<1> QED BY <1>1, <1>2 DEF CanonicalKey, Key

------------------------------------------------------------------------------
(* Flows                                                                    *)

LEMMA NewFlowType ==
  ASSUME NEW h \in Headers, NEW ts \in Int, NEW id \in Nat
  PROVE  NewFlow(id, h, ts) \in FlowState /\ NewFlow(id, h, ts).flow_id = id
<1>1. CanonicalKey(h) \in Key /\ h.src \in Endpoint /\ h.dst \in Endpoint
  BY KeyType DEF Header
<1>2. "" \in Reasons /\ <<>> \in Seq(Int)
  BY DEF Reasons
<1> QED BY <1>1, <1>2 DEF NewFlow, FlowState

(* The capped history of timestamps stays a sequence of times.              *)
LEMMA CappedType ==
  ASSUME NEW s \in Seq(Int), NEW ts \in Int
  PROVE  (IF Len(Append(s, ts)) > max_history_per_flow
            THEN Tail(Append(s, ts)) ELSE Append(s, ts)) \in Seq(Int)
<1>1. Append(s, ts) \in Seq(Int) /\ Len(Append(s, ts)) = Len(s) + 1 /\ Len(s) \in Nat
  OBVIOUS
<1>2. Append(s, ts) # <<>>
  BY <1>1, EmptySeq
<1> QED BY <1>1, <1>2, HeadTailProperties

LEMMA ApplyPacketType ==
  ASSUME NEW flow \in FlowState, NEW h \in Headers, NEW ts \in Int
  PROVE  /\ ApplyPacket(flow, h, ts) \in FlowState
         /\ ApplyPacket(flow, h, ts).flow_id = flow.flow_id
<1> DEFINE stamps == Append(flow.packet_timestamps, ts)
           kept == IF Len(stamps) > max_history_per_flow THEN Tail(stamps) ELSE stamps
           fwd == IF IsForward(h) THEN flow.forward_packet_count + 1
                  ELSE flow.forward_packet_count
           rev == IF IsForward(h) THEN flow.reverse_packet_count
                  ELSE flow.reverse_packet_count + 1
<1>1. /\ flow.packet_timestamps \in Seq(Int)
      /\ flow.packet_count + 1 \in Nat
  BY DEF FlowState
<1>2. kept \in Seq(Int)
  BY <1>1, CappedType
<1>3. fwd \in Nat /\ rev \in Nat
  BY DEF FlowState
<1>4. ApplyPacket(flow, h, ts) =
        [flow EXCEPT
           !.last_seen = ts,
           !.packet_count = flow.packet_count + 1,
           !.forward_packet_count = fwd,
           !.reverse_packet_count = rev,
           !.packet_timestamps = kept]
  BY DEF ApplyPacket, FlowState
<1> HIDE DEF kept, fwd, rev
<1> QED BY <1>1, <1>2, <1>3, <1>4 DEF FlowState

LEMMA FinalizeType ==
  ASSUME NEW flow \in FlowState, NEW reason \in Reasons
  PROVE  /\ Finalize(flow, reason) \in FlowState
         /\ Finalize(flow, reason).flow_id = flow.flow_id
BY DEF Finalize, FlowState

------------------------------------------------------------------------------
(* Tables.  A call of the builder is a sequence of three kinds of moves on  *)
(* the table and the closed flows: put a new flow, replace a flow by its    *)
(* update, close the flows under some keys.                                 *)

IsTable(table) ==
  /\ IsFiniteSet(DOMAIN table)
  /\ DOMAIN table \subseteq { CanonicalKey(h) : h \in Headers }
  /\ \A k \in DOMAIN table : table[k] \in FlowState

(* Every id up to n is that of one flow, in the table or closed. *)
Once(table, done, n) ==
  /\ { table[k].flow_id : k \in DOMAIN table } \cup Ids(done) = 1 .. n
  /\ { table[k].flow_id : k \in DOMAIN table } \cap Ids(done) = {}
  /\ \A k, j \in DOMAIN table : table[k].flow_id = table[j].flow_id => k = j
  /\ \A f, g \in done : f.flow_id = g.flow_id => f = g

Sound(table, done, n) ==
  IsTable(table) /\ done \subseteq FlowState /\ Once(table, done, n)

LEMMA PutIsSound ==
  ASSUME NEW table, NEW done, NEW n \in Nat, Sound(table, done, n),
         NEW key \in { CanonicalKey(h) : h \in Headers }, key \notin DOMAIN table,
         NEW flow \in FlowState, flow.flow_id = n + 1
  PROVE  Sound(WithFlow(table, key, flow), done, n + 1)
<1> DEFINE new == WithFlow(table, key, flow)
<1>1. /\ DOMAIN new = DOMAIN table \cup {key}
      /\ new[key] = flow
      /\ \A k \in DOMAIN table : new[k] = table[k]
  BY DEF WithFlow
<1>2. IsTable(new)
  BY <1>1, FS_AddElement DEF Sound, IsTable
<1>3. { new[k].flow_id : k \in DOMAIN new }
        = { table[k].flow_id : k \in DOMAIN table } \cup {n + 1}
  BY <1>1
<1> HIDE DEF new
<1>4. n + 1 \notin 1 .. n /\ 1 .. n + 1 = (1 .. n) \cup {n + 1}
  OBVIOUS
<1>5. \A k \in DOMAIN table : table[k].flow_id \in 1 .. n
  BY DEF Sound, Once
<1>6. \A k, j \in DOMAIN new : new[k].flow_id = new[j].flow_id => k = j
  BY <1>1, <1>4, <1>5 DEF Sound, Once
<1>7. Once(new, done, n + 1)
  <2> DEFINE ids == { table[k].flow_id : k \in DOMAIN table }
  <2>1. ids \cup Ids(done) = 1 .. n /\ ids \cap Ids(done) = {}
    BY DEF Sound, Once
  <2>2. \A f, g \in done : f.flow_id = g.flow_id => f = g
    BY DEF Sound, Once
  <2>3. { new[k].flow_id : k \in DOMAIN new } = ids \cup {n + 1}
    BY <1>3
  <2> HIDE DEF ids
  <2>4. (ids \cup {n + 1}) \cup Ids(done) = 1 .. n + 1
    BY <2>1, <1>4
  <2>5. (ids \cup {n + 1}) \cap Ids(done) = {}
    BY <2>1, <1>4
  <2> QED BY <2>2, <2>3, <2>4, <2>5, <1>6 DEF Once
<1> QED BY <1>2, <1>7 DEF Sound, new

LEMMA UpdateIsSound ==
  ASSUME NEW table, NEW done, NEW n \in Nat, Sound(table, done, n),
         NEW key \in DOMAIN table,
         NEW flow \in FlowState, flow.flow_id = table[key].flow_id
  PROVE  Sound(WithFlow(table, key, flow), done, n)
<1> DEFINE new == WithFlow(table, key, flow)
<1>1. /\ DOMAIN new = DOMAIN table
      /\ \A k \in DOMAIN table : new[k] \in FlowState
      /\ \A k \in DOMAIN table : new[k].flow_id = table[k].flow_id
  BY DEF WithFlow, Sound, IsTable
<1> HIDE DEF new
<1>2. IsTable(new)
  BY <1>1 DEF Sound, IsTable
<1>3. { new[k].flow_id : k \in DOMAIN new } = { table[k].flow_id : k \in DOMAIN table }
  BY <1>1
<1>4. Once(new, done, n)
  BY <1>1, <1>3 DEF Sound, Once
<1> QED BY <1>2, <1>4 DEF Sound, new

LEMMA CloseIsSound ==
  ASSUME NEW table, NEW done, NEW n \in Nat, Sound(table, done, n),
         NEW keys \in SUBSET DOMAIN table, NEW reason \in Reasons
  PROVE  Sound(Without(table, keys),
               done \cup { Finalize(table[k], reason) : k \in keys }, n)
<1> DEFINE new == Without(table, keys)
           moved == { Finalize(table[k], reason) : k \in keys }
<1>1. /\ DOMAIN new = DOMAIN table \ keys
      /\ \A k \in DOMAIN new : new[k] = table[k]
  BY DEF Without
<1>2. \A k \in keys : /\ Finalize(table[k], reason) \in FlowState
                      /\ Finalize(table[k], reason).flow_id = table[k].flow_id
  BY FinalizeType DEF Sound, IsTable
<1>3. IsTable(new)
  BY <1>1, FS_Subset DEF Sound, IsTable
<1>4. /\ moved \subseteq FlowState
      /\ Ids(moved) = { table[k].flow_id : k \in keys }
  BY <1>2 DEF Ids
<1>5. Ids(done \cup moved) = Ids(done) \cup Ids(moved)
  BY DEF Ids
<1>6. { new[k].flow_id : k \in DOMAIN new } = { table[k].flow_id : k \in DOMAIN table \ keys }
  BY <1>1
<1>7. \A f, g \in done \cup moved : f.flow_id = g.flow_id => f = g
  <2>1. \A f \in done : f.flow_id \in Ids(done)
    BY DEF Ids
  <2>2. \A f \in done, k \in keys : f.flow_id # table[k].flow_id
    BY <2>1 DEF Sound, Once
  <2> QED BY <1>2, <2>2 DEF Sound, Once
<1> HIDE DEF new, moved
<1>8. Once(new, done \cup moved, n)
  <2> DEFINE stay == { table[k].flow_id : k \in DOMAIN table \ keys }
             go == { table[k].flow_id : k \in keys }
             ids == { table[k].flow_id : k \in DOMAIN table }
  <2>1. ids \cup Ids(done) = 1 .. n /\ ids \cap Ids(done) = {}
    BY DEF Sound, Once
  <2>2. \A k, j \in DOMAIN table : table[k].flow_id = table[j].flow_id => k = j
    BY DEF Sound, Once
  <2>3. stay \cup go = ids /\ stay \cap go = {}
    BY <2>2
  <2>4. { new[k].flow_id : k \in DOMAIN new } = stay /\ Ids(moved) = go
    BY <1>4, <1>6
  <2>5. \A k, j \in DOMAIN new : new[k].flow_id = new[j].flow_id => k = j
    BY <1>1, <2>2
  <2> HIDE DEF stay, go, ids
  <2>6. stay \cup (Ids(done) \cup go) = 1 .. n
    BY <2>1, <2>3
  <2>7. stay \cap (Ids(done) \cup go) = {}
    BY <2>1, <2>3
  <2> QED BY <1>5, <1>7, <2>4, <2>5, <2>6, <2>7 DEF Once
<1> QED BY <1>3, <1>4, <1>8 DEF Sound, new, moved

------------------------------------------------------------------------------
(* The invariant                                                            *)

Logged == [header : Headers, ts : Times, flow_id : Nat]

(* What makes the properties inductive: the table and the closed flows are  *)
(* sound, and the counters are those of the table.                          *)
IInv ==
  /\ Sound(active_flows, closed, flow_counter)
  /\ flow_counter \in Nat
  /\ total_flows_created \in Nat
  /\ total_flows_finalized \in Nat
  /\ capacity_evictions \in Nat
  /\ IsHistory(source_history)
  /\ returned \subseteq FlowState
  /\ log \in Seq(Logged)
  /\ CapacityBound
  /\ CountersAccount

LEMMA IInvImplies == IInv => TypeOK /\ CapacityBound /\ CountersAccount /\ EveryFlowOnce
<1> SUFFICES ASSUME IInv PROVE TypeOK /\ EveryFlowOnce
  BY DEF IInv
<1>1. TypeOK
  BY DEF IInv, Sound, IsTable, IsHistory, TypeOK, Logged
<1>2. Ids(Active) = { active_flows[k].flow_id : k \in DOMAIN active_flows }
  BY DEF Ids, Active
<1>3. EveryFlowOnce
  BY <1>2 DEF IInv, Sound, Once, EveryFlowOnce
<1> QED BY <1>1, <1>3

LEMMA InitHolds == Init => IInv
<1> SUFFICES ASSUME Init PROVE IInv
  OBVIOUS
<1>1. DOMAIN active_flows = {} /\ closed = {} /\ flow_counter = 0
  BY DEF Init
<1>2. IsFiniteSet({}) /\ Cardinality({}) = 0
  BY FS_EmptySet
<1>3. IsTable(active_flows)
  BY <1>1, <1>2 DEF IsTable
<1>4. Ids(closed) = {} /\ 1 .. 0 = {}
  BY <1>1 DEF Ids
<1>5. Sound(active_flows, closed, flow_counter)
  BY <1>1, <1>3, <1>4 DEF Sound, Once
<1>6. CapacityBound /\ CountersAccount
  BY <1>1, <1>2, FlowBuilderAssumption DEF Init, CapacityBound, CountersAccount
<1>7. log \in Seq(Logged) /\ returned \subseteq FlowState
  BY DEF Init
<1>8. IsHistory(source_history)
  BY DEF Init, IsHistory, EmptyHistory
<1> QED BY <1>5, <1>6, <1>7, <1>8 DEF Init, IInv

------------------------------------------------------------------------------
(* add_packet                                                               *)

(* The end of add_packet, given the flow its packet goes to: if the table   *)
(* with that flow updated is sound, so is the one that the call leaves.     *)
LEMMA DeliverIsSound ==
  ASSUME NEW table, NEW evicted \in SUBSET FlowState, NEW flow \in FlowState,
         NEW h \in Headers, NEW ts \in Times, NEW n \in Nat,
         Deliver(table, evicted, flow, h, ts),
         Sound(WithFlow(table, CanonicalKey(h), ApplyPacket(flow, h, ts)),
               closed \cup evicted, n),
         log \in Seq(Logged)
  PROVE  /\ Sound(active_flows', closed', n)
         /\ returned' \subseteq FlowState
         /\ log' \in Seq(Logged)
<1> DEFINE key == CanonicalKey(h)
           updated == ApplyPacket(flow, h, ts)
           put == WithFlow(table, key, updated)
           done == Finalize(updated, "tcp_close")
<1>1. ts \in Int /\ flow.flow_id \in Nat
  BY FlowBuilderAssumption DEF FlowState
<1>2. updated \in FlowState
  BY <1>1, ApplyPacketType
<1>3. "tcp_close" \in Reasons
  BY DEF Reasons
<1>4. done \in FlowState
  BY <1>2, <1>3, FinalizeType
<1>5. log' \in Seq(Logged)
  <2>1. [header |-> h, ts |-> ts, flow_id |-> flow.flow_id] \in Logged
    BY <1>1 DEF Logged
  <2> QED BY <2>1 DEF Deliver
<1>6. CASE Closes(h)
  <2>1. /\ active_flows' = Without(table, {key})
        /\ returned' = evicted \cup {done}
        /\ closed' = closed \cup (evicted \cup {done})
    BY <1>6 DEF Deliver, Return
  <2>2. key \in DOMAIN put /\ put[key] = updated
    BY DEF WithFlow
  <2>3. Sound(Without(put, {key}),
              (closed \cup evicted) \cup { Finalize(put[k], "tcp_close") : k \in {key} }, n)
    BY <1>3, <2>2, CloseIsSound
  <2>4. { Finalize(put[k], "tcp_close") : k \in {key} } = {done}
    BY <2>2
  <2>5. Without(put, {key}) = Without(table, {key})
    <3>1. DOMAIN put \ {key} = DOMAIN table \ {key}
      BY DEF WithFlow
    <3>2. \A k \in DOMAIN table \ {key} : put[k] = table[k]
      BY DEF WithFlow
    <3> QED BY <3>1, <3>2 DEF Without
  <2>6. closed' = (closed \cup evicted) \cup {done}
    BY <2>1
  <2> HIDE DEF put, done, key
  <2>7. Sound(active_flows', closed', n)
    BY <2>1, <2>3, <2>4, <2>5, <2>6
  <2> QED BY <1>4, <1>5, <2>1, <2>7
<1>7. CASE ~Closes(h)
  <2>1. /\ active_flows' = put
        /\ returned' = evicted
        /\ closed' = closed \cup evicted
    BY <1>7 DEF Deliver, Return
  <2> QED BY <1>5, <2>1
<1> QED BY <1>6, <1>7

(* Of the packet's flow, add_packet leaves one entry in the table or one    *)
(* more finalized flow.                                                     *)
LEMMA DeliverCounts ==
  ASSUME NEW table, NEW evicted, NEW flow, NEW h, NEW ts,
         Deliver(table, evicted, flow, h, ts),
         IsFiniteSet(DOMAIN table), total_flows_finalized \in Nat
  PROVE  LET n == Cardinality(DOMAIN table \cup {CanonicalKey(h)})
         IN  /\ total_flows_finalized' \in Nat
             /\ Cardinality(DOMAIN active_flows') \in Nat
             /\ Cardinality(DOMAIN active_flows') <= n
             /\ Cardinality(DOMAIN active_flows') + total_flows_finalized'
                  = n + total_flows_finalized
<1> DEFINE key == CanonicalKey(h)
           D == DOMAIN table \cup {key}
<1>1. IsFiniteSet(D) /\ Cardinality(D) \in Nat
  BY FS_AddElement, FS_CardinalityType
<1>2. CASE Closes(h)
  <2>1. DOMAIN active_flows' = D \ {key} /\ total_flows_finalized' = total_flows_finalized + 1
    BY <1>2 DEF Deliver, Without
  <2>2. IsFiniteSet(D \ {key}) /\ Cardinality(D \ {key}) = Cardinality(D) - 1
    BY <1>1, FS_RemoveElement
  <2>3. Cardinality(D \ {key}) \in Nat
    BY <2>2, FS_CardinalityType
  <2> HIDE DEF D
  <2>4. /\ total_flows_finalized' \in Nat
        /\ Cardinality(DOMAIN active_flows') \in Nat
        /\ Cardinality(DOMAIN active_flows') <= Cardinality(D)
        /\ Cardinality(DOMAIN active_flows') + total_flows_finalized'
             = Cardinality(D) + total_flows_finalized
    BY <1>1, <2>1, <2>2, <2>3
  <2> QED BY <2>4 DEF D
<1>3. CASE ~Closes(h)
  <2>1. DOMAIN active_flows' = D /\ total_flows_finalized' = total_flows_finalized
    BY <1>3 DEF Deliver, WithFlow
  <2> QED BY <1>1, <2>1
<1> QED BY <1>2, <1>3

LEMMA CreateFlowIsSound ==
  ASSUME NEW table, NEW evicted \in SUBSET FlowState,
         NEW h \in Headers, NEW ts \in Times,
         CreateFlow(table, evicted, h, ts),
         Sound(table, closed \cup evicted, flow_counter), flow_counter \in Nat,
         CanonicalKey(h) \notin DOMAIN table,
         IsHistory(source_history), log \in Seq(Logged)
  PROVE  /\ Sound(active_flows', closed', flow_counter')
         /\ flow_counter' = flow_counter + 1
         /\ returned' \subseteq FlowState
         /\ log' \in Seq(Logged)
         /\ IsHistory(source_history')
<1> DEFINE flow == NewFlow(flow_counter + 1, h, ts)
<1>1. ts \in Int
  BY FlowBuilderAssumption
<1>2. flow \in FlowState /\ flow.flow_id = flow_counter + 1
  BY <1>1, NewFlowType
<1>3. /\ flow_counter' = flow_counter + 1
      /\ source_history' = RecordNewFlow(source_history, flow.initiator[1],
                                         flow.responder[1], flow.responder[2], ts)
      /\ Deliver(table, evicted, flow, h, ts)
  BY DEF CreateFlow
<1>4. IsHistory(source_history')
  <2>1. flow.initiator[1] \in Int /\ flow.responder[1] \in Int /\ flow.responder[2] \in Int
    BY <1>2 DEF FlowState, Endpoint
  <2> HIDE DEF flow
  <2>2. IsHistory(RecordNewFlow(source_history, flow.initiator[1],
                                flow.responder[1], flow.responder[2], ts))
    BY <1>1, <2>1, RecordType
  <2> QED BY <1>3, <2>2
<1> HIDE DEF flow
<1>5. /\ ApplyPacket(flow, h, ts) \in FlowState
      /\ ApplyPacket(flow, h, ts).flow_id = flow_counter + 1
  BY <1>1, <1>2, ApplyPacketType
<1>6. Sound(WithFlow(table, CanonicalKey(h), ApplyPacket(flow, h, ts)),
            closed \cup evicted, flow_counter + 1)
  BY <1>5, PutIsSound
<1> QED BY <1>2, <1>3, <1>4, <1>6, DeliverIsSound

LEMMA OpenFlowPreserves ==
  ASSUME IInv, NEW h \in Headers, NEW ts \in Times, OpenFlow(h, ts)
  PROVE  IInv'
<1> DEFINE key == CanonicalKey(h)
           n == Cardinality(DOMAIN active_flows)
<1>1. /\ key \notin DOMAIN active_flows
      /\ n < max_active_flows
      /\ CreateFlow(active_flows, {}, h, ts)
      /\ capacity_evictions' = capacity_evictions
      /\ total_flows_created' = total_flows_created + 1
      /\ Deliver(active_flows, {}, NewFlow(flow_counter + 1, h, ts), h, ts)
  BY DEF OpenFlow, CreateFlow
<1>2. Sound(active_flows, closed \cup {}, flow_counter) /\ {} \in SUBSET FlowState
  BY DEF IInv
<1>3. /\ Sound(active_flows', closed', flow_counter')
      /\ flow_counter' = flow_counter + 1
      /\ returned' \subseteq FlowState
      /\ log' \in Seq(Logged)
      /\ IsHistory(source_history')
  BY <1>1, <1>2, CreateFlowIsSound DEF IInv
<1>4. IsFiniteSet(DOMAIN active_flows)
  BY DEF IInv, Sound, IsTable
<1>5. n \in Nat /\ Cardinality(DOMAIN active_flows \cup {key}) = n + 1
  BY <1>1, <1>4, FS_AddElement, FS_CardinalityType
<1>6. /\ total_flows_finalized' \in Nat
      /\ Cardinality(DOMAIN active_flows') \in Nat
      /\ Cardinality(DOMAIN active_flows') <= n + 1
      /\ Cardinality(DOMAIN active_flows') + total_flows_finalized'
           = n + 1 + total_flows_finalized
  BY <1>1, <1>4, <1>5, DeliverCounts DEF IInv
<1>7. CapacityBound'
  BY <1>1, <1>5, <1>6, FlowBuilderAssumption DEF CapacityBound
<1>8. CountersAccount'
  <2>1. /\ total_flows_created \in Nat /\ total_flows_finalized \in Nat
        /\ capacity_evictions \in Nat
        /\ total_flows_created = n + total_flows_finalized + capacity_evictions
    BY DEF IInv, CountersAccount
  <2>2. /\ total_flows_created' = total_flows_created + 1
        /\ capacity_evictions' = capacity_evictions
    BY <1>1
  <2> QED BY <1>5, <1>6, <2>1, <2>2 DEF CountersAccount
<1> QED BY <1>1, <1>3, <1>6, <1>7, <1>8 DEF IInv

LEMMA EvictAndOpenPreserves ==
  ASSUME IInv, NEW h \in Headers, NEW ts \in Times, EvictAndOpen(h, ts)
  PROVE  IInv'
<1> DEFINE key == CanonicalKey(h)
           n == Cardinality(DOMAIN active_flows)
<1>1. PICK oldest \in DOMAIN active_flows :
        CreateFlow(Without(active_flows, {oldest}),
                   {Finalize(active_flows[oldest], "capacity_evict")}, h, ts)
  BY DEF EvictAndOpen
<1> DEFINE table == Without(active_flows, {oldest})
           evicted == {Finalize(active_flows[oldest], "capacity_evict")}
<1>2. /\ key \notin DOMAIN active_flows
      /\ n >= max_active_flows
      /\ capacity_evictions' = capacity_evictions + 1
      /\ total_flows_created' = total_flows_created + 1
      /\ Deliver(table, evicted, NewFlow(flow_counter + 1, h, ts), h, ts)
  BY <1>1 DEF EvictAndOpen, CreateFlow
<1>3. DOMAIN table = DOMAIN active_flows \ {oldest} /\ key \notin DOMAIN table
  BY <1>2 DEF Without
<1>4. "capacity_evict" \in Reasons
  BY DEF Reasons
<1>5. evicted \in SUBSET FlowState
  BY <1>4, FinalizeType DEF IInv, Sound, IsTable
<1>6. Sound(table, closed \cup evicted, flow_counter)
  <2>1. evicted = { Finalize(active_flows[k], "capacity_evict") : k \in {oldest} }
    OBVIOUS
  <2>2. Sound(active_flows, closed, flow_counter) /\ flow_counter \in Nat
    BY DEF IInv
  <2>3. Sound(table, closed \cup { Finalize(active_flows[k], "capacity_evict")
                                     : k \in {oldest} }, flow_counter)
    BY <1>4, <2>2, CloseIsSound
  <2> HIDE DEF table, evicted
  <2> QED BY <2>1, <2>3
<1>7. IsFiniteSet(DOMAIN active_flows)
  BY DEF IInv, Sound, IsTable
<1>8. IsFiniteSet(DOMAIN table) /\ n \in Nat /\ Cardinality(DOMAIN table) = n - 1
  <2>1. n \in Nat
    BY <1>7, FS_CardinalityType
  <2>2. /\ IsFiniteSet(DOMAIN active_flows \ {oldest})
        /\ Cardinality(DOMAIN active_flows \ {oldest}) = n - 1
    BY <1>7, FS_RemoveElement
  <2> QED BY <1>3, <2>1, <2>2
<1>9. Cardinality(DOMAIN table \cup {key}) = n
  <2> HIDE DEF table, key
  <2>1. Cardinality(DOMAIN table \cup {key}) = Cardinality(DOMAIN table) + 1
    BY <1>3, <1>8, FS_AddElement
  <2> QED BY <1>8, <2>1
<1> HIDE DEF table, evicted
<1>10. /\ Sound(active_flows', closed', flow_counter')
       /\ flow_counter' = flow_counter + 1
       /\ returned' \subseteq FlowState
       /\ log' \in Seq(Logged)
       /\ IsHistory(source_history')
  BY <1>1, <1>3, <1>5, <1>6, CreateFlowIsSound DEF IInv, table, evicted
<1>11. /\ total_flows_finalized' \in Nat
       /\ Cardinality(DOMAIN active_flows') \in Nat
       /\ Cardinality(DOMAIN active_flows') <= n
       /\ Cardinality(DOMAIN active_flows') + total_flows_finalized'
            = n + total_flows_finalized
  BY <1>2, <1>8, <1>9, DeliverCounts DEF IInv
<1>12. CapacityBound'
  BY <1>8, <1>11, FlowBuilderAssumption DEF IInv, CapacityBound
<1>13. CountersAccount'
  <2>1. /\ total_flows_created \in Nat /\ total_flows_finalized \in Nat
        /\ capacity_evictions \in Nat
        /\ total_flows_created = n + total_flows_finalized + capacity_evictions
    BY DEF IInv, CountersAccount
  <2>2. /\ total_flows_created' = total_flows_created + 1
        /\ capacity_evictions' = capacity_evictions + 1
    BY <1>2
  <2> QED BY <1>8, <1>11, <2>1, <2>2 DEF CountersAccount
<1> QED BY <1>2, <1>10, <1>11, <1>12, <1>13 DEF IInv

LEMMA AddToActivePreserves ==
  ASSUME IInv, NEW h \in Headers, NEW ts \in Times, AddToActive(h, ts)
  PROVE  IInv'
<1> DEFINE key == CanonicalKey(h)
           flow == active_flows[key]
           n == Cardinality(DOMAIN active_flows)
<1>1. /\ key \in DOMAIN active_flows
      /\ Deliver(active_flows, {}, flow, h, ts)
      /\ UNCHANGED <<flow_counter, source_history, total_flows_created, capacity_evictions>>
  BY DEF AddToActive
<1>2. flow \in FlowState /\ ts \in Int
  BY <1>1, FlowBuilderAssumption DEF IInv, Sound, IsTable
<1>3. /\ ApplyPacket(flow, h, ts) \in FlowState
      /\ ApplyPacket(flow, h, ts).flow_id = flow.flow_id
  BY <1>2, ApplyPacketType
<1>4. Sound(active_flows, closed \cup {}, flow_counter) /\ flow_counter \in Nat
  BY DEF IInv
<1>5. Sound(WithFlow(active_flows, key, ApplyPacket(flow, h, ts)),
            closed \cup {}, flow_counter)
  BY <1>1, <1>3, <1>4, UpdateIsSound
<1>6. {} \in SUBSET FlowState
  OBVIOUS
<1>7. IsFiniteSet(DOMAIN active_flows) /\ DOMAIN active_flows \cup {key} = DOMAIN active_flows
  BY <1>1 DEF IInv, Sound, IsTable
<1> HIDE DEF flow, key
<1>8. /\ Sound(active_flows', closed', flow_counter)
      /\ returned' \subseteq FlowState
      /\ log' \in Seq(Logged)
  BY <1>1, <1>2, <1>4, <1>5, <1>6, DeliverIsSound DEF IInv, key
<1>9. n \in Nat
  BY <1>7, FS_CardinalityType
<1>10. /\ total_flows_finalized' \in Nat
       /\ Cardinality(DOMAIN active_flows') \in Nat
       /\ Cardinality(DOMAIN active_flows') <= n
       /\ Cardinality(DOMAIN active_flows') + total_flows_finalized'
            = n + total_flows_finalized
  BY <1>1, <1>7, DeliverCounts DEF IInv, key
<1>11. CapacityBound'
  BY <1>9, <1>10, FlowBuilderAssumption DEF IInv, CapacityBound
<1>12. CountersAccount'
  BY <1>1, <1>9, <1>10 DEF IInv, CountersAccount
<1> QED BY <1>1, <1>8, <1>10, <1>11, <1>12 DEF IInv

------------------------------------------------------------------------------
(* check_timeouts, flush, source_stats                                      *)

LEMMA RemovePreserves ==
  ASSUME IInv, NEW keys \in SUBSET DOMAIN active_flows, NEW reason \in Reasons,
         Remove(keys, reason)
  PROVE  IInv'
<1> DEFINE gone == { Finalize(active_flows[k], reason) : k \in keys }
           D == DOMAIN active_flows
<1>1. /\ active_flows' = Without(active_flows, keys)
      /\ total_flows_finalized' = total_flows_finalized + Cardinality(keys)
      /\ returned' = gone
      /\ closed' = closed \cup gone
      /\ UNCHANGED <<flow_counter, source_history, total_flows_created,
                     capacity_evictions, log>>
  BY DEF Remove, Return
<1>2. Sound(active_flows, closed, flow_counter) /\ flow_counter \in Nat
  BY DEF IInv
<1>3. Sound(Without(active_flows, keys), closed \cup gone, flow_counter)
  BY <1>2, CloseIsSound
<1>4. gone \subseteq FlowState
  BY FinalizeType DEF IInv, Sound, IsTable
<1>5. IsFiniteSet(D) /\ DOMAIN active_flows' = D \ keys
  BY <1>1 DEF IInv, Sound, IsTable, Without
<1>6. /\ Cardinality(D) \in Nat /\ Cardinality(keys) \in Nat
      /\ Cardinality(D \ keys) \in Nat
  BY <1>5, FS_Subset, FS_CardinalityType
<1>7. Cardinality(D \ keys) = Cardinality(D) - Cardinality(keys)
  <2>1. D \cap keys = keys
    OBVIOUS
  <2> QED BY <1>5, <2>1, FS_Difference
<1> HIDE DEF gone
<1>8. Sound(active_flows', closed', flow_counter')
  BY <1>1, <1>3
<1>9. CapacityBound'
  BY <1>5, <1>6, <1>7, FlowBuilderAssumption DEF IInv, CapacityBound
<1>10. CountersAccount'
  BY <1>1, <1>5, <1>6, <1>7 DEF IInv, CountersAccount
<1> QED BY <1>1, <1>4, <1>6, <1>8, <1>9, <1>10 DEF IInv

LEMMA SourceStatsPreserves ==
  ASSUME IInv, NEW src \in Int, NEW now \in Int, SourceStats(src, now)
  PROVE  IInv'
<1>1. now \in Int /\ IsHistory(source_history)
  BY DEF IInv
<1>2. IsHistory(source_history')
  BY <1>1, PruneType DEF SourceStats
<1> QED BY <1>2 DEF SourceStats, IInv, CapacityBound, CountersAccount

------------------------------------------------------------------------------
(* The theorems                                                             *)

LEMMA NextPreserves == IInv /\ [Next]_vars => IInv'
<1> SUFFICES ASSUME IInv, [Next]_vars PROVE IInv'
  OBVIOUS
<1>1. ASSUME NEW h \in Headers, NEW ts \in Times, AddPacket(h, ts) PROVE IInv'
  BY <1>1, AddToActivePreserves, OpenFlowPreserves, EvictAndOpenPreserves DEF AddPacket
<1>2. ASSUME NEW now \in Times, CheckTimeouts(now) PROVE IInv'
  <2>1. "timeout" \in Reasons
    BY DEF Reasons
  <2> QED BY <1>2, <2>1, RemovePreserves DEF CheckTimeouts
<1>3. CASE Flush
  <2>1. "flush" \in Reasons
    BY DEF Reasons
  <2> QED BY <1>3, <2>1, RemovePreserves DEF Flush
<1>4. ASSUME NEW h \in Headers, NEW now \in Times,
             NEW src \in {h.src[1], h.dst[1]}, SourceStats(src, now)
      PROVE  IInv'
  <2>1. src \in Int /\ now \in Int
    BY FlowBuilderAssumption DEF Header, Endpoint
  <2> QED BY <1>4, <2>1, SourceStatsPreserves
<1>5. CASE UNCHANGED vars
  BY <1>5 DEF vars, builderVars, IInv, CapacityBound, CountersAccount
<1> QED BY <1>1, <1>2, <1>3, <1>4, <1>5 DEF Next

LEMMA Invariance == Spec => []IInv
BY InitHolds, NextPreserves, PTL DEF Spec

(* The state stays well typed, whatever packets arrive.                     *)
THEOREM BuilderTypeOK == Spec => []TypeOK
BY Invariance, IInvImplies, PTL

(* The table is within max_active_flows after every call, on any burst of   *)
(* new flows (flow_builder.py:24-28).                                       *)
THEOREM TableBounded == Spec => []CapacityBound
BY Invariance, IInvImplies, PTL

(* Created flows are the active, the finalized and the evicted ones: the    *)
(* figures of pipeline.stats() always add up.                               *)
THEOREM CountersAddUp == Spec => []CountersAccount
BY Invariance, IInvImplies, PTL

(* Every flow id is that of one flow, active under one key or returned.     *)
THEOREM FlowsAccounted == Spec => []EveryFlowOnce
BY Invariance, IInvImplies, PTL

------------------------------------------------------------------------------
(* The flow table implements the ledger.                                    *)

(* What a call returns was active before it, or is the flow it opened.      *)
Returnable == Ids(Active) \cup {flow_counter + 1}

LEMMA DeliverReturns ==
  ASSUME NEW table, NEW evicted, NEW flow \in FlowState,
         NEW h \in Headers, NEW ts \in Times, Deliver(table, evicted, flow, h, ts)
  PROVE  /\ Ids(returned') \subseteq Ids(evicted) \cup {flow.flow_id}
         /\ closed' = closed \cup returned'
<1> DEFINE done == Finalize(ApplyPacket(flow, h, ts), "tcp_close")
<1>1. done.flow_id = flow.flow_id
  <2>1. ts \in Int /\ "tcp_close" \in Reasons
    BY FlowBuilderAssumption DEF Reasons
  <2> QED BY <2>1, ApplyPacketType, FinalizeType
<1>2. /\ returned' \in {evicted, evicted \cup {done}}
      /\ closed' = closed \cup returned'
  BY DEF Deliver, Return
<1> HIDE DEF done
<1> QED BY <1>1, <1>2 DEF Ids

LEMMA CreateFlowReturns ==
  ASSUME NEW table, NEW evicted, NEW h \in Headers, NEW ts \in Times,
         CreateFlow(table, evicted, h, ts), flow_counter \in Nat
  PROVE  /\ Ids(returned') \subseteq Ids(evicted) \cup {flow_counter + 1}
         /\ closed' = closed \cup returned'
         /\ flow_counter' = flow_counter + 1
<1> DEFINE flow == NewFlow(flow_counter + 1, h, ts)
<1>1. flow \in FlowState /\ flow.flow_id = flow_counter + 1
  BY NewFlowType, FlowBuilderAssumption
<1>2. Deliver(table, evicted, flow, h, ts) /\ flow_counter' = flow_counter + 1
  BY DEF CreateFlow
<1> HIDE DEF flow
<1> QED BY <1>1, <1>2, DeliverReturns

(* No call returns a flow that an earlier call has returned.                *)
LEMMA LeavingIsReturned ==
  ASSUME IInv, Next
  PROVE  \/ /\ Ids(returned') \subseteq Returnable
            /\ closed' = closed \cup returned'
            /\ flow_counter' \in {flow_counter, flow_counter + 1}
         \/ UNCHANGED <<active_flows, flow_counter, returned, closed>>
<1> USE DEF Returnable
<1>1. \A k \in DOMAIN active_flows :
        active_flows[k] \in FlowState /\ active_flows[k].flow_id \in Ids(Active)
  BY DEF IInv, Sound, IsTable, Ids, Active
<1>2. flow_counter \in Nat
  BY DEF IInv
<1>3. Ids({}) = {}
  BY DEF Ids
<1>4. ASSUME NEW h \in Headers, NEW ts \in Times, AddPacket(h, ts)
      PROVE  /\ Ids(returned') \subseteq Returnable
             /\ closed' = closed \cup returned'
             /\ flow_counter' \in {flow_counter, flow_counter + 1}
  <2>1. CASE AddToActive(h, ts)
    BY <1>1, <1>3, <2>1, DeliverReturns DEF AddToActive
  <2>2. CASE OpenFlow(h, ts)
    BY <1>2, <1>3, <2>2, CreateFlowReturns DEF OpenFlow
  <2>3. CASE EvictAndOpen(h, ts)
    <3>1. PICK oldest \in DOMAIN active_flows :
            CreateFlow(Without(active_flows, {oldest}),
                       {Finalize(active_flows[oldest], "capacity_evict")}, h, ts)
      BY <2>3 DEF EvictAndOpen
    <3>2. "capacity_evict" \in Reasons
      BY DEF Reasons
    <3>3. Finalize(active_flows[oldest], "capacity_evict").flow_id \in Ids(Active)
      BY <1>1, <3>2, FinalizeType
    <3>4. Ids({Finalize(active_flows[oldest], "capacity_evict")}) \subseteq Ids(Active)
      BY <3>3 DEF Ids
    <3> QED BY <1>2, <3>1, <3>4, CreateFlowReturns
  <2> QED BY <1>4, <2>1, <2>2, <2>3 DEF AddPacket
<1>5. ASSUME NEW keys \in SUBSET DOMAIN active_flows, NEW reason \in Reasons,
             Remove(keys, reason)
      PROVE  /\ Ids(returned') \subseteq Returnable
             /\ closed' = closed \cup returned'
             /\ flow_counter' = flow_counter
  <2>1. /\ returned' = { Finalize(active_flows[k], reason) : k \in keys }
        /\ closed' = closed \cup returned'
        /\ flow_counter' = flow_counter
    BY <1>5 DEF Remove, Return
  <2>2. \A k \in keys : Finalize(active_flows[k], reason).flow_id \in Ids(Active)
    BY <1>1, FinalizeType
  <2>3. \A f \in returned' : f.flow_id \in Ids(Active)
    BY <2>1, <2>2
  <2>4. Ids(returned') \subseteq Ids(Active)
    BY <2>3 DEF Ids
  <2> QED BY <2>1, <2>4
<1>6. ASSUME NEW now \in Times, CheckTimeouts(now)
      PROVE  /\ Ids(returned') \subseteq Returnable
             /\ closed' = closed \cup returned'
             /\ flow_counter' = flow_counter
  <2>1. "timeout" \in Reasons
    BY DEF Reasons
  <2> QED BY <1>5, <1>6, <2>1 DEF CheckTimeouts
<1>7. CASE Flush
  <2>1. "flush" \in Reasons
    BY DEF Reasons
  <2> QED BY <1>5, <1>7, <2>1 DEF Flush
<1>8. ASSUME NEW src, NEW now, SourceStats(src, now)
      PROVE  UNCHANGED <<active_flows, flow_counter, returned, closed>>
  BY <1>8 DEF SourceStats
<1> QED BY <1>4, <1>6, <1>7, <1>8 DEF Next

(* The flow table is a ledger of flows: every call returns exactly the      *)
(* flows that leave the table with it, so none reaches the pipeline twice   *)
(* and none leaves unseen (ingest/README.md:140).                           *)
THEOREM ImplementsLedger == Spec => LedgerSpec
<1> DEFINE ledger == <<flow_counter, Ids(Active), Ids(returned)>>
<1>1. Init => Ledger!Init
  BY DEF Init, Ledger!Init, Ids, Active
<1>2. IInv /\ IInv' /\ [Next]_vars => [Ledger!Next]_ledger
  <2> SUFFICES ASSUME IInv, IInv', [Next]_vars
               PROVE  [Ledger!Next]_ledger
    OBVIOUS
  <2>1. CASE UNCHANGED <<active_flows, flow_counter, returned>>
    BY <2>1 DEF Ids, Active
  <2>2. CASE /\ Ids(returned') \subseteq Returnable
             /\ closed' = closed \cup returned'
             /\ flow_counter' \in {flow_counter, flow_counter + 1}
    <3> DEFINE new == IF flow_counter' = flow_counter THEN {} ELSE {flow_counter + 1}
               done == Ids(returned')
               open == Ids(Active)
    <3>1. flow_counter \in Nat /\ new \in {{}, {flow_counter + 1}}
      BY DEF IInv
    <3>2. Ids(Active) = { active_flows[k].flow_id : k \in DOMAIN active_flows }
      BY DEF Ids, Active
    <3>3. open \cup Ids(closed) = 1 .. flow_counter /\ open \cap Ids(closed) = {}
      BY <3>2 DEF IInv, Sound, Once
    <3>4. Ids(Active)' = { active_flows'[k].flow_id : k \in DOMAIN active_flows' }
      BY DEF Ids, Active
    <3>5. /\ Ids(Active)' \cup Ids(closed') = 1 .. flow_counter'
          /\ Ids(Active)' \cap Ids(closed') = {}
      BY <3>4 DEF IInv, Sound, Once, Ids
    <3>6. Ids(closed') = Ids(closed) \cup done
      BY <2>2 DEF Ids
    <3>7. 1 .. flow_counter' = (1 .. flow_counter) \cup new
      BY <2>2, <3>1
    <3>8. \A i \in new : i \notin 1 .. flow_counter
      BY <3>1
    <3>9. done \subseteq open \cup {flow_counter + 1}
      BY <2>2 DEF Returnable
    <3>10. flow_counter' = IF new = {} THEN flow_counter ELSE flow_counter + 1
      BY <2>2
    <3> HIDE DEF new, done, open
    <3>11. {flow_counter + 1} \cap ((1 .. flow_counter) \cup new) \subseteq new
      BY <3>1
    <3>12. done \subseteq open \cup new
      BY <3>5, <3>6, <3>7, <3>9, <3>11
    <3>13. Ids(Active)' = (open \cup new) \ done
      BY <3>3, <3>5, <3>6, <3>7, <3>8, <3>12
    <3>14. Ledger!Call(new, done)
      BY <3>10, <3>12, <3>13 DEF Ledger!Call, open, done, Ids
    <3> QED BY <3>1, <3>12, <3>14 DEF Ledger!Next, open
  <2>3. CASE UNCHANGED vars
    BY <2>1, <2>3 DEF vars, builderVars
  <2> QED BY <2>1, <2>2, <2>3, LeavingIsReturned
<1> QED BY <1>1, <1>2, Invariance, PTL DEF Spec, LedgerSpec, Ledger!Spec

------------------------------------------------------------------------------
(* Where the packets went                                                   *)

(* The packets of an active flow are those of its conversation since it was *)
(* opened, the latest one gives its last_seen, and none of them closes.     *)
FlowHasPackets(k) ==
  LET flow == active_flows[k]
  IN  /\ \A i \in DOMAIN log :
           /\ log[i].flow_id = flow.flow_id =>
                CanonicalKey(log[i].header) = k /\ ~Closes(log[i].header)
           /\ CanonicalKey(log[i].header) = k => log[i].flow_id <= flow.flow_id
      /\ \E i \in DOMAIN log : IsLast(i, flow.flow_id) /\ log[i].ts = flow.last_seen

(* What was said of a flow when it was closed stays true.                   *)
ClosedForGood(f) ==
  \A i \in DOMAIN log :
    log[i].flow_id = f.flow_id =>
      (Closes(log[i].header) <=> IsLast(i, f.flow_id) /\ f.finalize_reason = "tcp_close")

LogInv ==
  /\ IInv
  /\ \A i \in DOMAIN log : log[i].flow_id \in 1 .. flow_counter
  /\ \A k \in DOMAIN active_flows : FlowHasPackets(k)
  /\ \A f \in closed : ClosedForGood(f)
  /\ NeverSplit

LEMMA InitLogged == Init => LogInv
<1> SUFFICES ASSUME Init PROVE LogInv
  OBVIOUS
<1>1. IInv
  BY InitHolds
<1>2. DOMAIN log = {} /\ DOMAIN active_flows = {} /\ closed = {}
  BY DEF Init
<1> QED BY <1>1, <1>2 DEF LogInv, NeverSplit

------------------------------------------------------------------------------
(* What a call does to the log, the table and the closed flows.             *)

PacketStep(h, ts, id) ==
  LET key == CanonicalKey(h)
  IN  /\ log' = Append(log, [header |-> h, ts |-> ts, flow_id |-> id])
      /\ IF key \in DOMAIN active_flows
           THEN id = active_flows[key].flow_id /\ flow_counter' = flow_counter
           ELSE id = flow_counter + 1 /\ flow_counter' = flow_counter + 1
      /\ DOMAIN active_flows' \subseteq DOMAIN active_flows \cup {key}
      /\ \A k \in DOMAIN active_flows' \ {key} : active_flows'[k] = active_flows[k]
      /\ key \in DOMAIN active_flows' =>
           /\ ~Closes(h)
           /\ active_flows'[key].flow_id = id /\ active_flows'[key].last_seen = ts
      /\ closed \subseteq closed'
      /\ \A f \in closed' \ closed :
           \/ Closes(h) /\ f.flow_id = id /\ f.finalize_reason = "tcp_close"
           \/ /\ key \notin DOMAIN active_flows
              /\ \E k \in DOMAIN active_flows \ DOMAIN active_flows' :
                   /\ IsOldest(active_flows, k)
                   /\ f.flow_id = active_flows[k].flow_id
                   /\ f.finalize_reason = "capacity_evict"

RemovalStep ==
  /\ log' = log /\ flow_counter' = flow_counter
  /\ DOMAIN active_flows' \subseteq DOMAIN active_flows
  /\ \A k \in DOMAIN active_flows' : active_flows'[k] = active_flows[k]
  /\ closed \subseteq closed'
  /\ \A f \in closed' \ closed :
       /\ f.finalize_reason \in {"timeout", "flush"}
       /\ \E k \in DOMAIN active_flows : f.flow_id = active_flows[k].flow_id

LEMMA FinalizeSets ==
  ASSUME NEW flow \in FlowState, NEW reason \in Reasons
  PROVE  /\ Finalize(flow, reason).finalize_reason = reason
         /\ Finalize(flow, reason).flow_id = flow.flow_id
BY DEF Finalize, FlowState

(* The end of add_packet: what becomes of a table and of the flows evicted  *)
(* from it.                                                                 *)
Delivered(table, evicted, h, ts, id) ==
  LET key == CanonicalKey(h)
  IN  /\ log' = Append(log, [header |-> h, ts |-> ts, flow_id |-> id])
      /\ DOMAIN active_flows' \subseteq DOMAIN table \cup {key}
      /\ \A k \in DOMAIN active_flows' \ {key} : active_flows'[k] = table[k]
      /\ key \in DOMAIN active_flows' =>
           /\ ~Closes(h)
           /\ active_flows'[key].flow_id = id /\ active_flows'[key].last_seen = ts
      /\ closed \subseteq closed'
      /\ \A f \in closed' \ closed :
           \/ Closes(h) /\ f.flow_id = id /\ f.finalize_reason = "tcp_close"
           \/ f \in evicted

LEMMA DeliverShape ==
  ASSUME NEW table, NEW evicted, NEW flow \in FlowState,
         NEW h \in Headers, NEW ts \in Times, Deliver(table, evicted, flow, h, ts)
  PROVE  Delivered(table, evicted, h, ts, flow.flow_id)
<1> DEFINE key == CanonicalKey(h)
           updated == ApplyPacket(flow, h, ts)
           done == Finalize(updated, "tcp_close")
<1>1. ts \in Int /\ "tcp_close" \in Reasons
  BY FlowBuilderAssumption DEF Reasons
<1>2. updated \in FlowState /\ updated.flow_id = flow.flow_id
  BY <1>1, ApplyPacketType
<1>3. updated.last_seen = ts
  BY DEF ApplyPacket, FlowState
<1>4. done.flow_id = flow.flow_id /\ done.finalize_reason = "tcp_close"
  BY <1>1, <1>2, FinalizeSets
<1>5. log' = Append(log, [header |-> h, ts |-> ts, flow_id |-> flow.flow_id])
  BY DEF Deliver
<1>6. CASE Closes(h)
  <2>1. /\ active_flows' = Without(table, {key})
        /\ closed' = closed \cup (evicted \cup {done})
    BY <1>6 DEF Deliver, Return
  <2>2. DOMAIN active_flows' = DOMAIN table \ {key}
    BY <2>1 DEF Without
  <2>3. \A k \in DOMAIN active_flows' : active_flows'[k] = table[k]
    BY <2>1 DEF Without
  <2> HIDE DEF key, done
  <2> QED BY <1>4, <1>5, <1>6, <2>1, <2>2, <2>3 DEF key, Delivered
<1>7. CASE ~Closes(h)
  <2>1. /\ active_flows' = WithFlow(table, key, updated)
        /\ closed' = closed \cup evicted
    BY <1>7 DEF Deliver, Return
  <2>2. /\ DOMAIN active_flows' = DOMAIN table \cup {key}
        /\ active_flows'[key] = updated
        /\ \A k \in DOMAIN active_flows' \ {key} : active_flows'[k] = table[k]
    BY <2>1 DEF WithFlow
  <2> HIDE DEF key, updated
  <2> QED BY <1>2, <1>3, <1>5, <1>7, <2>1, <2>2 DEF key, Delivered
<1> QED BY <1>6, <1>7

LEMMA AddPacketShape ==
  ASSUME IInv, NEW h \in Headers, NEW ts \in Times, AddPacket(h, ts)
  PROVE  \E id \in Nat : PacketStep(h, ts, id)
<1> DEFINE key == CanonicalKey(h)
           new == NewFlow(flow_counter + 1, h, ts)
<1>1. flow_counter \in Nat /\ ts \in Int
  BY FlowBuilderAssumption DEF IInv
<1>2. new \in FlowState /\ new.flow_id = flow_counter + 1
  BY <1>1, NewFlowType
<1>3. \A k \in DOMAIN active_flows : active_flows[k] \in FlowState
  BY DEF IInv, Sound, IsTable
<1>4. CASE AddToActive(h, ts)
  <2>1. /\ key \in DOMAIN active_flows
        /\ Deliver(active_flows, {}, active_flows[key], h, ts)
        /\ flow_counter' = flow_counter
    BY <1>4 DEF AddToActive
  <2>2. active_flows[key].flow_id \in Nat
    BY <1>3, <2>1 DEF FlowState
  <2> DEFINE flow == active_flows[key]
  <2>3. flow \in FlowState
    BY <1>3, <2>1
  <2>4. Deliver(active_flows, {}, flow, h, ts)
    BY <2>1
  <2> HIDE DEF flow
  <2>5. Delivered(active_flows, {}, h, ts, flow.flow_id)
    BY <2>3, <2>4, DeliverShape
  <2>6. PacketStep(h, ts, flow.flow_id)
    BY <2>1, <2>5 DEF PacketStep, Delivered, flow
  <2> QED BY <2>2, <2>6 DEF flow
<1>5. CASE OpenFlow(h, ts)
  <2>1. /\ key \notin DOMAIN active_flows
        /\ Deliver(active_flows, {}, new, h, ts)
        /\ flow_counter' = flow_counter + 1
    BY <1>5 DEF OpenFlow, CreateFlow
  <2> HIDE DEF new
  <2>2. Delivered(active_flows, {}, h, ts, flow_counter + 1)
    BY <1>2, <2>1, DeliverShape
  <2>3. PacketStep(h, ts, flow_counter + 1)
    BY <2>1, <2>2 DEF PacketStep, Delivered
  <2> QED BY <1>1, <2>3
<1>6. CASE EvictAndOpen(h, ts)
  <2>1. PICK oldest \in DOMAIN active_flows :
          /\ IsOldest(active_flows, oldest)
          /\ CreateFlow(Without(active_flows, {oldest}),
                        {Finalize(active_flows[oldest], "capacity_evict")}, h, ts)
    BY <1>6 DEF EvictAndOpen
  <2> DEFINE table == Without(active_flows, {oldest})
             gone == Finalize(active_flows[oldest], "capacity_evict")
  <2>2. /\ key \notin DOMAIN active_flows
        /\ Deliver(table, {gone}, new, h, ts)
        /\ flow_counter' = flow_counter + 1
    BY <1>6, <2>1 DEF EvictAndOpen, CreateFlow
  <2>3. /\ gone.flow_id = active_flows[oldest].flow_id
        /\ gone.finalize_reason = "capacity_evict"
    <3>1. "capacity_evict" \in Reasons
      BY DEF Reasons
    <3> QED BY <1>3, <3>1, FinalizeSets
  <2>4. /\ DOMAIN table = DOMAIN active_flows \ {oldest}
        /\ \A k \in DOMAIN table : table[k] = active_flows[k]
    BY DEF Without
  <2> HIDE DEF table, gone, new
  <2>5. PacketStep(h, ts, flow_counter + 1)
    <3> HIDE DEF key
    <3>1. Delivered(table, {gone}, h, ts, flow_counter + 1)
      BY <1>2, <2>2, DeliverShape
    <3>2. oldest \in DOMAIN active_flows \ DOMAIN active_flows'
      BY <2>2, <2>4, <3>1 DEF Delivered, key
    <3>3. \A f \in closed' \ closed :
            \/ Closes(h) /\ f.flow_id = flow_counter + 1 /\ f.finalize_reason = "tcp_close"
            \/ /\ key \notin DOMAIN active_flows
               /\ \E k \in DOMAIN active_flows \ DOMAIN active_flows' :
                    /\ IsOldest(active_flows, k)
                    /\ f.flow_id = active_flows[k].flow_id
                    /\ f.finalize_reason = "capacity_evict"
      BY <2>1, <2>2, <2>3, <3>1, <3>2 DEF Delivered
    <3> QED BY <2>2, <2>4, <3>1, <3>3 DEF PacketStep, Delivered, key
  <2> QED BY <1>1, <2>5
<1> QED BY <1>4, <1>5, <1>6 DEF AddPacket

LEMMA RemoveShape ==
  ASSUME IInv, NEW keys \in SUBSET DOMAIN active_flows, NEW reason \in {"timeout", "flush"},
         Remove(keys, reason)
  PROVE  RemovalStep
<1>1. /\ active_flows' = Without(active_flows, keys)
      /\ closed' = closed \cup { Finalize(active_flows[k], reason) : k \in keys }
      /\ log' = log /\ flow_counter' = flow_counter
  BY DEF Remove, Return
<1>2. \A k \in keys : /\ Finalize(active_flows[k], reason).finalize_reason = reason
                      /\ Finalize(active_flows[k], reason).flow_id = active_flows[k].flow_id
  <2>1. reason \in Reasons
    BY DEF Reasons
  <2> QED BY <2>1, FinalizeSets DEF IInv, Sound, IsTable
<1>3. /\ DOMAIN active_flows' \subseteq DOMAIN active_flows
      /\ \A k \in DOMAIN active_flows' : active_flows'[k] = active_flows[k]
  BY <1>1 DEF Without
<1>4. \A f \in closed' \ closed :
        \E k \in keys : f = Finalize(active_flows[k], reason)
  BY <1>1
<1> QED BY <1>1, <1>2, <1>3, <1>4 DEF RemovalStep

(* Every step of the builder is one of the two.                             *)
LEMMA StepShape ==
  ASSUME IInv, [Next]_vars \/ \E src, now \in Int : SourceStats(src, now)
  PROVE  \/ \E h \in Headers, ts \in Times, id \in Nat : PacketStep(h, ts, id)
         \/ RemovalStep
<1>1. ASSUME NEW now, CheckTimeouts(now) PROVE RemovalStep
  BY <1>1, RemoveShape DEF CheckTimeouts
<1>2. CASE Flush
  BY <1>2, RemoveShape DEF Flush
<1>3. ASSUME NEW src, NEW now, SourceStats(src, now) PROVE RemovalStep
  BY <1>3 DEF SourceStats, RemovalStep
<1>4. CASE UNCHANGED vars
  BY <1>4 DEF vars, builderVars, RemovalStep
<1> QED BY <1>1, <1>2, <1>3, <1>4, AddPacketShape DEF Next

------------------------------------------------------------------------------
(* The steps preserve the invariant.                                        *)

(* Both directions of a conversation have the canonical key of either.      *)
LEMMA ConversationHasOneKey ==
  ASSUME NEW g \in Headers, NEW h \in Headers, SameConversation(g, h)
  PROVE  CanonicalKey(g) = CanonicalKey(h)
<1> DEFINE s == KeyEndpoint(g.src, g.protocol)
           d == KeyEndpoint(g.dst, g.protocol)
           t == KeyEndpoint(h.src, h.protocol)
           e == KeyEndpoint(h.dst, h.protocol)
<1>1. g \in Header /\ h \in Header
  BY KeyType
<1>2. g.protocol = h.protocol /\ {s, d} = {t, e}
  BY DEF SameConversation, Ends
<1>3. s \in Int \X Int /\ d \in Int \X Int
  BY <1>1 DEF Header, Endpoint, KeyEndpoint, NoPort
<1>4. Leq(s, d) \/ Leq(d, s)
  BY <1>3 DEF Leq
<1>5. Leq(s, d) /\ Leq(d, s) => s = d
  BY <1>3 DEF Leq
<1>6. CanonicalKey(g) = [a |-> IF Leq(s, d) THEN s ELSE d,
                         b |-> IF Leq(s, d) THEN d ELSE s, protocol |-> g.protocol]
  BY DEF CanonicalKey, IsForward
<1>7. CanonicalKey(h) = [a |-> IF Leq(t, e) THEN t ELSE e,
                         b |-> IF Leq(t, e) THEN e ELSE t, protocol |-> h.protocol]
  BY DEF CanonicalKey, IsForward
<1> HIDE DEF s, d, t, e
<1>8. (s = t /\ d = e) \/ (s = e /\ d = t)
  BY <1>2
<1> QED BY <1>2, <1>4, <1>5, <1>6, <1>7, <1>8

LEMMA AccountOfIds ==
  ASSUME IInv
  PROVE  /\ \A k \in DOMAIN active_flows :
              /\ active_flows[k].flow_id \in 1 .. flow_counter
              /\ active_flows[k].flow_id \notin Ids(closed)
         /\ \A k, j \in DOMAIN active_flows :
              active_flows[k].flow_id = active_flows[j].flow_id => k = j
         /\ \A f \in closed : f.flow_id \in Ids(closed) /\ f.flow_id \in 1 .. flow_counter
         /\ \A id \in 1 .. flow_counter :
              id \in Ids(closed) \/ \E k \in DOMAIN active_flows : id = active_flows[k].flow_id
<1>1. Once(active_flows, closed, flow_counter)
  BY DEF IInv, Sound
<1>2. \A f \in closed : f.flow_id \in Ids(closed)
  BY DEF Ids
<1> QED BY <1>1, <1>2 DEF Once

LEMMA PacketKeepsLog ==
  ASSUME LogInv, IInv', NEW h \in Headers, NEW ts \in Times, NEW id \in Nat,
         PacketStep(h, ts, id)
  PROVE  LogInv'
<1> DEFINE key == CanonicalKey(h)
           p == [header |-> h, ts |-> ts, flow_id |-> id]
<1>0. log \in Seq(Logged) /\ flow_counter \in Nat
  BY DEF LogInv, IInv
<1>1. PICK n \in Nat : n = Len(log) /\ flow_counter \in Nat /\ DOMAIN log = 1 .. n
  BY <1>0
<1>2. log' = Append(log, p)
  BY DEF PacketStep
<1>3. /\ DOMAIN log' = 1 .. n + 1
      /\ log'[n + 1].header = h /\ log'[n + 1].ts = ts /\ log'[n + 1].flow_id = id
      /\ \A i \in 1 .. n : log'[i] = log[i]
  <2>1. p \in Logged
    BY DEF Logged
  <2> QED BY <1>0, <1>1, <1>2, <2>1, AppendProperties
<1> HIDE DEF p
<1>4. /\ \A i \in 1 .. n : log[i].flow_id \in 1 .. flow_counter /\ log[i].header \in Headers
      /\ n + 1 \notin 1 .. n
      /\ \A i \in 1 .. n + 1 : i \in 1 .. n \/ i = n + 1
      /\ \A i \in 1 .. n : i \in 1 .. n + 1 /\ i < n + 1
      /\ n + 1 \in 1 .. n + 1
  <2>1. \A i \in 1 .. n : log[i] \in Logged
    BY <1>0, <1>1
  <2>2. \A i \in 1 .. n : log[i].header \in Headers
    BY <2>1 DEF Logged
  <2> QED BY <1>1, <2>2 DEF LogInv
<1>5. /\ key \in DOMAIN active_flows =>
           id = active_flows[key].flow_id /\ flow_counter' = flow_counter
      /\ key \notin DOMAIN active_flows =>
           id = flow_counter + 1 /\ flow_counter' = flow_counter + 1
  BY DEF PacketStep
(* Nobody else has the id of the packet's flow. *)
<1>6. /\ \A k \in DOMAIN active_flows : k # key => active_flows[k].flow_id # id
      /\ \A f \in closed : f.flow_id # id
      /\ id \in 1 .. flow_counter'
      /\ key \notin DOMAIN active_flows => \A i \in 1 .. flow_counter : i < id
  <2>1. CASE key \in DOMAIN active_flows
    BY <1>5, <2>1, AccountOfIds DEF LogInv
  <2>2. CASE key \notin DOMAIN active_flows
    <3>1. \A i \in 1 .. flow_counter : i # id /\ i < id
      BY <1>1, <1>5, <2>2
    <3> QED BY <1>1, <1>5, <2>2, <3>1, AccountOfIds DEF LogInv
  <2> QED BY <2>1, <2>2
<1>7. ASSUME NEW i \in 1 .. n, log[i].flow_id = id
      PROVE  /\ key \in DOMAIN active_flows
             /\ CanonicalKey(log[i].header) = key
             /\ ~Closes(log[i].header)
  <2>1. key \in DOMAIN active_flows
    BY <1>4, <1>6, <1>7
  <2> QED BY <1>1, <1>5, <1>7, <2>1 DEF LogInv, FlowHasPackets
<1>8. IsLast(n + 1, id)'
  BY <1>3, <1>4 DEF IsLast
<1>9. ASSUME NEW i \in 1 .. n, NEW other, other # id
      PROVE  IsLast(i, other)' <=> IsLast(i, other)
  BY <1>1, <1>3, <1>4, <1>9 DEF IsLast
<1>10. \A i \in DOMAIN log' : log'[i].flow_id \in 1 .. flow_counter'
  <2>1. \A i \in 1 .. flow_counter : i \in 1 .. flow_counter'
    BY <1>1, <1>5
  <2> QED BY <1>3, <1>4, <1>6, <2>1
<1>11. ASSUME NEW k \in DOMAIN active_flows' PROVE FlowHasPackets(k)'
  <2>1. CASE k = key
    <3>1. ~Closes(h) /\ active_flows'[k].flow_id = id /\ active_flows'[k].last_seen = ts
      BY <2>1 DEF PacketStep
    <3>2. ASSUME NEW i \in DOMAIN log', log'[i].flow_id = id
          PROVE  CanonicalKey(log'[i].header) = k /\ ~Closes(log'[i].header)
      BY <1>3, <1>4, <1>7, <2>1, <3>1, <3>2
    <3>3. ASSUME NEW i \in DOMAIN log', CanonicalKey(log'[i].header) = k
          PROVE  log'[i].flow_id <= id
      <4>1. CASE i = n + 1
        BY <1>3, <4>1
      <4>2. CASE i \in 1 .. n /\ key \in DOMAIN active_flows
        BY <1>1, <1>3, <1>5, <2>1, <3>3, <4>2 DEF LogInv, FlowHasPackets
      <4>3. CASE i \in 1 .. n /\ key \notin DOMAIN active_flows
        BY <1>3, <1>4, <1>6, <4>3
      <4> QED BY <1>3, <1>4, <4>1, <4>2, <4>3
    <3> QED BY <1>3, <1>4, <1>8, <3>1, <3>2, <3>3 DEF FlowHasPackets
  <2>2. CASE k # key
    <3>1. k \in DOMAIN active_flows /\ active_flows'[k] = active_flows[k]
      BY <2>2 DEF PacketStep
    <3> DEFINE flow == active_flows[k]
    <3>2. flow.flow_id # id
      BY <1>6, <2>2, <3>1
    <3>3. /\ \A i \in 1 .. n :
               /\ log[i].flow_id = flow.flow_id =>
                    CanonicalKey(log[i].header) = k /\ ~Closes(log[i].header)
               /\ CanonicalKey(log[i].header) = k => log[i].flow_id <= flow.flow_id
          /\ \E i \in 1 .. n : IsLast(i, flow.flow_id) /\ log[i].ts = flow.last_seen
      BY <1>1, <3>1 DEF LogInv, FlowHasPackets
    <3> HIDE DEF flow
    <3>4. \A i \in DOMAIN log' :
            /\ log'[i].flow_id = flow.flow_id =>
                 CanonicalKey(log'[i].header) = k /\ ~Closes(log'[i].header)
            /\ CanonicalKey(log'[i].header) = k => log'[i].flow_id <= flow.flow_id
      BY <1>3, <1>4, <2>2, <3>2, <3>3
    <3>5. \E i \in DOMAIN log' : IsLast(i, flow.flow_id)' /\ log'[i].ts = flow.last_seen
      <4>1. PICK i \in 1 .. n : IsLast(i, flow.flow_id) /\ log[i].ts = flow.last_seen
        BY <3>3
      <4>2. \A m \in 1 .. n + 1 : log'[m].flow_id = flow.flow_id => m <= i
        BY <1>1, <1>3, <1>4, <3>2, <4>1 DEF IsLast
      <4>3. i \in DOMAIN log' /\ log'[i] = log[i] /\ log'[i].flow_id = flow.flow_id
        BY <1>3, <1>4, <4>1 DEF IsLast
      <4>4. log'[i].flow_id = flow.flow_id
              /\ \A m \in DOMAIN log' : log'[m].flow_id = flow.flow_id => m <= i
        BY <1>3, <4>2, <4>3
      <4> QED BY <3>1, <4>1, <4>3, <4>4 DEF IsLast, flow
    <3> QED BY <3>1, <3>4, <3>5 DEF FlowHasPackets, flow
  <2> QED BY <2>1, <2>2
<1>12. ASSUME NEW f \in closed' PROVE ClosedForGood(f)'
  <2>1. CASE f \in closed
    <3>1. f.flow_id # id
      BY <1>6, <2>1
    <3>2. \A i \in 1 .. n : log[i].flow_id = f.flow_id =>
            (Closes(log[i].header) <=> IsLast(i, f.flow_id) /\ f.finalize_reason = "tcp_close")
      BY <1>1, <2>1 DEF LogInv, ClosedForGood
    <3>3. \A i \in 1 .. n : IsLast(i, f.flow_id)' <=> IsLast(i, f.flow_id)
      BY <1>9, <3>1
    <3> QED BY <1>3, <1>4, <3>1, <3>2, <3>3 DEF ClosedForGood
  <2>2. CASE Closes(h) /\ f.flow_id = id /\ f.finalize_reason = "tcp_close"
    <3>1. \A i \in 1 .. n : log'[i].flow_id = id =>
            ~Closes(log'[i].header) /\ ~IsLast(i, id)'
      BY <1>3, <1>4, <1>7 DEF IsLast
    <3> QED BY <1>3, <1>4, <1>8, <2>2, <3>1 DEF ClosedForGood
  <2>3. CASE /\ key \notin DOMAIN active_flows
             /\ \E k \in DOMAIN active_flows \ DOMAIN active_flows' :
                  /\ IsOldest(active_flows, k)
                  /\ f.flow_id = active_flows[k].flow_id
                  /\ f.finalize_reason = "capacity_evict"
    <3>1. PICK k \in DOMAIN active_flows :
            f.flow_id = active_flows[k].flow_id /\ f.finalize_reason = "capacity_evict"
      BY <2>3
    <3>2. f.flow_id # id
      BY <1>6, <2>3, <3>1
    <3>3. \A i \in 1 .. n : log[i].flow_id = f.flow_id => ~Closes(log[i].header)
      BY <1>1, <3>1 DEF LogInv, FlowHasPackets
    <3> QED BY <1>3, <1>4, <3>1, <3>2, <3>3 DEF ClosedForGood
  <2> QED BY <2>1, <2>2, <2>3 DEF PacketStep
<1>13. NeverSplit'
  <2>1. Ids(closed) \subseteq Ids(closed')
    BY DEF PacketStep, Ids
  <2>2. SUFFICES ASSUME NEW i \in DOMAIN log', NEW j \in DOMAIN log', i < j,
                        SameConversation(log'[i].header, log'[j].header)
                 PROVE  \/ log'[i].flow_id = log'[j].flow_id
                        \/ /\ log'[i].flow_id < log'[j].flow_id
                           /\ log'[i].flow_id \in Ids(closed')
    BY DEF NeverSplit, Ids
  <2>3. CASE j \in 1 .. n
    <3>1. i \in 1 .. n
      BY <1>1, <1>3, <2>2, <2>3
    <3> QED BY <1>1, <1>3, <2>1, <2>2, <2>3, <3>1 DEF LogInv, NeverSplit
  <2>4. CASE j = n + 1
    <3>1. i \in 1 .. n /\ log'[i] = log[i] /\ log[i].header \in Headers
          /\ log[i].flow_id \in 1 .. flow_counter
      BY <1>1, <1>3, <1>4, <2>2, <2>4
    <3>2. CanonicalKey(log[i].header) = key
      BY <1>3, <2>2, <2>4, <3>1, ConversationHasOneKey
    <3>3. CASE \E k \in DOMAIN active_flows : log[i].flow_id = active_flows[k].flow_id
      <4>1. PICK k \in DOMAIN active_flows : log[i].flow_id = active_flows[k].flow_id
        BY <3>3
      <4>2. k = key
        BY <1>1, <3>1, <3>2, <4>1 DEF LogInv, FlowHasPackets
      <4> QED BY <1>3, <1>5, <2>4, <3>1, <4>1, <4>2
    <3>4. CASE log[i].flow_id \in Ids(closed)
      <4>1. log[i].flow_id < id
        <5>1. CASE key \in DOMAIN active_flows
          <6>1. log[i].flow_id <= id
            BY <1>1, <1>5, <3>1, <3>2, <5>1 DEF LogInv, FlowHasPackets
          <6>2. log[i].flow_id # id
            BY <1>5, <3>4, <5>1, AccountOfIds DEF LogInv
          <6> QED BY <3>1, <6>1, <6>2
        <5>2. CASE key \notin DOMAIN active_flows
          BY <1>6, <3>1, <5>2
        <5> QED BY <5>1, <5>2
      <4> QED BY <1>3, <2>1, <2>4, <3>1, <3>4, <4>1
    <3> QED BY <3>1, <3>3, <3>4, AccountOfIds DEF LogInv
  <2> QED BY <1>3, <1>4, <2>3, <2>4
<1> QED BY <1>10, <1>11, <1>12, <1>13 DEF LogInv

LEMMA RemovalKeepsLog ==
  ASSUME LogInv, IInv', RemovalStep
  PROVE  LogInv'
<1>1. log' = log /\ flow_counter' = flow_counter
  BY DEF RemovalStep
<1>2. \A id : \A i \in DOMAIN log : IsLast(i, id)' <=> IsLast(i, id)
  BY <1>1 DEF IsLast
<1>3. ASSUME NEW k \in DOMAIN active_flows' PROVE FlowHasPackets(k)'
  <2>1. k \in DOMAIN active_flows /\ active_flows'[k] = active_flows[k]
    BY DEF RemovalStep
  <2> QED BY <1>1, <2>1 DEF LogInv, FlowHasPackets, IsLast
<1>4. ASSUME NEW f \in closed' PROVE ClosedForGood(f)'
  <2>1. CASE f \in closed
    BY <1>1, <1>2, <2>1 DEF LogInv, ClosedForGood
  <2>2. CASE f \notin closed
    <3>1. PICK k \in DOMAIN active_flows : f.flow_id = active_flows[k].flow_id
      BY <2>2 DEF RemovalStep
    <3>2. f.finalize_reason # "tcp_close"
      BY <2>2 DEF RemovalStep
    <3>3. \A i \in DOMAIN log : log[i].flow_id = f.flow_id => ~Closes(log[i].header)
      BY <3>1 DEF LogInv, FlowHasPackets
    <3> QED BY <1>1, <3>2, <3>3 DEF ClosedForGood
  <2> QED BY <2>1, <2>2
<1>5. NeverSplit'
  <2>1. Ids(closed) \subseteq Ids(closed')
    BY DEF RemovalStep, Ids
  <2>2. \A i, j \in DOMAIN log' :
          (i < j /\ SameConversation(log'[i].header, log'[j].header)) =>
            \/ log'[i].flow_id = log'[j].flow_id
            \/ log'[i].flow_id < log'[j].flow_id /\ log'[i].flow_id \in Ids(closed')
    BY <1>1, <2>1 DEF LogInv, NeverSplit
  <2> QED BY <2>2 DEF NeverSplit, Ids
<1> QED BY <1>1, <1>3, <1>4, <1>5 DEF LogInv

(* A step of the builder, or a query of source_stats at any time.           *)
LEMMA LogInvPreserved ==
  ASSUME LogInv, [Next]_vars \/ \E src, now \in Int : SourceStats(src, now)
  PROVE  LogInv'
<1>1. IInv
  BY DEF LogInv
<1>2. IInv'
  BY <1>1, NextPreserves, SourceStatsPreserves
<1> QED BY <1>1, <1>2, StepShape, PacketKeepsLog, RemovalKeepsLog

LEMMA LogInvariance == Spec => []LogInv
BY InitLogged, LogInvPreserved, PTL DEF Spec

LEMMA LogInvImplies == LogInv => NeverSplit /\ CloseIsLast
<1> SUFFICES ASSUME LogInv PROVE CloseIsLast
  BY DEF LogInv
<1>1. \A f \in closed : ClosedForGood(f)
  BY DEF LogInv
<1>2. ASSUME NEW i \in DOMAIN log, log[i].flow_id \in Ids(Active)
      PROVE  ~Closes(log[i].header)
  <2>1. PICK k \in DOMAIN active_flows : log[i].flow_id = active_flows[k].flow_id
    BY <1>2 DEF Ids, Active
  <2> QED BY <2>1 DEF LogInv, FlowHasPackets
<1> QED BY <1>1, <1>2 DEF CloseIsLast, ClosedForGood

(* The packets of a conversation, in either direction, go to one flow until *)
(* that flow is closed (flow_builder.py:5-12, 155-188).                     *)
THEOREM ConversationsStayTogether == Spec => []NeverSplit
BY LogInvariance, LogInvImplies, PTL

(* A FIN or RST is the last packet of its flow, and a flow is reported as   *)
(* "tcp_close" only for one (flow_builder.py:190-200).                      *)
THEOREM NothingAfterClose == Spec => []CloseIsLast
BY LogInvariance, LogInvImplies, PTL

------------------------------------------------------------------------------
(* Eviction                                                                 *)

(* last_seen of an active flow is the time of its latest packet.            *)
LEMMA LastSeenIsLatest ==
  ASSUME LogInv, NEW k \in DOMAIN active_flows
  PROVE  LatestOf(active_flows[k].flow_id) = active_flows[k].last_seen
<1> DEFINE flow == active_flows[k]
           chosen == CHOOSE i \in DOMAIN log : IsLast(i, flow.flow_id)
<1>1. PICK i \in DOMAIN log : IsLast(i, flow.flow_id) /\ log[i].ts = flow.last_seen
  BY DEF LogInv, FlowHasPackets
<1> HIDE DEF flow
<1>2. chosen \in DOMAIN log /\ IsLast(chosen, flow.flow_id)
  BY <1>1
<1> HIDE DEF chosen
<1>3. DOMAIN log \subseteq Int
  BY DEF LogInv, IInv
<1>4. chosen <= i /\ i <= chosen
  BY <1>1, <1>2 DEF IsLast
<1>5. chosen = i
  BY <1>1, <1>2, <1>3, <1>4
<1> QED BY <1>1, <1>5 DEF LatestOf, chosen, flow

LEMMA EvictionStep ==
  ASSUME LogInv, [Next]_vars,
         NEW f \in closed' \ closed, f.finalize_reason = "capacity_evict",
         NEW k \in DOMAIN active_flows \cap DOMAIN active_flows'
  PROVE  LatestOf(f.flow_id) <= LatestOf(active_flows[k].flow_id)
<1>1. IInv
  BY DEF LogInv
<1>2. ~RemovalStep
  BY DEF RemovalStep
<1>3. PICK h \in Headers, ts \in Times, id \in Nat : PacketStep(h, ts, id)
  BY <1>1, <1>2, StepShape
<1>4. PICK oldest \in DOMAIN active_flows \ DOMAIN active_flows' :
        IsOldest(active_flows, oldest) /\ f.flow_id = active_flows[oldest].flow_id
  BY <1>3 DEF PacketStep
<1>5. /\ active_flows[oldest].last_seen \in Int
      /\ active_flows[k].last_seen \in Int
  BY <1>1 DEF IInv, Sound, IsTable, FlowState
<1>6. active_flows[oldest].last_seen <= active_flows[k].last_seen
  BY <1>4, <1>5 DEF IsOldest
<1> QED BY <1>4, <1>6, LastSeenIsLatest

(* Whatever the packets, a full table makes room by evicting a flow that    *)
(* has been silent for as long as any other (flow_builder.py:127-143).      *)
THEOREM EvictionTakesTheSilent == Spec => EvictsLeastRecent
<1>1. LogInv /\ [Next]_vars =>
        [\A f \in closed' \ closed : f.finalize_reason = "capacity_evict" =>
           \A k \in DOMAIN active_flows \cap DOMAIN active_flows' :
             LatestOf(f.flow_id) <= LatestOf(active_flows[k].flow_id)]_vars
  BY EvictionStep
<1> QED BY <1>1, LogInvariance, PTL DEF Spec, EvictsLeastRecent
------------------------------------------------------------------------------
(* The summaries                                                            *)

(* The capped deque of timestamps, by its elements: the n-th from the end   *)
(* stays in its place until max_history_per_flow newer ones push it out.    *)
LEMMA CappedElements ==
  ASSUME NEW s \in Seq(Int), NEW ts \in Int, NEW n \in Nat, max_history_per_flow \in Nat,
         Len(s) = IF n < max_history_per_flow THEN n ELSE max_history_per_flow
  PROVE  LET stamps == Append(s, ts)
             t == IF Len(stamps) > max_history_per_flow THEN Tail(stamps) ELSE stamps
             kept == IF n + 1 < max_history_per_flow THEN n + 1 ELSE max_history_per_flow
         IN  /\ Len(t) = kept
             /\ 0 < kept => t[kept] = ts
             /\ \A l \in Nat : l + 1 < kept =>
                  l < Len(s) /\ t[kept - (l + 1)] = s[Len(s) - l]
<1> DEFINE stamps == Append(s, ts)
           t == IF Len(stamps) > max_history_per_flow THEN Tail(stamps) ELSE stamps
           kept == IF n + 1 < max_history_per_flow THEN n + 1 ELSE max_history_per_flow
<1>1. PICK k \in Nat : k = Len(s)
  OBVIOUS
<1>2. /\ stamps \in Seq(Int) /\ Len(stamps) = k + 1
      /\ stamps[k + 1] = ts
      /\ \A i \in 1 .. k : stamps[i] = s[i]
  BY <1>1, AppendProperties
<1> HIDE DEF stamps
<1>3. CASE n < max_history_per_flow
  <2>1. k = n /\ kept = n + 1
    BY <1>1, <1>3
  <2>2. t = stamps
    BY <1>2, <1>3, <2>1
  <2> HIDE DEF t, kept
  <2>3. \A l \in Nat : l + 1 < kept =>
          /\ l < k /\ kept - (l + 1) = k - l /\ k - l \in 1 .. k
    BY <1>1, <2>1
  <2> QED BY <1>1, <1>2, <2>1, <2>2, <2>3 DEF t, kept, stamps
<1>4. CASE ~(n < max_history_per_flow)
  <2>1. k = max_history_per_flow /\ kept = k
    BY <1>1, <1>4
  <2>2. t = Tail(stamps)
    BY <1>2, <2>1
  <2>3. stamps # <<>>
    BY <1>2, EmptySeq
  <2>4. Len(t) = k /\ \A i \in 1 .. k : t[i] = stamps[i + 1]
    BY <1>1, <1>2, <2>2, <2>3, HeadTailProperties
  <2> HIDE DEF t, kept
  <2>5. 0 < kept => t[kept] = ts
    BY <1>1, <1>2, <2>1, <2>4
  <2>6. ASSUME NEW l \in Nat, l + 1 < kept
        PROVE  l < Len(s) /\ t[kept - (l + 1)] = s[Len(s) - l]
    <3>1. l < k /\ k - l \in 1 .. k
      BY <1>1, <2>1, <2>6
    <3>2. k - (l + 1) \in 1 .. k /\ (k - (l + 1)) + 1 = k - l
      BY <1>1, <2>1, <2>6
    <3> QED BY <1>1, <1>2, <2>1, <2>4, <3>1, <3>2
  <2> QED BY <2>1, <2>4, <2>5, <2>6 DEF t, kept, stamps
<1> QED BY <1>3, <1>4
(* One more packet of a flow: the positions it has in the log.              *)
LEMMA PositionsGrow ==
  ASSUME NEW packets \in Seq(Logged), NEW p \in Logged
  PROVE  /\ IsFiniteSet(PacketsOf(packets, p.flow_id))
         /\ PacketsOf(packets, p.flow_id) \subseteq 1 .. Len(packets)
         /\ PacketsOf(Append(packets, p), p.flow_id)
              = PacketsOf(packets, p.flow_id) \cup {Len(packets) + 1}
         /\ Append(packets, p)[Len(packets) + 1] = p
         /\ \A i \in DOMAIN packets : Append(packets, p)[i] = packets[i]
         /\ \A id : id # p.flow_id =>
              PacketsOf(Append(packets, p), id) = PacketsOf(packets, id)
<1>1. PICK n \in Nat : n = Len(packets) /\ DOMAIN packets = 1 .. n
  OBVIOUS
<1> DEFINE new == Append(packets, p)
<1>2. /\ DOMAIN new = 1 .. n + 1 /\ new[n + 1] = p
      /\ \A i \in 1 .. n : new[i] = packets[i]
  BY <1>1, AppendProperties
<1> HIDE DEF new
<1>3. 1 .. n + 1 = (1 .. n) \cup {n + 1} /\ n + 1 \notin 1 .. n
  OBVIOUS
<1>4. \A id : PacketsOf(packets, id) \subseteq 1 .. n
  BY <1>1 DEF PacketsOf
<1>5. IsFiniteSet(PacketsOf(packets, p.flow_id))
  BY <1>4, FS_Interval, FS_Subset, n \in Int, 1 \in Int
<1>6. PacketsOf(new, p.flow_id) = PacketsOf(packets, p.flow_id) \cup {n + 1}
  BY <1>1, <1>2, <1>3 DEF PacketsOf
<1>7. \A id : id # p.flow_id => PacketsOf(new, id) = PacketsOf(packets, id)
  BY <1>1, <1>2, <1>3 DEF PacketsOf
<1> QED BY <1>1, <1>2, <1>4, <1>5, <1>6, <1>7 DEF new

(* The counts and timestamps of a summary hold of a flow that has no packet *)
(* yet; its first and its latest packet it has to have.                     *)
CountedAt(mine, packets, flow) ==
  LET n == Cardinality(mine)
      fromA == { i \in mine : KeyEndpoint(packets[i].header.src, packets[i].header.protocol)
                                = flow.canonical_key.a }
      kept == IF n < max_history_per_flow THEN n ELSE max_history_per_flow
      later(i) == Cardinality({ m \in mine : m > i })
  IN  /\ flow.packet_count = n
      /\ flow.forward_packet_count = Cardinality(fromA)
      /\ flow.forward_packet_count + flow.reverse_packet_count = n
      /\ Len(flow.packet_timestamps) = kept
      /\ \A i \in mine :
           later(i) < kept => flow.packet_timestamps[kept - later(i)] = packets[i].ts

Counted(packets, flow) == CountedAt(PacketsOf(packets, flow.flow_id), packets, flow)

Dated(packets, flow) ==
  LET mine == PacketsOf(packets, flow.flow_id)
  IN  /\ \E i \in mine : IsLeast(i, mine) /\ packets[i].ts = flow.start_time
      /\ \E i \in mine : IsGreatest(i, mine) /\ packets[i].ts = flow.last_seen

LEMMA SummaryParts ==
  ASSUME NEW packets, NEW flow
  PROVE  SummaryOf(packets, flow) <=> Counted(packets, flow) /\ Dated(packets, flow)
BY DEF SummaryOf, Counted, CountedAt, Dated

(* The sender of a packet is the first end of its key exactly when the      *)
(* packet counts as forward.                                                *)
LEMMA ForwardIsFromA ==
  ASSUME NEW h \in Headers
  PROVE  IsForward(h) <=> KeyEndpoint(h.src, h.protocol) = CanonicalKey(h).a
<1> DEFINE s == KeyEndpoint(h.src, h.protocol)
           d == KeyEndpoint(h.dst, h.protocol)
<1>1. s \in Int \X Int /\ d \in Int \X Int
  BY KeyType DEF Header, Endpoint, KeyEndpoint, NoPort
<1>2. s = d => Leq(s, d)
  BY <1>1 DEF Leq
<1>3. IsForward(h) <=> Leq(s, d)
  BY DEF IsForward
<1>4. CanonicalKey(h).a = IF Leq(s, d) THEN s ELSE d
  BY DEF CanonicalKey, IsForward
<1> HIDE DEF s, d
<1>5. Leq(s, d) <=> s = CanonicalKey(h).a
  BY <1>2, <1>4
<1> QED BY <1>3, <1>5 DEF s

LEMMA CountedGrows ==
  ASSUME NEW packets \in Seq(Logged), NEW flow \in FlowState,
         NEW h \in Headers, NEW ts \in Times,
         flow.canonical_key = CanonicalKey(h), Counted(packets, flow)
  PROVE  Counted(Append(packets, [header |-> h, ts |-> ts, flow_id |-> flow.flow_id]),
                 ApplyPacket(flow, h, ts))
<1> DEFINE p == [header |-> h, ts |-> ts, flow_id |-> flow.flow_id]
           new == Append(packets, p)
           updated == ApplyPacket(flow, h, ts)
           mine == PacketsOf(packets, flow.flow_id)
           mineNew == PacketsOf(new, flow.flow_id)
           FromA(log0, i) == KeyEndpoint(log0[i].header.src, log0[i].header.protocol)
                               = CanonicalKey(h).a
           fromA == { i \in mine : FromA(packets, i) }
           fromANew == { i \in mineNew : FromA(new, i) }
           c == flow.packet_count
           Kept(n) == IF n < max_history_per_flow THEN n ELSE max_history_per_flow
           Later(i) == Cardinality({ m \in mine : m > i })
           LaterNew(i) == Cardinality({ m \in mineNew : m > i })
           stamps == Append(flow.packet_timestamps, ts)
           kept == IF Len(stamps) > max_history_per_flow THEN Tail(stamps) ELSE stamps
<1>1. /\ p \in Logged /\ p.flow_id = flow.flow_id /\ p.ts = ts /\ p.header = h
      /\ ts \in Int /\ max_history_per_flow \in Nat
  BY FlowBuilderAssumption DEF Logged, FlowState
<1>2. /\ c \in Nat /\ flow.forward_packet_count \in Nat /\ flow.reverse_packet_count \in Nat
      /\ flow.packet_timestamps \in Seq(Int)
  BY DEF FlowState
<1>3. /\ updated.flow_id = flow.flow_id
      /\ updated.canonical_key = CanonicalKey(h)
      /\ updated.packet_count = c + 1
      /\ updated.forward_packet_count = IF IsForward(h) THEN flow.forward_packet_count + 1
                                        ELSE flow.forward_packet_count
      /\ updated.reverse_packet_count = IF IsForward(h) THEN flow.reverse_packet_count
                                        ELSE flow.reverse_packet_count + 1
      /\ updated.packet_timestamps = kept
  BY DEF ApplyPacket, FlowState
<1>4. PICK N \in Nat : N = Len(packets) /\ DOMAIN packets = 1 .. N
  OBVIOUS
<1> HIDE DEF p, new, updated
<1>5. /\ IsFiniteSet(mine) /\ mine \subseteq 1 .. N
      /\ mineNew = mine \cup {N + 1}
      /\ new[N + 1] = p
      /\ \A i \in 1 .. N : new[i] = packets[i]
      /\ N + 1 \notin mine
  BY <1>1, <1>4, PositionsGrow DEF new
<1>6. /\ c = Cardinality(mine)
      /\ flow.forward_packet_count = Cardinality(fromA)
      /\ flow.forward_packet_count + flow.reverse_packet_count = c
      /\ Len(flow.packet_timestamps) = Kept(c)
      /\ \A i \in mine : Later(i) < Kept(c) =>
           flow.packet_timestamps[Kept(c) - Later(i)] = packets[i].ts
  BY DEF Counted, CountedAt
<1> HIDE DEF mine, mineNew
<1>7. Cardinality(mineNew) = c + 1
  <2>1. c = Cardinality(mine)
    BY <1>6
  <2>2. Cardinality(mine \cup {N + 1}) = Cardinality(mine) + 1
    BY <1>5, FS_AddElement
  <2> QED BY <1>5, <2>1, <2>2
<1>8. updated.forward_packet_count = Cardinality(fromANew)
  <2>1. IsFiniteSet(fromA) /\ N + 1 \notin fromA
    BY <1>5, FS_Subset
  <2>2. \A i \in mine : FromA(new, i) <=> FromA(packets, i)
    BY <1>5
  <2>3. FromA(new, N + 1) <=> IsForward(h)
    BY <1>1, <1>5, ForwardIsFromA
  <2>4. fromANew = IF IsForward(h) THEN fromA \cup {N + 1} ELSE fromA
    BY <1>5, <2>2, <2>3
  <2> HIDE DEF fromA, fromANew
  <2>5. Cardinality(fromA \cup {N + 1}) = Cardinality(fromA) + 1
    BY <2>1, FS_AddElement
  <2> QED BY <1>3, <1>6, <2>4, <2>5
<1>9. updated.forward_packet_count + updated.reverse_packet_count = c + 1
  BY <1>2, <1>3, <1>6
<1>10. /\ LaterNew(N + 1) = 0
       /\ \A i \in mine : Later(i) \in Nat /\ LaterNew(i) = Later(i) + 1
  <2>1. { m \in mineNew : m > N + 1 } = {}
    <3>1. \A m \in mineNew : m \in 1 .. N \/ m = N + 1
      BY <1>5
    <3>2. \A m \in mineNew : ~(m > N + 1)
      BY <3>1
    <3> QED BY <3>2
  <2>2. LaterNew(N + 1) = 0
    BY <2>1, FS_EmptySet
  <2>3. ASSUME NEW i \in mine PROVE Later(i) \in Nat /\ LaterNew(i) = Later(i) + 1
    <3> DEFINE after == { m \in mine : m > i }
    <3>1. IsFiniteSet(after) /\ N + 1 \notin after
      BY <1>5, FS_Subset
    <3>2. N + 1 > i
      BY <1>4, <1>5, <2>3
    <3>3. { m \in mineNew : m > i } = after \cup {N + 1}
      BY <1>5, <3>2
    <3> HIDE DEF after
    <3>4. Cardinality(after) \in Nat /\ Cardinality(after \cup {N + 1}) = Cardinality(after) + 1
      BY <3>1, FS_AddElement, FS_CardinalityType
    <3> QED BY <3>3, <3>4 DEF after
  <2> QED BY <2>2, <2>3
<1>11. /\ Len(kept) = Kept(c + 1)
       /\ 0 < Kept(c + 1) => kept[Kept(c + 1)] = ts
       /\ \A l \in Nat : l + 1 < Kept(c + 1) =>
            /\ l < Kept(c)
            /\ kept[Kept(c + 1) - (l + 1)] = flow.packet_timestamps[Kept(c) - l]
  <2> DEFINE s == flow.packet_timestamps
  <2>1. Len(s) = IF c < max_history_per_flow THEN c ELSE max_history_per_flow
    BY <1>6
  <2>2. s \in Seq(Int) /\ c \in Nat /\ ts \in Int /\ max_history_per_flow \in Nat
    BY <1>1, <1>2
  <2> HIDE DEF s, c
  <2>3. /\ Len(kept) = Kept(c + 1)
        /\ 0 < Kept(c + 1) => kept[Kept(c + 1)] = ts
        /\ \A l \in Nat : l + 1 < Kept(c + 1) =>
             l < Len(s) /\ kept[Kept(c + 1) - (l + 1)] = s[Len(s) - l]
    BY <2>1, <2>2, CappedElements DEF s
  <2>4. Len(s) = Kept(c)
    BY <2>1
  <2> HIDE DEF kept, Kept
  <2> QED BY <2>3, <2>4 DEF s
<1> HIDE DEF kept, Later, LaterNew
<1>12. ASSUME NEW i \in mineNew, LaterNew(i) < Kept(c + 1)
       PROVE  kept[Kept(c + 1) - LaterNew(i)] = new[i].ts
  <2>1. CASE i = N + 1
    <3>1. LaterNew(i) = 0 /\ new[i].ts = ts
      BY <1>1, <1>5, <1>10, <2>1
    <3>2. Kept(c + 1) \in Nat
      BY <1>1, <1>2
    <3> HIDE DEF Kept
    <3> QED BY <1>11, <1>12, <3>1, <3>2
  <2>2. CASE i \in mine
    <3> DEFINE l == Later(i)
    <3>1. l \in Nat /\ LaterNew(i) = l + 1
      BY <1>10, <2>2
    <3> HIDE DEF l, Kept
    <3>2. l < Kept(c) /\ kept[Kept(c + 1) - (l + 1)] = flow.packet_timestamps[Kept(c) - l]
      BY <1>11, <1>12, <3>1
    <3>3. flow.packet_timestamps[Kept(c) - l] = packets[i].ts
      BY <1>6, <2>2, <3>2 DEF l
    <3>4. new[i] = packets[i]
      BY <1>5, <2>2
    <3> QED BY <3>1, <3>2, <3>3, <3>4
  <2> QED BY <1>5, <2>1, <2>2
<1>13. CountedAt(mineNew, new, updated)
  <2>1. updated.packet_timestamps = kept /\ updated.canonical_key.a = CanonicalKey(h).a
    BY <1>3
  <2> QED BY <1>3, <1>7, <1>8, <1>9, <1>11, <1>12, <2>1 DEF CountedAt, LaterNew
<1>14. Counted(new, updated)
  BY <1>3, <1>13 DEF Counted, mineNew
<1> QED BY <1>14 DEF new, updated, p

LEMMA DatedGrows ==
  ASSUME NEW packets \in Seq(Logged), NEW flow \in FlowState,
         NEW h \in Headers, NEW ts \in Times,
         \/ Dated(packets, flow)
         \/ PacketsOf(packets, flow.flow_id) = {} /\ flow.start_time = ts
  PROVE  Dated(Append(packets, [header |-> h, ts |-> ts, flow_id |-> flow.flow_id]),
               ApplyPacket(flow, h, ts))
<1> DEFINE p == [header |-> h, ts |-> ts, flow_id |-> flow.flow_id]
           new == Append(packets, p)
           updated == ApplyPacket(flow, h, ts)
           mine == PacketsOf(packets, flow.flow_id)
           mineNew == PacketsOf(new, flow.flow_id)
<1>1. p \in Logged /\ p.flow_id = flow.flow_id /\ p.ts = ts
  BY FlowBuilderAssumption DEF Logged, FlowState
<1>2. /\ updated.flow_id = flow.flow_id
      /\ updated.start_time = flow.start_time /\ updated.last_seen = ts
  BY DEF ApplyPacket, FlowState
<1>3. PICK N \in Nat : N = Len(packets) /\ DOMAIN packets = 1 .. N
  OBVIOUS
<1> HIDE DEF p, new, updated
<1>4. /\ mine \subseteq 1 .. N
      /\ mineNew = mine \cup {N + 1}
      /\ new[N + 1] = p
      /\ \A i \in 1 .. N : new[i] = packets[i]
  BY <1>1, <1>3, PositionsGrow DEF new
<1> HIDE DEF mineNew
<1>5. IsGreatest(N + 1, mineNew) /\ new[N + 1].ts = updated.last_seen
  BY <1>1, <1>2, <1>4 DEF IsGreatest
<1>6. \E i \in mineNew : IsLeast(i, mineNew) /\ new[i].ts = updated.start_time
  <2>1. CASE Dated(packets, flow)
    <3>1. PICK i \in mine : IsLeast(i, mine) /\ packets[i].ts = flow.start_time
      BY <2>1 DEF Dated
    <3>2. i \in 1 .. N /\ i <= N + 1
      BY <1>4
    <3>3. IsLeast(i, mineNew) /\ new[i].ts = updated.start_time
      BY <1>2, <1>4, <3>1, <3>2 DEF IsLeast
    <3> QED BY <3>3 DEF IsLeast
  <2>2. CASE mine = {} /\ flow.start_time = ts
    BY <1>1, <1>2, <1>4, <2>2 DEF IsLeast
  <2> QED BY <2>1, <2>2
<1>7. Dated(new, updated)
  BY <1>2, <1>4, <1>5, <1>6 DEF Dated, mineNew
<1> QED BY <1>7 DEF new, updated, p

(* A packet of another flow, and the reason a flow is closed with, change   *)
(* nothing in a flow's summary.                                             *)
LEMMA SummaryElsewhere ==
  ASSUME NEW packets \in Seq(Logged), NEW p \in Logged,
         NEW flow, flow.flow_id # p.flow_id, SummaryOf(packets, flow)
  PROVE  SummaryOf(Append(packets, p), flow)
<1> DEFINE new == Append(packets, p)
           mine == PacketsOf(packets, flow.flow_id)
<1>1. PacketsOf(new, flow.flow_id) = mine
  BY PositionsGrow
<1>2. \A i \in mine : i \in DOMAIN packets /\ new[i] = packets[i]
  BY PositionsGrow DEF PacketsOf
<1> HIDE DEF new
<1>3. CountedAt(mine, packets, flow) /\ Dated(packets, flow)
  BY SummaryParts DEF Counted
<1> HIDE DEF mine
<1>4. { i \in mine : KeyEndpoint(new[i].header.src, new[i].header.protocol)
                       = flow.canonical_key.a }
        = { i \in mine : KeyEndpoint(packets[i].header.src, packets[i].header.protocol)
                           = flow.canonical_key.a }
  BY <1>2
<1>5. CountedAt(mine, new, flow)
  BY <1>2, <1>3, <1>4 DEF CountedAt
<1>6. Dated(new, flow)
  BY <1>1, <1>2, <1>3 DEF Dated, mine
<1> QED BY <1>1, <1>5, <1>6, SummaryParts DEF Counted, new

LEMMA SummaryFinalized ==
  ASSUME NEW packets, NEW flow \in FlowState, NEW reason, SummaryOf(packets, flow)
  PROVE  SummaryOf(packets, Finalize(flow, reason))
<1> DEFINE f == Finalize(flow, reason)
<1>1. /\ f.flow_id = flow.flow_id /\ f.canonical_key = flow.canonical_key
      /\ f.packet_count = flow.packet_count
      /\ f.forward_packet_count = flow.forward_packet_count
      /\ f.reverse_packet_count = flow.reverse_packet_count
      /\ f.packet_timestamps = flow.packet_timestamps
      /\ f.start_time = flow.start_time /\ f.last_seen = flow.last_seen
  BY DEF Finalize, FlowState
<1> HIDE DEF f
<1>2. SummaryOf(packets, f)
  BY <1>1 DEF SummaryOf
<1> QED BY <1>2 DEF f

(* The flow that add_packet applies its packet to.                          *)
FlowFor(h, ts) ==
  IF CanonicalKey(h) \in DOMAIN active_flows THEN active_flows[CanonicalKey(h)]
  ELSE NewFlow(flow_counter + 1, h, ts)

(* add_packet updates that flow, in the table or as it closes it, and lets  *)
(* every other flow be, or evicts it as it is.                              *)
PacketApplied(h, ts) ==
  LET key == CanonicalKey(h)
      flow == FlowFor(h, ts)
      updated == ApplyPacket(flow, h, ts)
  IN  /\ log' = Append(log, [header |-> h, ts |-> ts, flow_id |-> flow.flow_id])
      /\ \A k \in DOMAIN active_flows' :
           \/ k = key /\ active_flows'[k] = updated
           \/ k # key /\ k \in DOMAIN active_flows /\ active_flows'[k] = active_flows[k]
      /\ \A f \in closed' :
           \/ f \in closed
           \/ f = Finalize(updated, "tcp_close")
           \/ /\ key \notin DOMAIN active_flows
              /\ \E k \in DOMAIN active_flows :
                   f = Finalize(active_flows[k], "capacity_evict")

LEMMA DeliverApplies ==
  ASSUME NEW table, NEW evicted, NEW flow, NEW h, NEW ts,
         Deliver(table, evicted, flow, h, ts)
  PROVE  LET key == CanonicalKey(h)
             updated == ApplyPacket(flow, h, ts)
         IN  /\ log' = Append(log, [header |-> h, ts |-> ts, flow_id |-> flow.flow_id])
             /\ \A k \in DOMAIN active_flows' :
                  \/ k = key /\ active_flows'[k] = updated
                  \/ k # key /\ k \in DOMAIN table /\ active_flows'[k] = table[k]
             /\ \A f \in closed' :
                  f \in closed \/ f = Finalize(updated, "tcp_close") \/ f \in evicted
<1> DEFINE key == CanonicalKey(h)
           updated == ApplyPacket(flow, h, ts)
           done == Finalize(updated, "tcp_close")
<1>1. log' = Append(log, [header |-> h, ts |-> ts, flow_id |-> flow.flow_id])
  BY DEF Deliver
<1>2. CASE Closes(h)
  <2>1. active_flows' = Without(table, {key}) /\ closed' = closed \cup (evicted \cup {done})
    BY <1>2 DEF Deliver, Return
  <2> HIDE DEF key, updated, done
  <2> QED BY <1>1, <2>1 DEF Without, key, updated, done
<1>3. CASE ~Closes(h)
  <2>1. active_flows' = WithFlow(table, key, updated) /\ closed' = closed \cup evicted
    BY <1>3 DEF Deliver, Return
  <2> HIDE DEF key, updated, done
  <2> QED BY <1>1, <2>1 DEF WithFlow, key, updated, done
<1> QED BY <1>2, <1>3

LEMMA AddPacketApplies ==
  ASSUME NEW h, NEW ts, AddPacket(h, ts)
  PROVE  PacketApplied(h, ts)
<1> DEFINE key == CanonicalKey(h)
<1>1. CASE AddToActive(h, ts)
  <2>1. key \in DOMAIN active_flows /\ Deliver(active_flows, {}, FlowFor(h, ts), h, ts)
    BY <1>1 DEF AddToActive, FlowFor
  <2> QED BY <2>1, DeliverApplies DEF PacketApplied
<1>2. CASE OpenFlow(h, ts)
  <2>1. key \notin DOMAIN active_flows /\ Deliver(active_flows, {}, FlowFor(h, ts), h, ts)
    BY <1>2 DEF OpenFlow, CreateFlow, FlowFor
  <2> QED BY <2>1, DeliverApplies DEF PacketApplied
<1>3. CASE EvictAndOpen(h, ts)
  <2>1. PICK oldest \in DOMAIN active_flows :
          CreateFlow(Without(active_flows, {oldest}),
                     {Finalize(active_flows[oldest], "capacity_evict")}, h, ts)
    BY <1>3 DEF EvictAndOpen
  <2> DEFINE table == Without(active_flows, {oldest})
             gone == Finalize(active_flows[oldest], "capacity_evict")
  <2>2. key \notin DOMAIN active_flows /\ Deliver(table, {gone}, FlowFor(h, ts), h, ts)
    BY <1>3, <2>1 DEF EvictAndOpen, CreateFlow, FlowFor
  <2>3. \A k \in DOMAIN table : k \in DOMAIN active_flows /\ table[k] = active_flows[k]
    BY DEF Without
  <2> HIDE DEF table
  <2> QED BY <2>2, <2>3, DeliverApplies DEF PacketApplied
<1> QED BY <1>1, <1>2, <1>3 DEF AddPacket

(* Every flow's summary is exact, and a flow is filed under its own key.    *)
SummaryInv ==
  /\ LogInv
  /\ \A k \in DOMAIN active_flows :
       active_flows[k].canonical_key = k /\ SummaryOf(log, active_flows[k])
  /\ \A f \in closed : SummaryOf(log, f)

(* The flow of a packet has been summed up so far, or has had no packet.    *)
LEMMA FlowForIsCounted ==
  ASSUME SummaryInv, NEW h \in Headers, NEW ts \in Times
  PROVE  LET flow == FlowFor(h, ts)
         IN  /\ flow \in FlowState
             /\ flow.canonical_key = CanonicalKey(h)
             /\ Counted(log, flow)
             /\ \/ Dated(log, flow)
                \/ PacketsOf(log, flow.flow_id) = {} /\ flow.start_time = ts
             /\ \A k \in DOMAIN active_flows :
                  k # CanonicalKey(h) => active_flows[k].flow_id # flow.flow_id
             /\ \A f \in closed : f.flow_id # flow.flow_id
<1> DEFINE key == CanonicalKey(h)
           flow == FlowFor(h, ts)
<1>1. IInv /\ flow_counter \in Nat /\ ts \in Int
  BY FlowBuilderAssumption DEF SummaryInv, LogInv, IInv
<1>2. CASE key \in DOMAIN active_flows
  <2>1. flow = active_flows[key]
    BY <1>2 DEF FlowFor
  <2> HIDE DEF flow, key
  <2>2. flow \in FlowState /\ flow.canonical_key = key /\ SummaryOf(log, flow)
    BY <1>1, <1>2, <2>1 DEF SummaryInv, IInv, Sound, IsTable
  <2>3. /\ \A k \in DOMAIN active_flows : k # key => active_flows[k].flow_id # flow.flow_id
        /\ \A f \in closed : f.flow_id # flow.flow_id
    BY <1>1, <1>2, <2>1, AccountOfIds
  <2> QED BY <2>2, <2>3, SummaryParts DEF flow, key
<1>3. CASE key \notin DOMAIN active_flows
  <2>1. flow = NewFlow(flow_counter + 1, h, ts)
    BY <1>3 DEF FlowFor
  <2> HIDE DEF flow
  <2>2. flow \in FlowState /\ flow.flow_id = flow_counter + 1
    BY <1>1, <2>1, NewFlowType
  <2>3. /\ flow.canonical_key = key /\ flow.start_time = ts
        /\ flow.packet_count = 0 /\ flow.forward_packet_count = 0
        /\ flow.reverse_packet_count = 0 /\ flow.packet_timestamps = <<>>
    BY <2>1 DEF NewFlow
  <2>4. \A i \in 1 .. flow_counter : i # flow.flow_id
    BY <1>1, <2>2
  <2>5. PacketsOf(log, flow.flow_id) = {}
    BY <2>4 DEF PacketsOf, SummaryInv, LogInv
  <2>6. Counted(log, flow)
    <3>1. Cardinality({}) = 0 /\ max_history_per_flow \in Nat
      BY FS_EmptySet, FlowBuilderAssumption
    <3>2. Len(flow.packet_timestamps) = 0
      BY <2>3
    <3>3. CountedAt({}, log, flow)
      BY <2>3, <3>1, <3>2 DEF CountedAt
    <3> QED BY <2>5, <3>3 DEF Counted
  <2>7. /\ \A k \in DOMAIN active_flows : active_flows[k].flow_id # flow.flow_id
        /\ \A f \in closed : f.flow_id # flow.flow_id
    BY <1>1, <2>4, AccountOfIds
  <2> QED BY <2>2, <2>3, <2>5, <2>6, <2>7 DEF flow
<1> QED BY <1>2, <1>3

LEMMA PacketKeepsSummaries ==
  ASSUME SummaryInv, LogInv', NEW h \in Headers, NEW ts \in Times, PacketApplied(h, ts)
  PROVE  SummaryInv'
<1> DEFINE key == CanonicalKey(h)
           flow == FlowFor(h, ts)
           updated == ApplyPacket(flow, h, ts)
           p == [header |-> h, ts |-> ts, flow_id |-> flow.flow_id]
<1>1. /\ flow \in FlowState /\ flow.canonical_key = key
      /\ Counted(log, flow)
      /\ \/ Dated(log, flow)
         \/ PacketsOf(log, flow.flow_id) = {} /\ flow.start_time = ts
      /\ \A k \in DOMAIN active_flows : k # key => active_flows[k].flow_id # flow.flow_id
      /\ \A f \in closed : f.flow_id # flow.flow_id
  BY FlowForIsCounted
<1>2. /\ log' = Append(log, p)
      /\ \A k \in DOMAIN active_flows' :
           \/ k = key /\ active_flows'[k] = updated
           \/ k # key /\ k \in DOMAIN active_flows /\ active_flows'[k] = active_flows[k]
      /\ \A f \in closed' :
           \/ f \in closed
           \/ f = Finalize(updated, "tcp_close")
           \/ /\ key \notin DOMAIN active_flows
              /\ \E k \in DOMAIN active_flows :
                   f = Finalize(active_flows[k], "capacity_evict")
  BY DEF PacketApplied
<1>3. ts \in Int /\ p \in Logged /\ p.flow_id = flow.flow_id
  BY <1>1, FlowBuilderAssumption DEF Logged, FlowState
<1>4. log \in Seq(Logged) /\ IInv
  BY DEF SummaryInv, LogInv, IInv
<1> HIDE DEF flow
<1>5. updated \in FlowState /\ updated.canonical_key = key
  <2>1. updated \in FlowState
    BY <1>1, <1>3, ApplyPacketType
  <2>2. updated.canonical_key = flow.canonical_key
    BY <1>1 DEF ApplyPacket, FlowState
  <2> QED BY <1>1, <2>1, <2>2
<1>6. SummaryOf(log', updated)
  BY <1>1, <1>2, <1>4, CountedGrows, DatedGrows, SummaryParts
<1> HIDE DEF updated, key, p
<1>7. \A f : (f.flow_id # flow.flow_id /\ SummaryOf(log, f)) => SummaryOf(log', f)
  BY <1>2, <1>3, <1>4, SummaryElsewhere
<1>8. ASSUME NEW k \in DOMAIN active_flows'
      PROVE  active_flows'[k].canonical_key = k /\ SummaryOf(log', active_flows'[k])
  BY <1>1, <1>2, <1>5, <1>6, <1>7 DEF SummaryInv
<1>9. ASSUME NEW f \in closed' PROVE SummaryOf(log', f)
  <2>1. CASE f \in closed
    BY <1>1, <1>7, <2>1 DEF SummaryInv
  <2>2. CASE f = Finalize(updated, "tcp_close")
    BY <1>5, <1>6, <2>2, SummaryFinalized
  <2>3. CASE /\ key \notin DOMAIN active_flows
             /\ \E k \in DOMAIN active_flows :
                  f = Finalize(active_flows[k], "capacity_evict")
    <3>1. PICK k \in DOMAIN active_flows : f = Finalize(active_flows[k], "capacity_evict")
      BY <2>3
    <3>2. SummaryOf(log', active_flows[k]) /\ active_flows[k] \in FlowState
      BY <1>1, <1>4, <1>7, <2>3 DEF SummaryInv, IInv, Sound, IsTable
    <3> QED BY <3>1, <3>2, SummaryFinalized
  <2> QED BY <1>2, <2>1, <2>2, <2>3
<1> QED BY <1>8, <1>9 DEF SummaryInv

LEMMA RemovalKeepsSummaries ==
  ASSUME SummaryInv, LogInv', NEW keys \in SUBSET DOMAIN active_flows, NEW reason,
         Remove(keys, reason)
  PROVE  SummaryInv'
<1>1. /\ active_flows' = Without(active_flows, keys)
      /\ closed' = closed \cup { Finalize(active_flows[k], reason) : k \in keys }
      /\ log' = log
  BY DEF Remove, Return
<1>2. \A k \in DOMAIN active_flows' : k \in DOMAIN active_flows /\ active_flows'[k] = active_flows[k]
  BY <1>1 DEF Without
<1>3. \A k \in keys : SummaryOf(log, Finalize(active_flows[k], reason))
  BY SummaryFinalized DEF SummaryInv, LogInv, IInv, Sound, IsTable
<1> QED BY <1>1, <1>2, <1>3 DEF SummaryInv

LEMMA SummaryInvPreserved ==
  ASSUME SummaryInv, [Next]_vars
  PROVE  SummaryInv'
<1>1. LogInv'
  BY LogInvPreserved DEF SummaryInv
<1>2. ASSUME NEW h \in Headers, NEW ts \in Times, AddPacket(h, ts) PROVE SummaryInv'
  BY <1>1, <1>2, AddPacketApplies, PacketKeepsSummaries
<1>3. ASSUME NEW now, CheckTimeouts(now) PROVE SummaryInv'
  BY <1>1, <1>3, RemovalKeepsSummaries DEF CheckTimeouts
<1>4. CASE Flush
  BY <1>1, <1>4, RemovalKeepsSummaries DEF Flush
<1>5. ASSUME UNCHANGED <<active_flows, log, closed>> PROVE SummaryInv'
  BY <1>1, <1>5 DEF SummaryInv
<1>6. ASSUME NEW src, NEW now, SourceStats(src, now) PROVE SummaryInv'
  BY <1>5, <1>6 DEF SourceStats
<1>7. CASE UNCHANGED vars
  BY <1>5, <1>7 DEF vars, builderVars
<1> QED BY <1>2, <1>3, <1>4, <1>6, <1>7 DEF Next

LEMMA SummaryInvariance == Spec => []SummaryInv
<1>1. Init => SummaryInv
  BY InitLogged DEF Init, SummaryInv
<1> QED BY <1>1, SummaryInvPreserved, PTL DEF Spec

(* The FlowState that _apply_packet builds up, one packet at a time, is the *)
(* summary of the flow's own packets, whatever the order of the packets of  *)
(* several flows, and stays it when the flow is closed                      *)
(* (flow_builder.py:204-230).                                               *)
THEOREM FlowsSummarized == Spec => []SummariesExact
<1>1. SummaryInv => SummariesExact
  BY DEF SummaryInv, SummariesExact, Active
<1> QED BY <1>1, SummaryInvariance, PTL
==============================================================================
