---------------------------- MODULE PipelineProofs ---------------------------
(****************************************************************************)
(* The detection pipeline on top of the flow table, for every set of        *)
(* headers and times and every configuration, with predictions that may     *)
(* raise: every flow that leaves the table is scored once or lost with the  *)
(* call that raised, the counters agree, no idle flow is left between       *)
(* calls, and while packets come in order a connection that closes is       *)
(* scored with the exact count of its source's flows.                       *)
(*                                                                          *)
(* In the second half the intake around it, for every set of files, every   *)
(* mode and any kills and restarts: files reported as processed were read   *)
(* whole, no flow is unaccounted for at exit, and what holds of the         *)
(* pipeline's calls holds of every life of the process.                     *)
(****************************************************************************)
EXTENDS PcapIntake, FlowBuilderProofs

------------------------------------------------------------------------------
(* The flow that is scored next                                             *)

LEMMA FirstOfQueue ==
  ASSUME NEW flows \in SUBSET FlowState, flows # {}
  PROVE  First(flows) \in flows
<1>1. Ids(flows) \in SUBSET Nat /\ Ids(flows) # {}
  BY DEF Ids, FlowState
<1>2. PICK m \in Ids(flows) : \A n \in Ids(flows) : m <= n
  BY <1>1, SmallestExists
<1>3. PICK f \in flows : f.flow_id = m
  BY DEF Ids
<1>4. \A g \in flows : f.flow_id <= g.flow_id
  BY <1>2, <1>3 DEF Ids
<1> QED BY <1>3, <1>4 DEF First

------------------------------------------------------------------------------
(* What a call of the builder takes out of the table.                       *)

(* The flows that stats() says have left the table.                         *)
Taken == total_flows_finalized + capacity_evictions

(* The call returns flows that no call returned before, and counts them.    *)
TakesOut ==
  /\ returned' \subseteq FlowState /\ IsFiniteSet(returned')
  /\ closed' = closed \cup returned'
  /\ \A f \in returned' : f.flow_id \notin Ids(closed)
  /\ Taken' = Taken + Cardinality(returned')

LEMMA DeliverTakes ==
  ASSUME NEW table, NEW evicted, NEW flow \in FlowState, NEW h \in Headers, NEW ts \in Times,
         Deliver(table, evicted, flow, h, ts),
         IsFiniteSet(evicted), flow.flow_id \notin Ids(evicted),
         total_flows_finalized \in Nat
  PROVE  /\ IsFiniteSet(returned')
         /\ closed' = closed \cup returned'
         /\ Cardinality(returned') = Cardinality(evicted)
              + (total_flows_finalized' - total_flows_finalized)
<1> DEFINE done == Finalize(ApplyPacket(flow, h, ts), "tcp_close")
<1>1. done.flow_id = flow.flow_id
  <2>1. ts \in Int /\ "tcp_close" \in Reasons
    BY FlowBuilderAssumption DEF Reasons
  <2> QED BY <2>1, ApplyPacketType, FinalizeType
<1>2. done \notin evicted
  BY <1>1 DEF Ids
<1>3. Cardinality(evicted) \in Nat
  BY FS_CardinalityType
<1>4. CASE Closes(h)
  <2>1. /\ returned' = evicted \cup {done}
        /\ closed' = closed \cup returned'
        /\ total_flows_finalized' = total_flows_finalized + 1
    BY <1>4 DEF Deliver, Return
  <2> HIDE DEF done
  <2>2. IsFiniteSet(returned') /\ Cardinality(returned') = Cardinality(evicted) + 1
    BY <1>2, <2>1, FS_AddElement
  <2> QED BY <1>3, <2>1, <2>2
<1>5. CASE ~Closes(h)
  <2>1. /\ returned' = evicted
        /\ closed' = closed \cup returned'
        /\ total_flows_finalized' = total_flows_finalized
    BY <1>5 DEF Deliver, Return
  <2> QED BY <1>3, <2>1
<1> QED BY <1>4, <1>5

LEMMA AddPacketTakes ==
  ASSUME IInv, IInv', NEW h \in Headers, NEW ts \in Times, AddPacket(h, ts)
  PROVE  TakesOut
<1>1. /\ returned' \subseteq FlowState
      /\ flow_counter \in Nat /\ total_flows_finalized \in Nat /\ capacity_evictions \in Nat
      /\ total_flows_finalized' \in Nat
      /\ \A k \in DOMAIN active_flows : active_flows[k] \in FlowState
  BY DEF IInv, Sound, IsTable
<1>2. IsFiniteSet({}) /\ Cardinality({}) = 0 /\ Ids({}) = {}
  BY FS_EmptySet DEF Ids
<1>3. /\ \A k \in DOMAIN active_flows : active_flows[k].flow_id \notin Ids(closed)
      /\ flow_counter + 1 \notin Ids(closed)
      /\ \A k \in DOMAIN active_flows : active_flows[k].flow_id # flow_counter + 1
  <2>1. \A i \in 1 .. flow_counter : i # flow_counter + 1
    BY <1>1
  <2> QED BY <2>1, AccountOfIds DEF Ids
<1> DEFINE new == NewFlow(flow_counter + 1, h, ts)
<1>4. new \in FlowState /\ new.flow_id = flow_counter + 1
  BY <1>1, NewFlowType, FlowBuilderAssumption
<1>5. CASE AddToActive(h, ts)
  <2> DEFINE flow == active_flows[CanonicalKey(h)]
  <2>1. /\ flow \in FlowState /\ flow.flow_id \notin Ids(closed)
        /\ Deliver(active_flows, {}, flow, h, ts)
        /\ capacity_evictions' = capacity_evictions
    BY <1>1, <1>3, <1>5 DEF AddToActive
  <2> HIDE DEF flow
  <2>2. /\ IsFiniteSet(returned') /\ closed' = closed \cup returned'
        /\ Cardinality(returned') = total_flows_finalized' - total_flows_finalized
    <3>1. IsFiniteSet({}) /\ flow.flow_id \notin Ids({}) /\ total_flows_finalized \in Nat
      BY <1>1, <1>2
    <3>2. Cardinality(returned') = 0 + (total_flows_finalized' - total_flows_finalized)
      BY <1>2, <2>1, <3>1, DeliverTakes
    <3> QED BY <1>1, <2>1, <3>1, <3>2, DeliverTakes
  <2>3. Ids(returned') \subseteq {flow.flow_id}
    BY <1>2, <2>1, DeliverReturns
  <2>4. \A f \in returned' : f.flow_id \notin Ids(closed)
    BY <2>1, <2>3 DEF Ids
  <2>5. Taken' = Taken + Cardinality(returned')
    BY <1>1, <2>1, <2>2 DEF Taken
  <2> QED BY <1>1, <2>2, <2>4, <2>5 DEF TakesOut
<1>6. CASE OpenFlow(h, ts)
  <2>1. /\ Deliver(active_flows, {}, new, h, ts)
        /\ capacity_evictions' = capacity_evictions
    BY <1>6 DEF OpenFlow, CreateFlow
  <2> HIDE DEF new
  <2>2. /\ IsFiniteSet(returned') /\ closed' = closed \cup returned'
        /\ Cardinality(returned') = total_flows_finalized' - total_flows_finalized
    BY <1>1, <1>2, <1>4, <2>1, DeliverTakes
  <2>3. Ids(returned') \subseteq {flow_counter + 1}
    BY <1>2, <1>4, <2>1, DeliverReturns
  <2>4. \A f \in returned' : f.flow_id \notin Ids(closed)
    BY <1>3, <2>3 DEF Ids
  <2>5. Taken' = Taken + Cardinality(returned')
    BY <1>1, <2>1, <2>2 DEF Taken
  <2> QED BY <1>1, <2>2, <2>4, <2>5 DEF TakesOut
<1>7. CASE EvictAndOpen(h, ts)
  <2>1. PICK oldest \in DOMAIN active_flows :
          CreateFlow(Without(active_flows, {oldest}),
                     {Finalize(active_flows[oldest], "capacity_evict")}, h, ts)
    BY <1>7 DEF EvictAndOpen
  <2> DEFINE gone == Finalize(active_flows[oldest], "capacity_evict")
             table == Without(active_flows, {oldest})
  <2>2. /\ Deliver(table, {gone}, new, h, ts)
        /\ capacity_evictions' = capacity_evictions + 1
    BY <1>7, <2>1 DEF EvictAndOpen, CreateFlow
  <2>3. gone.flow_id = active_flows[oldest].flow_id
    <3>1. "capacity_evict" \in Reasons
      BY DEF Reasons
    <3> QED BY <1>1, <3>1, FinalizeType
  <2> HIDE DEF gone, new, table
  <2>4. /\ IsFiniteSet({gone}) /\ Cardinality({gone}) = 1
        /\ Ids({gone}) = {gone.flow_id}
    BY FS_Singleton DEF Ids
  <2>5. /\ IsFiniteSet(returned') /\ closed' = closed \cup returned'
        /\ Cardinality(returned') = 1 + (total_flows_finalized' - total_flows_finalized)
    BY <1>1, <1>3, <1>4, <2>2, <2>3, <2>4, DeliverTakes
  <2>6. Ids(returned') \subseteq {gone.flow_id, flow_counter + 1}
    BY <1>4, <2>2, <2>4, DeliverReturns
  <2> QED BY <1>1, <1>3, <2>2, <2>3, <2>5, <2>6 DEF TakesOut, Taken, Ids
<1> QED BY <1>5, <1>6, <1>7 DEF AddPacket

LEMMA RemoveTakes ==
  ASSUME IInv, IInv', NEW keys \in SUBSET DOMAIN active_flows, NEW reason \in Reasons,
         Remove(keys, reason)
  PROVE  TakesOut
<1> DEFINE gone == { Finalize(active_flows[k], reason) : k \in keys }
           move == [k \in keys |-> Finalize(active_flows[k], reason)]
<1>1. /\ returned' = gone /\ closed' = closed \cup returned'
      /\ total_flows_finalized' = total_flows_finalized + Cardinality(keys)
      /\ capacity_evictions' = capacity_evictions
  BY DEF Remove, Return
<1>2. /\ IsFiniteSet(keys) /\ Cardinality(keys) \in Nat
  BY FS_Subset, FS_CardinalityType DEF IInv, Sound, IsTable
<1>3. \A k \in keys : Finalize(active_flows[k], reason).flow_id = active_flows[k].flow_id
  BY FinalizeType DEF IInv, Sound, IsTable
<1>4. move \in Surjection(keys, gone) /\ move \in Injection(keys, gone)
  <2>1. \A k, j \in keys : move[k] = move[j] => k = j
    BY <1>3, AccountOfIds
  <2> QED BY <2>1 DEF Surjection, Injection, IsInjective
<1> HIDE DEF move, gone
<1>5. IsFiniteSet(gone) /\ Cardinality(gone) = Cardinality(keys)
  BY <1>2, <1>4, FS_Surjection
<1>6. \A f \in returned' : f.flow_id \notin Ids(closed)
  BY <1>1, <1>3, AccountOfIds DEF gone
<1>7. total_flows_finalized \in Nat /\ capacity_evictions \in Nat
      /\ returned' \subseteq FlowState
  BY DEF IInv
<1> QED BY <1>1, <1>2, <1>5, <1>6, <1>7 DEF TakesOut, Taken

------------------------------------------------------------------------------
(* The invariant                                                            *)

Stages == {"none", "packet", "timeouts", "sweep", "flush"}
Counts == [dest_fanout : Nat, port_fanout : Nat, flow_count : Nat]
Result == [flow : FlowState, features : Counts]

FlowsOf(s) == { s[i].flow : i \in DOMAIN s }
Distinct(s) == \A i, j \in DOMAIN s : s[i].flow = s[j].flow => i = j

(* Every flow that was taken out of the table is in one place: waiting, in  *)
(* one result of this call, in one result of an earlier call, or lost.      *)
InOnePlace ==
  /\ closed = queue \cup lost \cup FlowsOf(delivered) \cup FlowsOf(results)
  /\ queue \cap lost = {}
  /\ (queue \cup lost) \cap (FlowsOf(delivered) \cup FlowsOf(results)) = {}
  /\ FlowsOf(delivered) \cap FlowsOf(results) = {}
  /\ Distinct(delivered) /\ Distinct(results)

(* What holds also when calls can be broken off at any step.                *)
CallInv ==
  /\ LogInv
  /\ stage \in Stages
  /\ stage = "packet" => now \in Times
  /\ total_predictions \in Nat
  /\ delivered \in Seq(Result) /\ results \in Seq(Result)
  /\ IsFiniteSet(queue)
  /\ stage = "none" => queue = {} /\ results = <<>>
  /\ InOnePlace
  /\ PredictionsReconcile

(* Until the timeouts are checked, the latest packet is the one in hand.    *)
IdleExpired ==
  /\ stage = "packet" => now = Latest
  /\ (stage # "packet" /\ lost = {}) => \A flow \in Active : ~Idle(flow, Latest)

PipeInv == CallInv /\ (~PredictRaises => lost = {}) /\ IdleExpired

------------------------------------------------------------------------------
(* Results                                                                  *)

LEMMA OneMoreResult ==
  ASSUME NEW s \in Seq(Result), NEW r \in Result
  PROVE  /\ Append(s, r) \in Seq(Result)
         /\ FlowsOf(Append(s, r)) = FlowsOf(s) \cup {r.flow}
         /\ Distinct(s) /\ r.flow \notin FlowsOf(s) => Distinct(Append(s, r))
<1> DEFINE t == Append(s, r)
<1>1. PICK n \in Nat : n = Len(s) /\ DOMAIN s = 1 .. n
  OBVIOUS
<1>2. /\ t \in Seq(Result) /\ DOMAIN t = 1 .. n + 1
      /\ t[n + 1] = r /\ \A i \in 1 .. n : t[i] = s[i]
  BY <1>1, AppendProperties
<1>3. 1 .. n + 1 = (1 .. n) \cup {n + 1}
  OBVIOUS
<1> HIDE DEF t
<1>4. FlowsOf(t) = FlowsOf(s) \cup {r.flow}
  BY <1>1, <1>2, <1>3 DEF FlowsOf
<1>5. ASSUME Distinct(s), r.flow \notin FlowsOf(s) PROVE Distinct(t)
  BY <1>1, <1>2, <1>3, <1>5 DEF FlowsOf, Distinct
<1> QED BY <1>2, <1>4, <1>5 DEF t

LEMMA MoreResults ==
  ASSUME NEW s \in Seq(Result), NEW t \in Seq(Result)
  PROVE  /\ s \o t \in Seq(Result)
         /\ FlowsOf(s \o t) = FlowsOf(s) \cup FlowsOf(t)
         /\ Distinct(s) /\ Distinct(t) /\ FlowsOf(s) \cap FlowsOf(t) = {} => Distinct(s \o t)
<1> DEFINE u == s \o t
<1>1. PICK n \in Nat, m \in Nat : n = Len(s) /\ DOMAIN s = 1 .. n /\ m = Len(t) /\ DOMAIN t = 1 .. m
  OBVIOUS
<1>2. u \in Seq(Result) /\ DOMAIN u = 1 .. n + m
  BY <1>1, ConcatProperties
<1>3. \A i \in 1 .. n + m : u[i] = IF i <= n THEN s[i] ELSE t[i - n]
  BY <1>1, ConcatProperties
<1> HIDE DEF u
<1>4. /\ \A i \in 1 .. n : i \in 1 .. n + m /\ u[i] = s[i]
      /\ \A i \in 1 .. m : n + i \in 1 .. n + m /\ u[n + i] = t[i]
      /\ \A i \in 1 .. n + m : i \in 1 .. n \/ \E j \in 1 .. m : i = n + j
  <2>1. ASSUME NEW i \in 1 .. m PROVE n + i \in 1 .. n + m /\ u[n + i] = t[i]
    <3>1. n + i \in 1 .. n + m /\ ~(n + i <= n) /\ (n + i) - n = i
      OBVIOUS
    <3> QED BY <1>3, <3>1
  <2>2. ASSUME NEW i \in 1 .. n + m, i \notin 1 .. n PROVE \E j \in 1 .. m : i = n + j
    <3>1. i - n \in 1 .. m /\ i = n + (i - n)
      BY <2>2
    <3> QED BY <3>1
  <2> QED BY <1>3, <2>1, <2>2
<1>5. FlowsOf(u) = FlowsOf(s) \cup FlowsOf(t)
  <2>1. /\ FlowsOf(s) = { s[i].flow : i \in 1 .. n }
        /\ FlowsOf(t) = { t[i].flow : i \in 1 .. m }
        /\ FlowsOf(u) = { u[i].flow : i \in 1 .. n + m }
    BY <1>1, <1>2 DEF FlowsOf
  <2>2. ASSUME NEW i \in 1 .. n + m PROVE u[i].flow \in FlowsOf(s) \cup FlowsOf(t)
    <3>1. CASE i \in 1 .. n
      BY <1>4, <2>1, <3>1
    <3>2. CASE i \notin 1 .. n
      <4>1. PICK j \in 1 .. m : i = n + j
        BY <1>4, <3>2
      <4> QED BY <1>4, <2>1, <4>1
    <3> QED BY <3>1, <3>2
  <2>3. /\ \A i \in 1 .. n : s[i].flow \in FlowsOf(u)
        /\ \A i \in 1 .. m : t[i].flow \in FlowsOf(u)
    BY <1>4, <2>1
  <2>4. FlowsOf(u) \subseteq FlowsOf(s) \cup FlowsOf(t)
    BY <2>1, <2>2
  <2>5. FlowsOf(s) \subseteq FlowsOf(u) /\ FlowsOf(t) \subseteq FlowsOf(u)
    BY <2>1, <2>3
  <2> QED BY <2>4, <2>5
<1>6. ASSUME Distinct(s), Distinct(t), FlowsOf(s) \cap FlowsOf(t) = {},
             NEW i \in 1 .. n + m, NEW j \in 1 .. n + m, u[i].flow = u[j].flow
      PROVE  i = j
  <2>1. \A k \in 1 .. n, l \in 1 .. m : s[k].flow # t[l].flow
    BY <1>1, <1>6 DEF FlowsOf
  <2>2. CASE i \in 1 .. n /\ j \in 1 .. n
    BY <1>1, <1>4, <1>6, <2>2 DEF Distinct
  <2>3. CASE i \in 1 .. n /\ j \notin 1 .. n
    <3>1. PICK l \in 1 .. m : j = n + l
      BY <1>4, <2>3
    <3> QED BY <1>4, <1>6, <2>1, <2>3, <3>1
  <2>4. CASE i \notin 1 .. n /\ j \in 1 .. n
    <3>1. PICK k \in 1 .. m : i = n + k
      BY <1>4, <2>4
    <3> QED BY <1>4, <1>6, <2>1, <2>4, <3>1
  <2>5. CASE i \notin 1 .. n /\ j \notin 1 .. n
    <3>1. PICK k \in 1 .. m, l \in 1 .. m : i = n + k /\ j = n + l
      BY <1>4, <2>5
    <3>2. t[k].flow = t[l].flow
      BY <1>4, <1>6, <3>1
    <3>3. k = l
      BY <1>1, <1>6, <3>2 DEF Distinct
    <3> QED BY <3>1, <3>3
  <2> QED BY <2>2, <2>3, <2>4, <2>5
<1>7. (Distinct(s) /\ Distinct(t) /\ FlowsOf(s) \cap FlowsOf(t) = {}) => Distinct(u)
  BY <1>2, <1>6 DEF Distinct
<1> QED BY <1>2, <1>5, <1>7 DEF u

LEMMA FeaturesType ==
  ASSUME IInv, NEW flow \in FlowState
  PROVE  Features(flow) \in Counts
<1> DEFINE src == flow.initiator[1]
           kept == Prune(source_history, src, flow.last_seen)
<1>1. src \in Int /\ flow.last_seen \in Int
  BY DEF FlowState, Endpoint
<1>2. IsHistory(kept)
  BY <1>1, PruneType DEF IInv
<1>3. Features(flow) = CountsOf(Deque(kept, src))
  BY DEF Features, Stats
<1> HIDE DEF kept, src
<1>4. Deque(kept, src) \in Seq(Entry)
  BY <1>2 DEF Deque, IsHistory
<1> QED BY <1>3, <1>4, CountsType DEF Counts

------------------------------------------------------------------------------
(* A call that is not broken off keeps its flows together.                  *)

LEMMA PipelineInitHolds == PipelineInit => PipeInv
<1> SUFFICES ASSUME PipelineInit PROVE PipeInv
  OBVIOUS
<1>1. LogInv
  BY InitLogged DEF PipelineInit
<1>2. /\ stage = "none" /\ queue = {} /\ results = <<>> /\ total_predictions = 0
      /\ delivered = <<>> /\ lost = {} /\ closed = {} /\ DOMAIN active_flows = {}
      /\ total_flows_finalized = 0 /\ capacity_evictions = 0
  BY DEF PipelineInit, Init
<1>3. IsFiniteSet({}) /\ Cardinality({}) = 0 /\ DOMAIN <<>> = {}
  BY FS_EmptySet
<1>4. InOnePlace
  BY <1>2, <1>3 DEF InOnePlace, FlowsOf, Distinct
<1>5. PredictionsReconcile
  BY <1>2, <1>3 DEF PredictionsReconcile
<1>6. IdleExpired
  BY <1>2 DEF IdleExpired, Active
<1>7. delivered \in Seq(Result) /\ results \in Seq(Result)
  BY <1>2
<1> QED BY <1>1, <1>2, <1>3, <1>4, <1>5, <1>6, <1>7 DEF PipeInv, CallInv, Stages

(* The first half of a call: what it takes out of the table is waiting.     *)
Entered(newStage) ==
  /\ TakesOut
  /\ queue = {} /\ results' = results
  /\ Enter(newStage)

LEMMA EnteredKeeps ==
  ASSUME CallInv, LogInv', NEW newStage \in Stages \ {"none"}, Entered(newStage),
         newStage = "packet" => now' \in Times
  PROVE  CallInv'
<1>1. /\ IsFiniteSet(returned') /\ closed' = closed \cup returned'
      /\ \A f \in returned' : f.flow_id \notin Ids(closed)
      /\ Taken' = Taken + Cardinality(returned')
      /\ queue' = returned' /\ stage' = newStage
      /\ UNCHANGED <<results, total_predictions, delivered, lost>>
  BY DEF Entered, TakesOut, Enter
<1>2. queue = {}
  BY DEF Entered
<1>3. returned' \cap closed = {}
  BY <1>1 DEF Ids
<1>4. InOnePlace'
  <2>1. /\ closed = lost \cup FlowsOf(delivered) \cup FlowsOf(results)
        /\ lost \cap (FlowsOf(delivered) \cup FlowsOf(results)) = {}
        /\ FlowsOf(delivered) \cap FlowsOf(results) = {}
        /\ Distinct(delivered) /\ Distinct(results)
    BY <1>2 DEF CallInv, InOnePlace
  <2>2. /\ closed' = queue' \cup lost' \cup FlowsOf(delivered') \cup FlowsOf(results')
        /\ queue' \cap lost' = {}
        /\ (queue' \cup lost') \cap (FlowsOf(delivered') \cup FlowsOf(results')) = {}
        /\ FlowsOf(delivered') \cap FlowsOf(results') = {}
        /\ Distinct(delivered') /\ Distinct(results')
    BY <1>1, <1>3, <2>1
  <2> QED BY <2>2 DEF InOnePlace, FlowsOf, Distinct
<1>5. PredictionsReconcile'
  <2>1. /\ total_predictions \in Nat /\ Cardinality(returned') \in Nat
        /\ Taken \in Nat
    BY <1>1, FS_CardinalityType DEF CallInv, LogInv, IInv, Taken
  <2>2. /\ total_predictions + 0 <= Taken
        /\ lost = {} => total_predictions + 0 = Taken
    BY <1>2, FS_EmptySet DEF CallInv, PredictionsReconcile, Taken
  <2>3. /\ total_predictions' + Cardinality(queue') <= Taken'
        /\ lost' = {} => total_predictions' + Cardinality(queue') = Taken'
    BY <1>1, <2>1, <2>2
  <2> QED BY <2>3 DEF PredictionsReconcile, Taken
<1> QED BY <1>1, <1>4, <1>5 DEF CallInv

LEMMA ProcessPacketKeeps ==
  ASSUME CallInv, NEW h \in Headers, NEW ts \in Times, ProcessPacket(h, ts)
  PROVE  /\ CallInv'
         /\ \E id \in Nat : log' = Append(log, [header |-> h, ts |-> ts, flow_id |-> id])
         /\ stage' = "packet" /\ now' = ts /\ lost' = lost
<1>1. IInv /\ LogInv' /\ IInv'
  <2>1. [Next]_vars
    BY DEF ProcessPacket, Next
  <2> QED BY <2>1, LogInvPreserved DEF CallInv, LogInv
<1>2. Entered("packet")
  BY <1>1, AddPacketTakes DEF ProcessPacket, Idling, CallInv, Entered
<1>3. \E id \in Nat : log' = Append(log, [header |-> h, ts |-> ts, flow_id |-> id])
  BY <1>1, AddPacketShape DEF ProcessPacket, PacketStep
<1>4. stage' = "packet" /\ now' = ts /\ lost' = lost
  BY DEF ProcessPacket, Enter
<1> QED BY <1>1, <1>2, <1>3, <1>4, EnteredKeeps DEF Stages

LEMMA RemovalEnters ==
  ASSUME CallInv, Idling \/ (stage = "packet" /\ queue = {}),
         NEW keys \in SUBSET DOMAIN active_flows, NEW reason \in Reasons,
         Remove(keys, reason), [Next]_vars,
         NEW newStage \in Stages \ {"none", "packet"}, Enter(newStage),
         results' = IF Idling THEN <<>> ELSE results
  PROVE  CallInv' /\ log' = log
<1>1. IInv /\ LogInv' /\ IInv'
  BY LogInvPreserved DEF CallInv, LogInv
<1>2. TakesOut
  BY <1>1, RemoveTakes
<1>3. queue = {} /\ results' = results
  BY DEF CallInv, Idling
<1>4. log' = log
  BY DEF Remove
<1> QED BY <1>1, <1>2, <1>3, <1>4, EnteredKeeps DEF Entered

LEMMA ThenCheckTimeoutsKeeps ==
  ASSUME CallInv, ThenCheckTimeouts
  PROVE  CallInv' /\ log' = log
<1> DEFINE idle == { k \in DOMAIN active_flows : Idle(active_flows[k], now) }
<1>1. /\ Remove(idle, "timeout") /\ Enter("timeouts") /\ results' = results
      /\ stage = "packet" /\ queue = {}
  BY DEF ThenCheckTimeouts, CheckTimeouts
<1>2. [Next]_vars
  BY <1>1 DEF CallInv, ThenCheckTimeouts, Next
<1>3. "timeout" \in Reasons /\ "timeouts" \in Stages \ {"none", "packet"} /\ ~Idling
  BY <1>1 DEF Reasons, Stages, Idling
<1> QED BY <1>1, <1>2, <1>3, RemovalEnters

LEMMA CheckIdleTimeoutsKeeps ==
  ASSUME CallInv, NEW time \in Times, CheckIdleTimeouts(time)
  PROVE  CallInv' /\ log' = log
<1> DEFINE idle == { k \in DOMAIN active_flows : Idle(active_flows[k], time) }
<1>1. Remove(idle, "timeout") /\ Enter("sweep") /\ results' = <<>> /\ Idling
  BY DEF CheckIdleTimeouts, CheckTimeouts
<1>2. [Next]_vars
  BY DEF CheckIdleTimeouts, Next
<1>3. "timeout" \in Reasons /\ "sweep" \in Stages \ {"none", "packet"}
  BY DEF Reasons, Stages
<1> QED BY <1>1, <1>2, <1>3, RemovalEnters

LEMMA FlushAllKeeps ==
  ASSUME CallInv, FlushAll
  PROVE  CallInv' /\ log' = log /\ Active' = {}
<1>1. Remove(DOMAIN active_flows, "flush") /\ Enter("flush") /\ results' = <<>> /\ Idling
  BY DEF FlushAll, Flush
<1>2. [Next]_vars
  BY DEF FlushAll, Next
<1>3. "flush" \in Reasons /\ "flush" \in Stages \ {"none", "packet"}
  BY DEF Reasons, Stages
<1>4. active_flows' = Without(active_flows, DOMAIN active_flows)
  BY <1>1 DEF Remove
<1>5. Active' = {}
  BY <1>4 DEF Active, Without
<1> QED BY <1>1, <1>2, <1>3, <1>5, RemovalEnters

(* The flow that is scored is one that was taken out of the table.          *)
LEMMA NextInQueue ==
  ASSUME CallInv, queue # {}
  PROVE  First(queue) \in queue /\ First(queue) \in FlowState
<1>1. queue \in SUBSET FlowState
  BY DEF CallInv, InOnePlace, LogInv, IInv, Sound
<1> QED BY <1>1, FirstOfQueue

LEMMA ExtractKeeps ==
  ASSUME CallInv, NEW flow \in FlowState, Extract(flow)
  PROVE  /\ LogInv'
         /\ UNCHANGED <<active_flows, flow_counter, total_flows_finalized,
                        capacity_evictions, log, closed>>
<1>1. flow.initiator[1] \in Int /\ flow.last_seen \in Int
  BY DEF FlowState, Endpoint
<1> QED BY <1>1, LogInvPreserved DEF CallInv, Extract, SourceStats

LEMMA FinalizeResultKeeps ==
  ASSUME CallInv, FinalizeResult
  PROVE  CallInv' /\ UNCHANGED <<active_flows, flow_counter, log>>
<1> DEFINE flow == First(queue)
           result == [flow |-> flow, features |-> Features(flow)]
<1>1. /\ Extract(flow) /\ queue' = queue \ {flow} /\ results' = Append(results, result)
      /\ total_predictions' = total_predictions + 1
      /\ UNCHANGED <<stage, now, delivered, lost>>
      /\ queue # {}
  BY DEF FinalizeResult
<1>2. flow \in queue /\ flow \in FlowState
  BY <1>1, NextInQueue
<1>3. result \in Result
  BY <1>2, FeaturesType DEF Result, CallInv, LogInv
<1>4. result.flow = flow
  OBVIOUS
<1> HIDE DEF flow, result
<1>5. /\ LogInv'
      /\ UNCHANGED <<active_flows, flow_counter, total_flows_finalized,
                     capacity_evictions, log, closed>>
  BY <1>1, <1>2, ExtractKeeps
<1>6. results \in Seq(Result) /\ InOnePlace
  BY DEF CallInv
<1>7. flow \notin FlowsOf(results) /\ flow \notin FlowsOf(delivered) /\ flow \notin lost
  BY <1>2, <1>6 DEF InOnePlace
<1>8. /\ results' \in Seq(Result)
      /\ FlowsOf(results') = FlowsOf(results) \cup {flow}
      /\ Distinct(results')
  BY <1>1, <1>3, <1>4, <1>6, <1>7, OneMoreResult DEF InOnePlace
<1>9. InOnePlace'
  <2>1. /\ closed' = queue' \cup lost' \cup FlowsOf(delivered') \cup FlowsOf(results')
        /\ queue' \cap lost' = {}
        /\ (queue' \cup lost') \cap (FlowsOf(delivered') \cup FlowsOf(results')) = {}
        /\ FlowsOf(delivered') \cap FlowsOf(results') = {}
        /\ Distinct(delivered') /\ Distinct(results')
    BY <1>1, <1>2, <1>5, <1>6, <1>7, <1>8 DEF InOnePlace
  <2> QED BY <2>1 DEF InOnePlace, FlowsOf, Distinct
<1>10. IsFiniteSet(queue') /\ Cardinality(queue') = Cardinality(queue) - 1
  BY <1>1, <1>2, FS_RemoveElement DEF CallInv
<1>11. PredictionsReconcile'
  <2>1. total_predictions \in Nat /\ Cardinality(queue) \in Nat /\ PredictionsReconcile
    BY FS_CardinalityType DEF CallInv
  <2> QED BY <1>1, <1>5, <1>10, <2>1 DEF PredictionsReconcile
<1>12. stage # "none"
  BY <1>1 DEF CallInv
<1> QED BY <1>1, <1>5, <1>8, <1>9, <1>10, <1>11, <1>12 DEF CallInv

(* A call that is broken off loses what it had in hand.                     *)
BrokenOff ==
  /\ queue' = {} /\ results' = <<>> /\ stage' = "none"
  /\ lost' = lost \cup queue \cup FlowsOf(results)
  /\ UNCHANGED <<total_predictions, delivered>>
  /\ UNCHANGED <<active_flows, flow_counter, total_flows_finalized,
                 capacity_evictions, log, closed>>

LEMMA BrokenOffKeeps ==
  ASSUME CallInv, LogInv', BrokenOff
  PROVE  CallInv'
<1>1. /\ queue' = {} /\ results' = <<>> /\ stage' = "none"
      /\ lost' = lost \cup queue \cup FlowsOf(results)
      /\ UNCHANGED <<total_predictions, delivered>>
      /\ UNCHANGED <<total_flows_finalized, capacity_evictions, closed>>
  BY DEF BrokenOff
<1>2. FlowsOf(<<>>) = {} /\ Distinct(<<>>)
  BY DEF FlowsOf, Distinct
<1>3. InOnePlace'
  <2>1. InOnePlace
    BY DEF CallInv
  <2>2. /\ closed' = queue' \cup lost' \cup FlowsOf(delivered') \cup FlowsOf(results')
        /\ queue' \cap lost' = {}
        /\ (queue' \cup lost') \cap (FlowsOf(delivered') \cup FlowsOf(results')) = {}
        /\ FlowsOf(delivered') \cap FlowsOf(results') = {}
        /\ Distinct(delivered') /\ Distinct(results')
    BY <1>1, <1>2, <2>1 DEF InOnePlace
  <2> QED BY <2>2 DEF InOnePlace, FlowsOf, Distinct
<1>4. IsFiniteSet({}) /\ Cardinality({}) = 0
  BY FS_EmptySet
<1>5. PredictionsReconcile'
  <2>1. total_predictions \in Nat /\ Cardinality(queue) \in Nat /\ PredictionsReconcile
    BY FS_CardinalityType DEF CallInv
  <2>2. lost' = {} => lost = {} /\ queue = {}
    BY <1>1
  <2>3. total_flows_finalized + capacity_evictions \in Nat
    BY DEF CallInv, LogInv, IInv
  <2>4. /\ total_predictions <= total_flows_finalized + capacity_evictions
        /\ lost' = {} => total_predictions = total_flows_finalized + capacity_evictions
    <3>1. CASE lost' = {}
      <4>1. Cardinality(queue) = 0
        BY <1>4, <2>2, <3>1
      <4> QED BY <2>1, <2>2, <2>3, <3>1, <4>1 DEF PredictionsReconcile
    <3>2. CASE lost' # {}
      BY <2>1, <2>3, <3>2 DEF PredictionsReconcile
    <3> QED BY <3>1, <3>2
  <2>5. Cardinality(queue') = 0 /\ total_predictions + 0 = total_predictions
    BY <1>1, <1>4, <2>1
  <2> QED BY <1>1, <2>4, <2>5 DEF PredictionsReconcile
<1> QED BY <1>1, <1>3, <1>4, <1>5 DEF CallInv, Stages

LEMMA PredictFailsKeeps ==
  ASSUME CallInv, PredictFails
  PROVE  CallInv' /\ BrokenOff
<1>1. /\ Extract(First(queue)) /\ queue' = {} /\ results' = <<>> /\ stage' = "none"
      /\ lost' = lost \cup queue \cup FlowsOf(results)
      /\ UNCHANGED <<total_predictions, delivered>>
      /\ queue # {}
  BY DEF PredictFails, FlowsOf
<1>2. First(queue) \in FlowState
  BY <1>1, NextInQueue
<1>3. LogInv' /\ BrokenOff
  BY <1>1, <1>2, ExtractKeeps DEF BrokenOff
<1> QED BY <1>3, BrokenOffKeeps

LEMMA ReturnResultsKeeps ==
  ASSUME CallInv, ReturnResults
  PROVE  CallInv' /\ UNCHANGED <<active_flows, flow_counter, log, lost>> /\ stage' = "none"
<1>1. /\ delivered' = delivered \o results /\ results' = <<>> /\ stage' = "none"
      /\ UNCHANGED <<vars, now, queue, total_predictions, lost>>
      /\ queue = {} /\ stage \in {"timeouts", "sweep", "flush"}
  BY DEF ReturnResults
<1>2. LogInv' /\ UNCHANGED <<active_flows, flow_counter, total_flows_finalized,
                              capacity_evictions, log, closed>>
  BY <1>1, LogInvPreserved DEF CallInv, vars, builderVars
<1>3. FlowsOf(<<>>) = {} /\ Distinct(<<>>)
  BY DEF FlowsOf, Distinct
<1>4. InOnePlace
  BY DEF CallInv
<1>5. /\ delivered' \in Seq(Result)
      /\ FlowsOf(delivered') = FlowsOf(delivered) \cup FlowsOf(results)
      /\ Distinct(delivered')
  BY <1>1, <1>4, MoreResults DEF CallInv, InOnePlace
<1>6. InOnePlace'
  <2>1. /\ closed' = queue' \cup lost' \cup FlowsOf(delivered') \cup FlowsOf(results')
        /\ queue' \cap lost' = {}
        /\ (queue' \cup lost') \cap (FlowsOf(delivered') \cup FlowsOf(results')) = {}
        /\ FlowsOf(delivered') \cap FlowsOf(results') = {}
        /\ Distinct(delivered') /\ Distinct(results')
    BY <1>1, <1>2, <1>3, <1>4, <1>5 DEF InOnePlace
  <2> QED BY <2>1 DEF InOnePlace, FlowsOf, Distinct
<1>7. PredictionsReconcile'
  BY <1>1, <1>2 DEF CallInv, PredictionsReconcile
<1> QED BY <1>1, <1>2, <1>5, <1>6, <1>7 DEF CallInv, Stages

LEMMA StutterKeeps ==
  ASSUME CallInv, UNCHANGED allVars
  PROVE  CallInv'
<1>1. /\ UNCHANGED vars /\ UNCHANGED <<active_flows, log, closed>>
      /\ UNCHANGED <<total_flows_finalized, capacity_evictions>>
      /\ UNCHANGED <<stage, now, queue, results, total_predictions, delivered, lost>>
  BY DEF allVars, vars, builderVars, pipelineVars, callVars
<1>2. LogInv'
  BY <1>1, LogInvPreserved DEF CallInv
<1>3. InOnePlace' /\ PredictionsReconcile'
  <2>1. InOnePlace'
    <3>1. InOnePlace
      BY DEF CallInv
    <3>2. /\ closed' = queue' \cup lost' \cup FlowsOf(delivered') \cup FlowsOf(results')
          /\ queue' \cap lost' = {}
          /\ (queue' \cup lost') \cap (FlowsOf(delivered') \cup FlowsOf(results')) = {}
          /\ FlowsOf(delivered') \cap FlowsOf(results') = {}
          /\ Distinct(delivered') /\ Distinct(results')
      BY <1>1, <3>1 DEF InOnePlace
    <3> QED BY <3>2 DEF InOnePlace, FlowsOf, Distinct
  <2>2. PredictionsReconcile'
    BY <1>1 DEF CallInv, PredictionsReconcile
  <2> QED BY <2>1, <2>2
<1> QED BY <1>1, <1>2, <1>3 DEF CallInv

LEMMA CallsKeep == CallInv /\ [PipelineNext]_allVars => CallInv'
BY ProcessPacketKeeps, ThenCheckTimeoutsKeeps, CheckIdleTimeoutsKeeps, FlushAllKeeps,
   FinalizeResultKeeps, PredictFailsKeeps, ReturnResultsKeeps, StutterKeeps
   DEF PipelineNext, Step

------------------------------------------------------------------------------
(* check_timeouts leaves no flow that is idle at its time, and none gets    *)
(* idle by a call that takes flows out.                                     *)

LEMMA SameTableSameIdle ==
  ASSUME IdleExpired, UNCHANGED <<active_flows, log, now, stage, lost>>
  PROVE  IdleExpired'
BY DEF IdleExpired, Idle, TimeoutFor, Active, Latest

LEMMA IdleExpiredKept ==
  ASSUME PipeInv, [PipelineNext]_allVars
  PROVE  IdleExpired'
<1> DEFINE NoneIdle == \A flow \in Active : ~Idle(flow, Latest)
<1>1. CallInv /\ IdleExpired /\ (~PredictRaises => lost = {})
  BY DEF PipeInv
<1>2. ASSUME NEW keys, NEW reason, Remove(keys, reason)
      PROVE  Active' \subseteq Active /\ Latest' = Latest
  <2>1. active_flows' = Without(active_flows, keys) /\ log' = log
    BY <1>2 DEF Remove
  <2> QED BY <2>1 DEF Without, Active, Latest
<1>3. ASSUME NEW h \in Headers, NEW ts \in Times, ProcessPacket(h, ts)
      PROVE  IdleExpired'
  <2>1. PICK id \in Nat : log' = Append(log, [header |-> h, ts |-> ts, flow_id |-> id])
    BY <1>1, <1>3, ProcessPacketKeeps
  <2>2. [header |-> h, ts |-> ts, flow_id |-> id] \in Logged /\ log \in Seq(Logged)
    BY <1>1 DEF Logged, CallInv, LogInv, IInv
  <2>3. Len(log') = Len(log) + 1 /\ log'[Len(log')].ts = ts /\ log' # <<>>
    BY <2>1, <2>2, AppendProperties
  <2>4. stage' = "packet" /\ now' = ts
    BY <1>1, <1>3, ProcessPacketKeeps
  <2> QED BY <2>3, <2>4 DEF IdleExpired, Latest
<1>4. CASE ThenCheckTimeouts
  <2> DEFINE idle == { k \in DOMAIN active_flows : Idle(active_flows[k], now) }
  <2>1. Remove(idle, "timeout") /\ stage = "packet" /\ stage' = "timeouts"
    BY <1>4 DEF ThenCheckTimeouts, CheckTimeouts, Enter
  <2>2. active_flows' = Without(active_flows, idle) /\ log' = log
    BY <2>1 DEF Remove
  <2>3. now = Latest /\ Latest' = Latest
    BY <1>1, <2>1, <2>2 DEF IdleExpired, Latest
  <2>4. \A flow \in Active' : ~Idle(flow, now)
    BY <2>2 DEF Active, Without
  <2>5. \A flow \in Active' : ~Idle(flow, Latest')
    BY <2>3, <2>4
  <2> QED BY <2>1, <2>5 DEF IdleExpired, Idle, TimeoutFor
<1>5. ASSUME NEW time \in Times, CheckIdleTimeouts(time)
      PROVE  IdleExpired'
  <2>1. /\ Remove({ k \in DOMAIN active_flows : Idle(active_flows[k], time) }, "timeout")
        /\ Idling /\ stage' = "sweep" /\ lost' = lost
    BY <1>5 DEF CheckIdleTimeouts, CheckTimeouts, Enter
  <2>2. lost = {} => NoneIdle
    BY <1>1, <2>1 DEF IdleExpired, Idling
  <2>3. lost' = {} => \A flow \in Active' : ~Idle(flow, Latest')
    BY <1>2, <2>1, <2>2
  <2> QED BY <2>1, <2>3 DEF IdleExpired, Idle, TimeoutFor
<1>6. CASE FlushAll
  <2>1. Active' = {} /\ stage' = "flush"
    BY <1>1, <1>6, FlushAllKeeps DEF FlushAll, Enter
  <2> QED BY <2>1 DEF IdleExpired
<1>7. CASE FinalizeResult
  <2>1. UNCHANGED <<active_flows, log, now, stage, lost>>
    BY <1>1, <1>7, FinalizeResultKeeps DEF FinalizeResult
  <2> QED BY <1>1, <2>1, SameTableSameIdle
<1>8. CASE PredictFails
  <2>1. queue # {} /\ stage' = "none" /\ lost' = lost \cup queue \cup FlowsOf(results)
    BY <1>8 DEF PredictFails, FlowsOf
  <2>2. lost' # {}
    BY <2>1
  <2> QED BY <2>1, <2>2 DEF IdleExpired
<1>9. CASE ReturnResults
  <2>1. /\ UNCHANGED <<active_flows, log, lost>>
        /\ stage # "packet" /\ stage' = "none"
    BY <1>1, <1>9, ReturnResultsKeeps DEF ReturnResults
  <2>2. Active' = Active /\ Latest' = Latest
    BY <2>1 DEF Active, Latest
  <2>3. lost' = {} => \A flow \in Active' : ~Idle(flow, Latest')
    BY <1>1, <2>1, <2>2 DEF IdleExpired
  <2> QED BY <2>1, <2>3 DEF IdleExpired, Idle, TimeoutFor
<1>10. CASE UNCHANGED allVars
  <2>1. UNCHANGED <<active_flows, log, now, stage, lost>>
    BY <1>10 DEF allVars, vars, builderVars, pipelineVars, callVars
  <2> QED BY <1>1, <2>1, SameTableSameIdle
<1> QED BY <1>3, <1>4, <1>5, <1>6, <1>7, <1>8, <1>9, <1>10 DEF PipelineNext, Step

LEMMA PipelineInvariance == PipelineSpec => []PipeInv
<1>1. ASSUME PipeInv, [PipelineNext]_allVars
      PROVE  PipeInv'
  <2>1. ~PredictRaises => lost' = {}
    <3>1. ASSUME ~PredictRaises PROVE lost' = lost
      BY <1>1, <3>1 DEF PipelineNext, Step, ProcessPacket, ThenCheckTimeouts,
         CheckIdleTimeouts, FlushAll, Enter, FinalizeResult, PredictFails, ReturnResults,
         allVars, pipelineVars
    <3> QED BY <1>1, <3>1 DEF PipeInv
  <2> QED BY <1>1, <2>1, CallsKeep, IdleExpiredKept DEF PipeInv
<1>2. PipeInv /\ [PipelineNext]_allVars => PipeInv'
  BY <1>1
<1> QED BY <1>2, PipelineInitHolds, PTL DEF PipelineSpec

------------------------------------------------------------------------------
(* The theorems                                                             *)

LEMMA CallInvScoresOnce == CallInv => ScoredOnce
<1> SUFFICES ASSUME CallInv PROVE ScoredOnce
  OBVIOUS
<1> DEFINE all == delivered \o results
<1>1. /\ delivered \in Seq(Result) /\ results \in Seq(Result) /\ InOnePlace
      /\ \A f, g \in closed : f.flow_id = g.flow_id => f = g
  BY DEF CallInv, LogInv, IInv, Sound, Once
<1>2. /\ all \in Seq(Result) /\ Distinct(all)
      /\ FlowsOf(all) = FlowsOf(delivered) \cup FlowsOf(results)
  BY <1>1, MoreResults DEF InOnePlace
<1> HIDE DEF all
<1>3. \A i \in DOMAIN all : all[i].flow \in FlowsOf(all)
  BY DEF FlowsOf
<1>4. \A i \in DOMAIN all : all[i].flow \in closed
  BY <1>1, <1>2, <1>3 DEF InOnePlace
<1>5. ASSUME NEW i \in DOMAIN all, NEW j \in DOMAIN all,
             all[i].flow.flow_id = all[j].flow.flow_id
      PROVE  i = j
  <2>1. all[i].flow = all[j].flow
    BY <1>1, <1>4, <1>5
  <2> QED BY <1>2, <2>1 DEF Distinct
<1>6. \A i \in DOMAIN all : all[i].flow \notin lost \cup queue
  BY <1>1, <1>2, <1>3 DEF InOnePlace
<1> QED BY <1>5, <1>6 DEF ScoredOnce, all

LEMMA CallInvAccounts ==
  ASSUME CallInv
  PROVE  Ids(closed) = DeliveredIds \cup Ids(queue) \cup Ids(lost)
                         \cup { results[i].flow.flow_id : i \in DOMAIN results }
<1>1. closed = queue \cup lost \cup FlowsOf(delivered) \cup FlowsOf(results)
  BY DEF CallInv, InOnePlace
<1>2. Ids(closed) = Ids(queue) \cup Ids(lost) \cup Ids(FlowsOf(delivered))
                      \cup Ids(FlowsOf(results))
  BY <1>1 DEF Ids
<1>3. /\ Ids(FlowsOf(delivered)) = DeliveredIds
      /\ Ids(FlowsOf(results)) = { results[i].flow.flow_id : i \in DOMAIN results }
  BY DEF Ids, FlowsOf, DeliveredIds
<1> QED BY <1>2, <1>3

(* No flow is scored twice, and none turns up again after the call that     *)
(* held it raised (ingest/pipeline.py:118-149, ingest/README.md:140).       *)
THEOREM FlowsScoredOnce == PipelineSpec => []ScoredOnce
<1>1. PipeInv => ScoredOnce
  BY CallInvScoresOnce DEF PipeInv
<1> QED BY <1>1, PipelineInvariance, PTL

(* Every flow taken out of the table is waiting, in a result, or was in a   *)
(* call that raised; if predictions do not raise, nothing is lost.          *)
THEOREM FlowsReachTheCaller == PipelineSpec => []NothingLost
<1>1. PipeInv => NothingLost
  BY CallInvAccounts DEF PipeInv, NothingLost
<1> QED BY <1>1, PipelineInvariance, PTL

(* total_predictions never runs ahead of what the builder has finalized and *)
(* evicted, and it keeps up exactly until a call raises (stats()).          *)
THEOREM StatsReconcile == PipelineSpec => []PredictionsReconcile
<1>1. PipeInv => PredictionsReconcile
  BY DEF PipeInv, CallInv
<1> QED BY <1>1, PipelineInvariance, PTL

(* After every call that did not raise, the flows in the table are those    *)
(* that are not idle at the time of the latest packet.                      *)
THEOREM IdleFlowsLeave == PipelineSpec => []NoIdleFlowLeft
<1>1. PipeInv => NoIdleFlowLeft
  BY DEF PipeInv, IdleExpired, NoIdleFlowLeft
<1> QED BY <1>1, PipelineInvariance, PTL

------------------------------------------------------------------------------
(* What a source has opened                                                 *)

(* What stays of a flow from its first packet on: its id, the source that   *)
(* the history files it under, and the time.                                *)
Birth(f) == <<f.flow_id, f.initiator[1], f.start_time>>
Births == { Birth(f) : f \in Active \cup closed }
BirthOf == Nat \X Int \X Int

(* The entries recorded for a source are those of its flows, one for each.  *)
RecordsOf(src, births, all, ids) ==
  /\ \A i \in 1 .. Len(all) : <<ids[i], src, all[i].ts>> \in births
  /\ \A i, j \in 1 .. Len(all) : ids[i] = ids[j] => i = j
  /\ \A b \in births : b[2] = src => \E i \in 1 .. Len(all) : ids[i] = b[1]

(* A history remembers the flows of a source up to a time.                  *)
Known(history, births, src, latest) ==
  \E all \in Seq(Entry) : \E ids \in [1 .. Len(all) -> Nat] :
    /\ Remembers(Deque(history, src), all, latest)
    /\ RecordsOf(src, births, all, ids)

LEMMA KnownLater ==
  ASSUME NEW history, IsHistory(history), NEW births, NEW src \in Int,
         NEW latest \in Int, NEW later \in Int, latest <= later,
         Known(history, births, src, latest)
  PROVE  Known(history, births, src, later)
<1>1. Deque(history, src) \in Seq(Entry)
  BY DEF Deque, IsHistory
<1>2. PICK all \in Seq(Entry) : \E ids \in [1 .. Len(all) -> Nat] :
        /\ Remembers(Deque(history, src), all, latest)
        /\ RecordsOf(src, births, all, ids)
  BY DEF Known
<1>3. Remembers(Deque(history, src), all, later)
  BY <1>1, <1>2, RememberedLater
<1> QED BY <1>2, <1>3 DEF Known

(* Pruning at a time that has passed forgets nothing of the window.         *)
LEMMA KnownPruned ==
  ASSUME NEW history, IsHistory(history), NEW births, NEW src \in Int,
         NEW latest \in Int, Known(history, births, src, latest),
         NEW a \in Int, NEW time \in Int, time <= latest
  PROVE  Known(Prune(history, a, time), births, src, latest)
<1>1. PICK d \in Seq(Entry) : d = Deque(history, src)
  <2>1. Deque(history, src) \in Seq(Entry)
    BY DEF Deque, IsHistory
  <2> QED BY <2>1
<1>2. PICK all \in Seq(Entry) : \E ids \in [1 .. Len(all) -> Nat] :
        /\ Remembers(d, all, latest)
        /\ RecordsOf(src, births, all, ids)
  BY <1>1 DEF Known
<1>3. Remembers(Deque(Prune(history, a, time), src), all, latest)
  <2>1. CASE src \in DOMAIN history /\ src = a
    <3>1. Deque(Prune(history, a, time), src) = DropOld(d, time - window_sec)
      BY <1>1, <2>1 DEF Deque, Prune
    <3> QED BY <1>2, <3>1, RememberedStats
  <2>2. CASE ~(src \in DOMAIN history /\ src = a)
    <3>1. Deque(Prune(history, a, time), src) = d
      BY <1>1, <2>2 DEF Deque, Prune
    <3> QED BY <1>2, <3>1
  <2> QED BY <2>1, <2>2
<1> QED BY <1>2, <1>3 DEF Known

(* A new flow is recorded at its first packet's time.                       *)
LEMMA KnownRecorded ==
  ASSUME NEW history, IsHistory(history), NEW births \in SUBSET BirthOf, NEW src \in Int,
         NEW ts \in Int, Known(history, births, src, ts),
         NEW a \in Int, NEW dst \in Int, NEW port \in Int,
         NEW id \in Nat, \A b \in births : b[1] # id
  PROVE  Known(RecordNewFlow(history, a, dst, port, ts), births \cup {<<id, a, ts>>}, src, ts)
<1>1. PICK d \in Seq(Entry) : d = Deque(history, src)
  <2>1. Deque(history, src) \in Seq(Entry)
    BY DEF Deque, IsHistory
  <2> QED BY <2>1
<1>2. PICK all \in Seq(Entry) : \E ids \in [1 .. Len(all) -> Nat] :
        /\ Remembers(d, all, ts)
        /\ RecordsOf(src, births, all, ids)
  BY <1>1 DEF Known
<1>3. PICK ids \in [1 .. Len(all) -> Nat] :
        /\ Remembers(d, all, ts)
        /\ RecordsOf(src, births, all, ids)
  BY <1>2
<1>4. PICK n \in Nat : n = Len(all)
  OBVIOUS
<1> DEFINE new == RecordNewFlow(history, a, dst, port, ts)
           more == births \cup {<<id, a, ts>>}
<1>5. CASE a # src
  <2>1. Deque(new, src) = d
    BY <1>1, <1>5 DEF RecordNewFlow, Deque
  <2>2. RecordsOf(src, more, all, ids)
    <3>1. \A b \in more : b[2] = src => b \in births
      BY <1>5
    <3> QED BY <1>3, <3>1 DEF RecordsOf
  <2> HIDE DEF new, more
  <2>3. Known(new, more, src, ts)
    BY <1>3, <2>1, <2>2 DEF Known
  <2> QED BY <2>3 DEF new, more
<1>6. CASE a = src
  <2>1. PICK e \in Entry : e = [ts |-> ts, dst_ip |-> dst, dst_port |-> port]
    BY DEF Entry
  <2> DEFINE buf == Append(d, e)
             kept == IF Len(buf) > max_entries THEN Tail(buf) ELSE buf
             ids2 == [i \in 1 .. n + 1 |-> IF i = n + 1 THEN id ELSE ids[i]]
  <2>2. Deque(new, src) = kept
    BY <1>1, <1>6, <2>1 DEF RecordNewFlow, Deque
  <2>3. Remembers(kept, Append(all, e), ts)
    <3>1. e.ts = ts
      BY <2>1
    <3> QED BY <1>3, <3>1, RememberedRecord
  <2> HIDE DEF kept, new
  <2>4. PICK all2 \in Seq(Entry) :
          /\ all2 = Append(all, e) /\ Len(all2) = n + 1 /\ all2[n + 1] = e
          /\ \A i \in 1 .. n : all2[i] = all[i]
    <3>1. /\ Append(all, e) \in Seq(Entry) /\ Len(Append(all, e)) = n + 1
          /\ Append(all, e)[n + 1] = e
          /\ \A i \in 1 .. n : Append(all, e)[i] = all[i]
      BY <1>4, AppendProperties
    <3> QED BY <3>1
  <2>5. ids2 \in [1 .. Len(all2) -> Nat]
    BY <1>4, <2>4
  <2>6. RecordsOf(src, more, all2, ids2)
    <3>1. \A i \in 1 .. n : ids2[i] = ids[i] /\ <<ids[i], src, all[i].ts>> \in births
      BY <1>3, <1>4 DEF RecordsOf
    <3>2. ids2[n + 1] = id
      BY <1>4
    <3> HIDE DEF ids2
    <3>3. ASSUME NEW i \in 1 .. n + 1 PROVE <<ids2[i], src, all2[i].ts>> \in more
      <4>1. CASE i = n + 1
        BY <1>6, <2>1, <2>4, <3>2, <4>1
      <4>2. CASE i # n + 1
        <5>1. i \in 1 .. n
          BY <4>2
        <5> QED BY <2>4, <3>1, <5>1
      <4> QED BY <4>1, <4>2
    <3>4. \A i \in 1 .. n : ids[i] # id
      <4> SUFFICES ASSUME NEW i \in 1 .. n PROVE ids[i] # id
        OBVIOUS
      <4>1. <<ids[i], src, all[i].ts>> \in births
        BY <3>1
      <4>2. <<ids[i], src, all[i].ts>>[1] # id
        BY <4>1
      <4> QED BY <4>2
    <3>5. ASSUME NEW i \in 1 .. n + 1, NEW j \in 1 .. n + 1, ids2[i] = ids2[j]
          PROVE  i = j
      <4>1. CASE i \in 1 .. n /\ j \in 1 .. n
        <5>1. ids[i] = ids[j]
          BY <3>1, <3>5, <4>1
        <5> QED BY <1>3, <1>4, <4>1, <5>1 DEF RecordsOf
      <4>2. CASE i \in 1 .. n /\ j = n + 1
        BY <3>1, <3>2, <3>4, <3>5, <4>2
      <4>3. CASE i = n + 1 /\ j \in 1 .. n
        BY <3>1, <3>2, <3>4, <3>5, <4>3
      <4>4. CASE i = n + 1 /\ j = n + 1
        BY <4>4
      <4>5. (i \in 1 .. n \/ i = n + 1) /\ (j \in 1 .. n \/ j = n + 1)
        OBVIOUS
      <4> QED BY <4>1, <4>2, <4>3, <4>4, <4>5
    <3>6. ASSUME NEW b \in more, b[2] = src PROVE \E i \in 1 .. n + 1 : ids2[i] = b[1]
      <4>1. CASE b \in births
        <5>1. PICK i \in 1 .. n : ids[i] = b[1]
          BY <1>3, <1>4, <3>6, <4>1 DEF RecordsOf
        <5>2. i \in 1 .. n + 1
          OBVIOUS
        <5>3. ids2[i] = b[1]
          BY <3>1, <5>1
        <5> QED BY <5>2, <5>3
      <4>2. CASE b = <<id, a, ts>>
        <5>1. n + 1 \in 1 .. n + 1 /\ b[1] = id
          BY <4>2
        <5> QED BY <3>2, <5>1
      <4> QED BY <4>1, <4>2
    <3> QED BY <2>4, <3>3, <3>5, <3>6 DEF RecordsOf
  <2> HIDE DEF ids2, more
  <2>7. Known(new, more, src, ts)
    BY <2>2, <2>3, <2>4, <2>5, <2>6 DEF Known
  <2> QED BY <2>7 DEF new, more
<1> QED BY <1>5, <1>6

(* Every id given out is that of one flow.                                  *)
LEMMA BirthOfEveryId ==
  ASSUME IInv
  PROVE  /\ Active \cup closed \in SUBSET FlowState
         /\ \A f, g \in Active \cup closed : f.flow_id = g.flow_id => f = g
         /\ Births \in SUBSET BirthOf
         /\ \A b, c \in Births : b[1] = c[1] => b = c
         /\ \A b \in Births : b[1] \in 1 .. flow_counter
         /\ \A id \in 1 .. flow_counter : \E b \in Births : b[1] = id
<1>1. Active \cup closed \in SUBSET FlowState
  BY DEF IInv, Sound, IsTable, Active
<1>2. EveryFlowOnce
  BY IInvImplies
<1>3. ASSUME NEW f \in Active \cup closed, NEW g \in Active \cup closed, f.flow_id = g.flow_id
      PROVE  f = g
  <2>1. f.flow_id \in Ids(Active) <=> f \in Active
    BY <1>2, <1>3 DEF EveryFlowOnce, Ids
  <2>2. g.flow_id \in Ids(Active) <=> g \in Active
    BY <1>2, <1>3 DEF EveryFlowOnce, Ids
  <2>3. CASE f \in Active
    BY <1>2, <1>3, <2>1, <2>2, <2>3 DEF EveryFlowOnce, Active
  <2>4. CASE f \notin Active
    BY <1>2, <1>3, <2>1, <2>2, <2>4 DEF EveryFlowOnce
  <2> QED BY <2>3, <2>4
<1>4. Births \in SUBSET BirthOf
  <2>1. \A f \in FlowState : Birth(f) \in BirthOf
    BY DEF FlowState, Endpoint, Birth, BirthOf
  <2> QED BY <1>1, <2>1 DEF Births
<1>5. \A f : Birth(f)[1] = f.flow_id
  BY DEF Birth
<1>6. \A b, c \in Births : b[1] = c[1] => b = c
  BY <1>3, <1>5 DEF Births
<1>7. \A b \in Births : b[1] \in 1 .. flow_counter
  BY <1>2, <1>5 DEF Births, EveryFlowOnce, Ids
<1>8. \A id \in 1 .. flow_counter : \E b \in Births : b[1] = id
  BY <1>2, <1>5 DEF Births, EveryFlowOnce, Ids
<1> QED BY <1>1, <1>3, <1>4, <1>6, <1>7, <1>8

(* So no flow is forgotten by a step that adds none but a new one.          *)
LEMMA BirthsStay ==
  ASSUME IInv, IInv', flow_counter' = flow_counter, Births' \subseteq Births
  PROVE  Births' = Births
<1>1. /\ \A b, c \in Births : b[1] = c[1] => b = c
      /\ \A b \in Births : b[1] \in 1 .. flow_counter
  BY BirthOfEveryId
<1>2. (\A id \in 1 .. flow_counter : \E b \in Births : b[1] = id)'
  BY BirthOfEveryId, PTL
<1>3. \A id \in 1 .. flow_counter : \E b \in Births' : b[1] = id
  BY <1>2
<1> QED BY <1>1, <1>3

LEMMA BirthsGrow ==
  ASSUME IInv, IInv', flow_counter' = flow_counter + 1,
         NEW new, new[1] = flow_counter + 1, Births' \subseteq Births \cup {new}
  PROVE  Births' = Births \cup {new} /\ \A b \in Births : b[1] # new[1]
<1>1. /\ \A b, c \in Births : b[1] = c[1] => b = c
      /\ \A b \in Births : b[1] \in 1 .. flow_counter
  BY BirthOfEveryId
<1>2. (\A id \in 1 .. flow_counter : \E b \in Births : b[1] = id)'
  BY BirthOfEveryId, PTL
<1>3. \A id \in 1 .. flow_counter + 1 : \E b \in Births' : b[1] = id
  BY <1>2
<1>4. flow_counter \in Nat
  BY DEF IInv
<1>5. \A b \in Births : b[1] # new[1]
  BY <1>1, <1>4
<1>6. new \in Births'
  <2>1. PICK b \in Births' : b[1] = flow_counter + 1
    BY <1>3, <1>4
  <2> QED BY <1>5, <2>1
<1>7. ASSUME NEW b \in Births PROVE b \in Births'
  <2>1. b[1] \in 1 .. flow_counter + 1
    BY <1>1, <1>4
  <2>2. PICK c \in Births' : c[1] = b[1]
    BY <1>3, <2>1
  <2> QED BY <1>1, <1>5, <2>2
<1> QED BY <1>5, <1>6, <1>7

(* stats asks for the deque that the loop of _prune leaves.                 *)
LEMMA DequePruned ==
  ASSUME NEW history, IsHistory(history), NEW src, NEW time \in Int
  PROVE  Deque(Prune(history, src, time), src) = DropOld(Deque(history, src), time - window_sec)
<1>1. CASE src \in DOMAIN history
  BY <1>1 DEF Deque, Prune
<1>2. CASE src \notin DOMAIN history
  <2>1. Deque(history, src) = <<>> /\ Deque(Prune(history, src, time), src) = <<>>
    BY <1>2 DEF Deque, Prune
  <2>2. time - window_sec \in Int /\ <<>> \in Seq(Entry) /\ Len(<<>>) = 0
    BY SourceHistoryAssumption
  <2>3. /\ DropOld(<<>>, time - window_sec) \in Seq(Entry)
        /\ Len(DropOld(<<>>, time - window_sec)) <= Len(<<>>)
    BY <2>2, DropOldType
  <2>4. Len(DropOld(<<>>, time - window_sec)) = 0
    BY <2>2, <2>3
  <2> QED BY <2>1, <2>3, <2>4, EmptySeq
<1> QED BY <1>1, <1>2

(* The size of a set of flows whose ids are those at positions m to n.      *)
Numbered(flows, ids, m, n) ==
  /\ \A f, g \in flows : f.flow_id = g.flow_id => f = g
  /\ \A i, j \in m .. n : ids[i] = ids[j] => i = j
  /\ \A f \in flows : \E i \in m .. n : ids[i] = f.flow_id
  /\ \A i \in m .. n : \E f \in flows : ids[i] = f.flow_id

LEMMA CountOfIds ==
  ASSUME NEW m \in Int, NEW n \in Int, m <= n + 1,
         NEW flows, NEW ids, Numbered(flows, ids, m, n)
  PROVE  Cardinality(flows) = n - m + 1
<1> DEFINE F == [i \in m .. n |-> CHOOSE f \in flows : ids[i] = f.flow_id]
<1>1. \A i \in m .. n : F[i] \in flows /\ ids[i] = F[i].flow_id
  BY DEF Numbered
<1>2. F \in [m .. n -> flows]
  BY <1>1
<1> HIDE DEF F
<1>3. F \in Injection(m .. n, flows)
  BY <1>1, <1>2 DEF Injection, IsInjective, Numbered
<1>4. \A f \in flows : \E i \in m .. n : F[i] = f
  BY <1>1 DEF Numbered
<1>5. F \in Bijection(m .. n, flows)
  BY <1>2, <1>3, <1>4 DEF Surjection, Bijection
<1>6. ExistsBijection(m .. n, flows)
  BY <1>5 DEF ExistsBijection
<1>7. IsFiniteSet(m .. n) /\ Cardinality(m .. n) = IF m > n THEN 0 ELSE n - m + 1
  BY FS_Interval
<1>8. Cardinality(flows) = Cardinality(m .. n)
  BY <1>6, <1>7, FS_Bijection
<1> QED BY <1>7, <1>8

(* A history that remembers the flows of a source up to a time answers with *)
(* their number, up to the bound.                                           *)
OpenedIn(flows, src, from, to) ==
  { f \in flows : f.initiator[1] = src /\ from <= f.start_time /\ f.start_time <= to }

LEMMA KnownCounts ==
  ASSUME NEW history, IsHistory(history), NEW flows \in SUBSET FlowState,
         \A f, g \in flows : f.flow_id = g.flow_id => f = g,
         NEW births, births = { Birth(f) : f \in flows },
         NEW src \in Int, NEW time \in Int, Known(history, births, src, time)
  PROVE  Stats(history, src, time).flow_count =
           AtMost(Cardinality(OpenedIn(flows, src, time - window_sec, time)), max_entries)
<1>1. PICK opened : opened = OpenedIn(flows, src, time - window_sec, time)
  OBVIOUS
<1>2. \A f : f \in opened <=> /\ f \in flows /\ f.initiator[1] = src
                              /\ time - window_sec <= f.start_time /\ f.start_time <= time
  BY <1>1 DEF OpenedIn
<1>3. PICK d \in Seq(Entry) : d = Deque(history, src)
  <2>1. Deque(history, src) \in Seq(Entry)
    BY DEF Deque, IsHistory
  <2> QED BY <2>1
<1>4. PICK all \in Seq(Entry) : \E ids \in [1 .. Len(all) -> Nat] :
        /\ Remembers(d, all, time)
        /\ RecordsOf(src, births, all, ids)
  BY <1>3 DEF Known
<1>5. PICK ids \in [1 .. Len(all) -> Nat] :
        /\ Remembers(d, all, time)
        /\ RecordsOf(src, births, all, ids)
  BY <1>4
<1>6. PICK n \in Nat, max \in Nat, c \in Int :
        n = Len(all) /\ max = max_entries /\ c = time - window_sec
  BY SourceHistoryAssumption
<1>7. PICK m \in 1 .. n + 1 : \A i \in 1 .. n : all[i].ts >= c <=> i >= m
  BY <1>5, <1>6, DropOldOfSorted DEF Remembers
<1>8. Stats(history, src, time).flow_count = Cardinality(Recent(all, time))
  <2>1. PICK buf : buf = DropOld(d, time - window_sec)
    OBVIOUS
  <2>2. Remembers(buf, all, time) /\ Len(buf) = Cardinality(Recent(all, time))
    <3>1. /\ d \in Seq(Entry) /\ all \in Seq(Entry) /\ time \in Int
          /\ Remembers(d, all, time) /\ time <= time
          /\ buf = DropOld(d, time - window_sec)
      BY <1>5, <2>1
    <3> QED BY <3>1, RememberedStats
  <2>3. Deque(Prune(history, src, time), src) = buf
    BY <1>3, <2>1, DequePruned
  <2> QED BY <2>2, <2>3 DEF Stats, CountsOf
<1>9. Cardinality(Recent(all, time)) = AtMost(n - m + 1, max)
  <2>1. PICK low \in Int : low = IF m > n - max THEN m ELSE n - max + 1
    <3>1. m \in Int /\ n - max + 1 \in Int
      OBVIOUS
    <3> QED BY <3>1
  <2>2. Recent(all, time) = low .. n
    <3>1. \A i : i \in Recent(all, time) <=> i \in 1 .. n /\ i > n - max /\ all[i].ts >= c
      BY <1>6 DEF Recent
    <3>2. \A i : i \in Recent(all, time) <=> i \in 1 .. n /\ i > n - max /\ i >= m
      BY <1>7, <3>1
    <3>3. low >= 1 /\ \A i \in 1 .. n : (i > n - max /\ i >= m) <=> i >= low
      BY <2>1
    <3>4. \A i : i \in Recent(all, time) <=> i \in low .. n
      BY <2>1, <3>2, <3>3
    <3> QED BY <3>4
  <2>3. Cardinality(low .. n) = IF low > n THEN 0 ELSE n - low + 1
    <3>1. low \in Int /\ n \in Int
      OBVIOUS
    <3> QED BY <3>1, FS_Interval
  <2>4. low <= n + 1 /\ n - low + 1 = IF n - m + 1 < max THEN n - m + 1 ELSE max
    BY <2>1
  <2>5. Cardinality(low .. n) = n - low + 1
    BY <2>3, <2>4
  <2> QED BY <2>2, <2>4, <2>5 DEF AtMost
<1>10. Cardinality(opened) = n - m + 1
  <2>1. \A f, g \in opened : f.flow_id = g.flow_id => f = g
    BY <1>2
  <2>2. \A i, j \in m .. n : ids[i] = ids[j] => i = j
    BY <1>5, <1>6, <1>7 DEF RecordsOf
  <2>3. ASSUME NEW i \in m .. n PROVE \E f \in opened : ids[i] = f.flow_id
    <3>1. i \in 1 .. n /\ i >= m
      BY <1>7
    <3>2. <<ids[i], src, all[i].ts>> \in births
      BY <1>5, <1>6, <3>1 DEF RecordsOf
    <3>3. PICK f \in flows : Birth(f) = <<ids[i], src, all[i].ts>>
      BY <3>2
    <3>4. f.flow_id = ids[i] /\ f.initiator[1] = src /\ f.start_time = all[i].ts
      BY <3>3 DEF Birth
    <3>5. all[i].ts >= c /\ all[i].ts <= time /\ all[i].ts \in Int
      <4>1. all[i] \in Entry
        BY <1>6, <3>1
      <4> QED BY <1>5, <1>6, <1>7, <3>1, <4>1 DEF Remembers, Entry
    <3> QED BY <1>6, <1>2, <3>3, <3>4, <3>5
  <2>4. ASSUME NEW f \in opened PROVE \E i \in m .. n : ids[i] = f.flow_id
    <3>1. /\ Birth(f) \in births /\ Birth(f)[2] = src /\ Birth(f)[1] = f.flow_id
          /\ f \in flows /\ f.start_time \in Int /\ c <= f.start_time
      BY <1>6, <1>2 DEF Birth, FlowState
    <3>2. PICK i \in 1 .. n : ids[i] = f.flow_id
      BY <1>5, <1>6, <3>1 DEF RecordsOf
    <3>3. <<ids[i], src, all[i].ts>> \in births
      BY <1>5, <1>6, <3>2 DEF RecordsOf
    <3>4. PICK g \in flows : Birth(g) = <<ids[i], src, all[i].ts>>
      BY <3>3
    <3>5. g.flow_id = f.flow_id /\ g.start_time = all[i].ts
      BY <3>2, <3>4 DEF Birth
    <3>6. g = f
      BY <3>1, <3>5
    <3>7. all[i].ts >= c
      BY <3>1, <3>5, <3>6
    <3>8. i >= m
      BY <1>7, <3>2, <3>7
    <3>9. i \in m .. n
      BY <3>2, <3>8
    <3> QED BY <3>2, <3>9
  <2>5. Numbered(opened, ids, m, n)
    BY <2>1, <2>2, <2>3, <2>4 DEF Numbered
  <2>6. m \in Int /\ n \in Int /\ m <= n + 1
    BY <1>7
  <2> QED BY <2>5, <2>6, CountOfIds
<1> QED BY <1>1, <1>6, <1>8, <1>9, <1>10

------------------------------------------------------------------------------
(* The invariant of the source counts                                       *)

UpTo(latest) == \A i \in DOMAIN log : log[i].ts <= latest

(* While packets come in order, the history remembers the flows of every    *)
(* source, and a connection in the queue closed with the latest packet.     *)
SourceInv ==
  InOrder =>
    /\ \A src, latest \in Int : UpTo(latest) => Known(source_history, Births, src, latest)
    /\ \A f \in queue : f.finalize_reason = "tcp_close" => UpTo(f.last_seen)

(* The summaries of the flows stay exact inside the pipeline.               *)
LEMMA SummariesInPipeline ==
  ASSUME CallInv, CallInv', SummaryInv, [PipelineNext]_allVars
  PROVE  SummaryInv'
<1>1. LogInv'
  BY DEF CallInv
<1>2. ASSUME NEW h \in Headers, NEW ts \in Times, ProcessPacket(h, ts) PROVE SummaryInv'
  BY <1>1, <1>2, AddPacketApplies, PacketKeepsSummaries DEF ProcessPacket
<1>3. ASSUME NEW time, CheckTimeouts(time) PROVE SummaryInv'
  BY <1>1, <1>3, RemovalKeepsSummaries DEF CheckTimeouts
<1>4. CASE FlushAll
  BY <1>1, <1>4, RemovalKeepsSummaries DEF FlushAll, Flush
<1>5. ASSUME UNCHANGED <<active_flows, log, closed>> PROVE SummaryInv'
  BY <1>1, <1>5 DEF SummaryInv
<1>6. CASE FinalizeResult \/ PredictFails
  BY <1>5, <1>6 DEF FinalizeResult, PredictFails, Extract, SourceStats
<1>7. CASE ReturnResults \/ UNCHANGED allVars
  BY <1>5, <1>7 DEF ReturnResults, allVars, vars, builderVars
<1> QED BY <1>2, <1>3, <1>4, <1>6, <1>7
    DEF PipelineNext, Step, CheckIdleTimeouts, ThenCheckTimeouts

(* A call of add_packet either leaves the births and the history alone, or  *)
(* adds one flow to both.                                                   *)
LEMMA PacketAddsBirth ==
  ASSUME IInv, IInv', NEW h \in Headers, NEW ts \in Times, AddPacket(h, ts)
  PROVE  \/ Births' = Births /\ source_history' = source_history
         \/ \E src, dst, port \in Int :
              /\ source_history' = RecordNewFlow(source_history, src, dst, port, ts)
              /\ Births' = Births \cup {<<flow_counter + 1, src, ts>>}
              /\ \A b \in Births : b[1] # flow_counter + 1
<1> DEFINE key == CanonicalKey(h)
           flow == FlowFor(h, ts)
           updated == ApplyPacket(flow, h, ts)
<1>1. /\ \A k \in DOMAIN active_flows' :
           \/ k = key /\ active_flows'[k] = updated
           \/ k # key /\ k \in DOMAIN active_flows /\ active_flows'[k] = active_flows[k]
      /\ \A f \in closed' :
           \/ f \in closed
           \/ f = Finalize(updated, "tcp_close")
           \/ /\ key \notin DOMAIN active_flows
              /\ \E k \in DOMAIN active_flows :
                   f = Finalize(active_flows[k], "capacity_evict")
  BY AddPacketApplies DEF PacketApplied
<1>2. flow_counter \in Nat /\ ts \in Int
  BY FlowBuilderAssumption DEF IInv
<1>3. flow \in FlowState /\ \A k \in DOMAIN active_flows : active_flows[k] \in FlowState
  BY <1>2, NewFlowType DEF FlowFor, IInv, Sound, IsTable
<1>4. \A f \in FlowState, reason \in Reasons : Birth(Finalize(f, reason)) = Birth(f)
  BY DEF Finalize, FlowState, Birth
<1>5. updated \in FlowState /\ Birth(updated) = Birth(flow)
  <2>1. updated \in FlowState
    BY <1>2, <1>3, ApplyPacketType
  <2>2. Birth(updated) = Birth(flow)
    BY <1>3 DEF ApplyPacket, FlowState, Birth
  <2> QED BY <2>1, <2>2
<1>6. Births' \subseteq Births \cup {Birth(flow)}
  <2> HIDE DEF updated, key, flow
  <2>1. "tcp_close" \in Reasons /\ "capacity_evict" \in Reasons
    BY DEF Reasons
  <2>2. \A k \in DOMAIN active_flows : Birth(active_flows[k]) \in Births
    BY DEF Births, Active
  <2>3. \A f \in Active' : Birth(f) \in Births \cup {Birth(flow)}
    BY <1>1, <1>5, <2>2 DEF Active
  <2>4. \A f \in closed' : Birth(f) \in Births \cup {Birth(flow)}
    BY <1>1, <1>3, <1>4, <1>5, <2>1, <2>2 DEF Births
  <2>5. Births' = { Birth(f) : f \in Active' \cup closed' }
    BY DEF Births, Birth
  <2> QED BY <2>3, <2>4, <2>5
<1>7. CASE key \in DOMAIN active_flows
  <2>1. UNCHANGED <<flow_counter, source_history>>
    BY <1>7 DEF AddPacket, AddToActive, OpenFlow, EvictAndOpen
  <2>2. Birth(flow) \in Births
    BY <1>7 DEF FlowFor, Births, Active
  <2>3. Births' \subseteq Births
    BY <1>6, <2>2
  <2> QED BY <2>1, <2>3, BirthsStay
<1>8. CASE key \notin DOMAIN active_flows
  <2>1. flow = NewFlow(flow_counter + 1, h, ts)
    BY <1>8 DEF FlowFor
  <2>2. /\ flow_counter' = flow_counter + 1
        /\ source_history' = RecordNewFlow(source_history, flow.initiator[1],
                                           flow.responder[1], flow.responder[2], ts)
    BY <1>8, <2>1 DEF AddPacket, AddToActive, OpenFlow, EvictAndOpen, CreateFlow
  <2> HIDE DEF flow
  <2>3. flow.flow_id = flow_counter + 1 /\ flow.start_time = ts
    BY <2>1 DEF NewFlow
  <2>4. flow.initiator[1] \in Int /\ flow.responder[1] \in Int /\ flow.responder[2] \in Int
    BY <1>3 DEF FlowState, Endpoint
  <2>5. Birth(flow) = <<flow_counter + 1, flow.initiator[1], ts>>
    BY <2>3 DEF Birth
  <2>6. Birth(flow)[1] = flow_counter + 1
    BY <2>5
  <2>7. /\ Births' = Births \cup {Birth(flow)}
        /\ \A b \in Births : b[1] # flow_counter + 1
    BY <1>6, <2>2, <2>6, BirthsGrow
  <2> QED BY <2>2, <2>4, <2>5, <2>7
<1> QED BY <1>7, <1>8

(* A packet in time order is recorded at its own time.                      *)
LEMMA PacketKeepsSource ==
  ASSUME CallInv, CallInv', SourceInv, NEW h \in Headers, NEW ts \in Times,
         ProcessPacket(h, ts)
  PROVE  SourceInv'
<1>1. IInv /\ IInv' /\ ts \in Int /\ AddPacket(h, ts) /\ queue' = returned'
  BY FlowBuilderAssumption DEF CallInv, LogInv, ProcessPacket, Enter
<1>2. PICK p \in Logged : log' = Append(log, p) /\ p.ts = ts
  <2>1. \E id \in Nat : log' = Append(log, [header |-> h, ts |-> ts, flow_id |-> id])
    BY ProcessPacketKeeps
  <2> QED BY <2>1 DEF Logged
<1>3. PICK n \in Nat : /\ n = Len(log) /\ DOMAIN log = 1 .. n /\ DOMAIN log' = 1 .. n + 1
                       /\ log'[n + 1] = p /\ \A i \in 1 .. n : log'[i] = log[i]
  <2>1. log \in Seq(Logged)
    BY <1>1 DEF IInv
  <2> QED BY <1>2, <2>1, AppendProperties
<1>4. \A i \in 1 .. n : log[i].ts \in Int
  <2>1. \A i \in 1 .. n : log[i] \in Logged
    BY <1>1, <1>3 DEF IInv
  <2> QED BY <2>1, FlowBuilderAssumption DEF Logged
<1> SUFFICES ASSUME InOrder'
             PROVE  /\ \A src, latest \in Int :
                         UpTo(latest)' => Known(source_history', Births', src, latest)
                    /\ \A f \in queue' : f.finalize_reason = "tcp_close" => UpTo(f.last_seen)'
  BY DEF SourceInv, UpTo, InOrder, Known, Births, Birth
<1>5. \A i, j \in 1 .. n + 1 : i < j => log'[i].ts <= log'[j].ts
  BY <1>3 DEF InOrder
<1>6. UpTo(ts)
  <2> SUFFICES ASSUME NEW i \in 1 .. n PROVE log[i].ts <= ts
    BY <1>3 DEF UpTo
  <2>1. i \in 1 .. n + 1 /\ n + 1 \in 1 .. n + 1 /\ i < n + 1
    OBVIOUS
  <2>2. log'[i].ts <= log'[n + 1].ts
    BY <1>5, <2>1
  <2> QED BY <1>2, <1>3, <2>2
<1>7. InOrder
  <2> SUFFICES ASSUME NEW i \in 1 .. n, NEW j \in 1 .. n, i < j
               PROVE  log[i].ts <= log[j].ts
    BY <1>3 DEF InOrder
  <2>1. i \in 1 .. n + 1 /\ j \in 1 .. n + 1
    OBVIOUS
  <2>2. log'[i].ts <= log'[j].ts
    BY <1>5, <2>1
  <2> QED BY <1>3, <2>2
<1>8. UpTo(ts)'
  <2>1. \A i \in 1 .. n + 1 : i \in 1 .. n \/ i = n + 1
    OBVIOUS
  <2> QED BY <1>1, <1>2, <1>3, <1>6, <2>1 DEF UpTo
<1>9. ASSUME NEW src \in Int, NEW latest \in Int, UpTo(latest)'
      PROVE  Known(source_history', Births', src, latest)
  <2>1. UpTo(latest) /\ ts <= latest
    <3>1. \A i \in 1 .. n + 1 : log'[i].ts <= latest
      BY <1>3, <1>9 DEF UpTo
    <3>2. \A i \in 1 .. n : i \in 1 .. n + 1
      OBVIOUS
    <3>3. n + 1 \in 1 .. n + 1
      OBVIOUS
    <3> QED BY <1>2, <1>3, <3>1, <3>2, <3>3 DEF UpTo
  <2>2. CASE Births' = Births /\ source_history' = source_history
    BY <1>7, <2>1, <2>2 DEF SourceInv
  <2>3. CASE \E a, dst, port \in Int :
               /\ source_history' = RecordNewFlow(source_history, a, dst, port, ts)
               /\ Births' = Births \cup {<<flow_counter + 1, a, ts>>}
               /\ \A b \in Births : b[1] # flow_counter + 1
    <3>1. PICK a \in Int, dst \in Int, port \in Int :
            /\ source_history' = RecordNewFlow(source_history, a, dst, port, ts)
            /\ Births' = Births \cup {<<flow_counter + 1, a, ts>>}
            /\ \A b \in Births : b[1] # flow_counter + 1
      BY <2>3
    <3>2. Known(source_history, Births, src, ts)
      BY <1>1, <1>6, <1>7 DEF SourceInv
    <3>3. IsHistory(source_history) /\ flow_counter + 1 \in Nat /\ Births \in SUBSET BirthOf
      BY <1>1, BirthOfEveryId DEF IInv
    <3>4. Known(source_history', Births', src, ts)
      BY <1>1, <3>1, <3>2, <3>3, KnownRecorded
    <3>5. IsHistory(source_history')
      BY <1>1 DEF IInv
    <3> QED BY <1>1, <2>1, <3>4, <3>5, KnownLater
  <2> QED BY <1>1, <2>2, <2>3, PacketAddsBirth
<1>10. ASSUME NEW f \in queue', f.finalize_reason = "tcp_close"
       PROVE  UpTo(f.last_seen)'
  <2>1. f \in closed' /\ f.flow_id \notin Ids(closed)
    BY <1>1, AddPacketTakes DEF TakesOut
  <2>2. f \notin closed
    BY <2>1 DEF Ids
  <2> DEFINE updated == ApplyPacket(FlowFor(h, ts), h, ts)
  <2>3. \/ f = Finalize(updated, "tcp_close")
        \/ \E k \in DOMAIN active_flows : f = Finalize(active_flows[k], "capacity_evict")
    BY <1>1, <2>1, <2>2, AddPacketApplies DEF PacketApplied
  <2>4. \A k \in DOMAIN active_flows :
          Finalize(active_flows[k], "capacity_evict").finalize_reason = "capacity_evict"
    BY <1>1, FinalizeSets DEF IInv, Sound, IsTable, Reasons
  <2>5. f = Finalize(updated, "tcp_close")
    <3> HIDE DEF updated
    <3> QED BY <1>10, <2>3, <2>4
  <2>6. FlowFor(h, ts) \in FlowState
    <3>1. flow_counter \in Nat
      BY <1>1 DEF IInv
    <3> QED BY <1>1, <3>1, NewFlowType DEF FlowFor, IInv, Sound, IsTable
  <2>7. updated \in FlowState /\ updated.last_seen = ts
    <3>1. updated \in FlowState
      BY <1>1, <2>6, ApplyPacketType
    <3>2. updated.last_seen = ts
      BY <2>6 DEF ApplyPacket, FlowState
    <3> QED BY <3>1, <3>2
  <2> HIDE DEF updated
  <2>8. f.last_seen = ts
    BY <2>5, <2>7 DEF Finalize, FlowState
  <2> QED BY <1>8, <2>8
<1> QED BY <1>9, <1>10

(* Flows that leave the table keep their births.                            *)
LEMMA RemovalKeepsSource ==
  ASSUME CallInv, CallInv', SourceInv,
         NEW keys \in SUBSET DOMAIN active_flows, NEW reason \in {"timeout", "flush"},
         Remove(keys, reason), queue' = returned'
  PROVE  SourceInv'
<1>1. IInv /\ IInv'
  BY DEF CallInv, LogInv
<1>2. /\ active_flows' = Without(active_flows, keys)
      /\ returned' = { Finalize(active_flows[k], reason) : k \in keys }
      /\ closed' = closed \cup returned'
      /\ UNCHANGED <<flow_counter, source_history, log>>
  BY DEF Remove, Return
<1>3. \A k \in DOMAIN active_flows : active_flows[k] \in FlowState
  BY <1>1 DEF IInv, Sound, IsTable
<1>4. \A f \in FlowState : /\ Birth(Finalize(f, reason)) = Birth(f)
                           /\ Finalize(f, reason).finalize_reason = reason
  BY DEF Finalize, FlowState, Birth
<1>5. Births' = Births
  <2>1. \A f \in Active' : Birth(f) \in Births
    BY <1>2 DEF Active, Without, Births
  <2>2. \A f \in returned' : Birth(f) \in Births
    <3>1. \A k \in DOMAIN active_flows : Birth(active_flows[k]) \in Births
      BY DEF Births, Active
    <3> QED BY <1>2, <1>3, <1>4, <3>1
  <2>3. \A f \in closed : Birth(f) \in Births
    BY DEF Births
  <2>4. Births' = { Birth(f) : f \in Active' \cup closed' }
    BY DEF Births, Birth
  <2>5. Births' \subseteq Births
    BY <1>2, <2>1, <2>2, <2>3, <2>4
  <2> QED BY <1>1, <1>2, <2>5, BirthsStay
<1>6. \A f \in queue' : f.finalize_reason # "tcp_close"
  BY <1>2, <1>3, <1>4
<1> QED BY <1>2, <1>5, <1>6 DEF SourceInv, UpTo, InOrder

(* A step that leaves the table alone and queues nothing.                   *)
LEMMA QueryKeepsSource ==
  ASSUME CallInv, SummaryInv, SourceInv,
         UNCHANGED <<active_flows, closed, log>>, queue' \subseteq queue,
         \/ source_history' = source_history
         \/ queue # {} /\ Extract(First(queue))
  PROVE  SourceInv'
<1>1. Births' = Births
  BY DEF Births, Active, Birth
<1> SUFFICES ASSUME InOrder,
                    source_history' # source_history,
                    NEW src \in Int, NEW latest \in Int, UpTo(latest)
             PROVE  Known(source_history', Births, src, latest)
  BY <1>1 DEF SourceInv, UpTo, InOrder
<1> DEFINE flow == First(queue)
<1>2. flow \in queue /\ flow \in FlowState
  BY NextInQueue
<1>3. source_history' = Prune(source_history, flow.initiator[1], flow.last_seen)
  BY DEF Extract, SourceStats
<1> HIDE DEF flow
<1>4. flow \in closed
  BY <1>2 DEF CallInv, InOnePlace
<1>5. SummaryOf(log, flow)
  BY <1>4 DEF SummaryInv
<1>6. \E i \in DOMAIN log : log[i].ts = flow.last_seen
  BY <1>5 DEF SummaryOf, PacketsOf
<1>7. flow.last_seen <= latest /\ flow.last_seen \in Int /\ flow.initiator[1] \in Int
  BY <1>2, <1>6 DEF UpTo, FlowState, Endpoint
<1>8. IsHistory(source_history) /\ Known(source_history, Births, src, latest)
  BY DEF CallInv, LogInv, IInv, SourceInv
<1> QED BY <1>3, <1>7, <1>8, KnownPruned

CountInv == CallInv /\ SummaryInv /\ SourceInv

LEMMA CountInvKept == CountInv /\ [PipelineNext]_allVars => CountInv'
<1> SUFFICES ASSUME CountInv, [PipelineNext]_allVars PROVE CountInv'
  OBVIOUS
<1>1. CallInv /\ CallInv' /\ SummaryInv /\ SummaryInv' /\ SourceInv
  BY CallsKeep, SummariesInPipeline DEF CountInv
<1>2. SourceInv'
  <2>1. ASSUME NEW h \in Headers, NEW ts \in Times, ProcessPacket(h, ts) PROVE SourceInv'
    BY <1>1, <2>1, PacketKeepsSource
  <2>2. ASSUME NEW time, CheckTimeouts(time), queue' = returned' PROVE SourceInv'
    BY <1>1, <2>2, RemovalKeepsSource DEF CheckTimeouts
  <2>3. CASE FlushAll
    BY <1>1, <2>3, RemovalKeepsSource DEF FlushAll, Flush, Enter
  <2>4. CASE FinalizeResult
    BY <1>1, <2>4, QueryKeepsSource DEF FinalizeResult, Extract, SourceStats
  <2>5. CASE PredictFails
    BY <1>1, <2>5, QueryKeepsSource DEF PredictFails, Extract, SourceStats
  <2>6. CASE ReturnResults
    BY <1>1, <2>6, QueryKeepsSource DEF ReturnResults, vars, builderVars
  <2>7. CASE UNCHANGED allVars
    BY <1>1, <2>7, QueryKeepsSource DEF allVars, pipelineVars, callVars, vars, builderVars
  <2> QED BY <2>1, <2>2, <2>3, <2>4, <2>5, <2>6, <2>7
      DEF PipelineNext, Step, CheckIdleTimeouts, ThenCheckTimeouts, Enter
<1> QED BY <1>1, <1>2 DEF CountInv

LEMMA CountInvariance == PipelineSpec => []CountInv
<1>1. PipelineInit => CountInv
  <2> SUFFICES ASSUME PipelineInit PROVE CountInv
    OBVIOUS
  <2>1. CallInv
    BY PipelineInitHolds DEF PipeInv
  <2>2. SummaryInv
    BY InitLogged DEF PipelineInit, Init, SummaryInv
  <2>3. ASSUME NEW src \in Int, NEW latest \in Int
        PROVE  Known(source_history, Births, src, latest)
    <3>1. source_history = EmptyHistory /\ Births = {}
      BY DEF PipelineInit, Init, Births, Active
    <3>2. Deque(source_history, src) = <<>>
      BY <3>1 DEF EmptyHistory, Deque
    <3>3. <<>> \in Seq(Entry) /\ Len(<<>>) = 0 /\ <<>> \in [1 .. Len(<<>>) -> Nat]
      OBVIOUS
    <3>4. Remembers(<<>>, <<>>, latest)
      BY <3>3, SourceHistoryAssumption DEF Remembers, Sorted
    <3>5. RecordsOf(src, Births, <<>>, <<>>)
      BY <3>1, <3>3 DEF RecordsOf
    <3> QED BY <3>2, <3>3, <3>4, <3>5 DEF Known
  <2>4. queue = {}
    BY DEF PipelineInit
  <2> QED BY <2>1, <2>2, <2>3, <2>4 DEF CountInv, SourceInv
<1> QED BY <1>1, CountInvKept, PTL DEF PipelineSpec

(* While packets come in order, the count that a closed connection is       *)
(* scored with is the number of flows its source opened in the window: what *)
(* pruning and the bound removed from the history, and what other calls     *)
(* queried in between, makes no difference (flow_builder.py:78-107,         *)
(* pipeline.py:98-121).                                                     *)
THEOREM ClosesAreCounted == PipelineSpec => CloseScoredExactly
<1>1. ASSUME CountInv, FinalizeResult,
             NEW i \in DOMAIN results' \ DOMAIN results,
             results'[i].flow.finalize_reason = "tcp_close", InOrder
      PROVE  LET flow == results'[i].flow
                 n == Cardinality(OpenedBy(flow.initiator[1],
                                           flow.last_seen - window_sec, flow.last_seen))
             IN  results'[i].features.flow_count = AtMost(n, max_entries)
  <2> DEFINE flow == First(queue)
             result == [flow |-> flow, features |-> Features(flow)]
  <2>1. CallInv /\ SummaryInv /\ SourceInv /\ queue # {} /\ results' = Append(results, result)
    BY <1>1 DEF CountInv, FinalizeResult
  <2>2. flow \in queue /\ flow \in FlowState
    BY <2>1, NextInQueue
  <2>3. results'[i] = result
    <3> HIDE DEF result
    <3>1. results \in Seq(Result)
      BY <2>1 DEF CallInv
    <3>2. DOMAIN results = 1 .. Len(results) /\ Len(results) \in Nat
      BY <3>1
    <3>3. results'[Len(results) + 1] = result /\ DOMAIN results' = 1 .. Len(results) + 1
      BY <2>1, <3>1, AppendProperties
    <3>4. i = Len(results) + 1
      BY <1>1, <3>2, <3>3
    <3> QED BY <3>3, <3>4
  <2>4. results'[i].flow = flow /\ results'[i].features = Features(flow)
    BY <2>3
  <2> HIDE DEF flow, result
  <2>5. /\ flow.initiator[1] \in Int /\ flow.last_seen \in Int
        /\ flow.finalize_reason = "tcp_close"
    BY <1>1, <2>2, <2>4 DEF FlowState, Endpoint
  <2>6. Known(source_history, Births, flow.initiator[1], flow.last_seen)
    BY <1>1, <2>1, <2>2, <2>5 DEF SourceInv
  <2>7. /\ Active \cup closed \in SUBSET FlowState
        /\ \A f, g \in Active \cup closed : f.flow_id = g.flow_id => f = g
        /\ IsHistory(source_history)
    BY <2>1, BirthOfEveryId DEF CallInv, LogInv, IInv
  <2>8. Births = { Birth(f) : f \in Active \cup closed }
    BY DEF Births
  <2>9. OpenedBy(flow.initiator[1], flow.last_seen - window_sec, flow.last_seen)
          = OpenedIn(Active \cup closed, flow.initiator[1], flow.last_seen - window_sec,
                     flow.last_seen)
    BY DEF OpenedBy, OpenedIn
  <2>10. Features(flow).flow_count
          = AtMost(Cardinality(OpenedBy(flow.initiator[1], flow.last_seen - window_sec,
                                        flow.last_seen)), max_entries)
    BY <2>5, <2>6, <2>7, <2>8, <2>9, KnownCounts DEF Features
  <2> QED BY <2>4, <2>10
<1>2. CountInv /\ [PipelineNext]_allVars =>
        [\A i \in DOMAIN results' \ DOMAIN results :
           LET flow == results'[i].flow
               n == Cardinality(OpenedBy(flow.initiator[1],
                                         flow.last_seen - window_sec, flow.last_seen))
           IN  (flow.finalize_reason = "tcp_close" /\ InOrder) =>
                 results'[i].features.flow_count = AtMost(n, max_entries)]_allVars
  <2>1. ASSUME PipelineNext, ~FinalizeResult PROVE DOMAIN results' \subseteq DOMAIN results
    <3>1. results' = results \/ results' = <<>>
      BY <2>1 DEF PipelineNext, Step, ProcessPacket, ThenCheckTimeouts, CheckIdleTimeouts,
         FlushAll, PredictFails, ReturnResults
    <3> QED BY <3>1
  <2> QED BY <1>1, <2>1
<1> QED BY <1>2, CountInvariance, PTL DEF PipelineSpec, CloseScoredExactly

(* What was proved of the table alone holds inside the pipeline, which      *)
(* calls it in an order of its own and queries the history at times that    *)
(* no packet has.                                                           *)
THEOREM TableInsidePipeline ==
  PipelineSpec => [](/\ CapacityBound /\ CountersAccount /\ EveryFlowOnce
                     /\ NeverSplit /\ CloseIsLast /\ SummariesExact)
<1>1. CountInv => /\ CapacityBound /\ CountersAccount /\ EveryFlowOnce
                  /\ NeverSplit /\ CloseIsLast /\ SummariesExact
  BY IInvImplies, LogInvImplies
     DEF CountInv, CallInv, LogInv, SummaryInv, SummariesExact, Active
<1> QED BY <1>1, CountInvariance, PTL

------------------------------------------------------------------------------
(* The intake: the invariant of its process                                 *)

Phases == {"poll", "round", "reading", "after file", "sweep in file", "moving",
           "after round", "sweep in loop", "shutdown", "flushing", "exited", "aborted"}
Calling == {"reading", "sweep in file", "sweep in loop", "flushing"}

(* Which pipeline call can be in progress in which phase.                   *)
PhaseInv ==
  /\ phase \in Phases
  /\ phase = "reading" => stage \in {"none", "packet", "timeouts"}
  /\ phase \in {"sweep in file", "sweep in loop"} => stage = "sweep"
  /\ phase = "flushing" => stage = "flush"
  /\ phase \notin Calling => stage = "none"
  /\ phase \in {"flushing", "exited"} => Active = {}

LifeRecord ==
  [read : SUBSET DOMAIN Files, output : SUBSET Nat, unscored : SUBSET DOMAIN Files]

(* A file is in hand, and this much of it has been read.                    *)
InFile == phase \in {"reading", "after file", "sweep in file", "moving"}

IntakeTypes ==
  /\ mode \in Modes
  /\ wall \in 0 .. MaxWall
  /\ past \in Seq(LifeRecord)
  /\ folder \subseteq DOMAIN Files /\ round \subseteq DOMAIN Files
  /\ ingested \subseteq DOMAIN Files
  /\ written \in [DOMAIN Files -> Nat]
  /\ \A f \in DOMAIN Files : written[f] <= Size(f)
  /\ InFile => file \in DOMAIN Files /\ pos \in 0 .. written[file]

IntakeInv == CallInv /\ PhaseInv /\ IntakeTypes

------------------------------------------------------------------------------
(* The invariant of the files, when none is seen half written               *)

(* The log ends with the packets of a file up to the i-th.                  *)
JustRead(f, i, entries) ==
  \E k \in Nat : /\ k + Cardinality(Parsed(f, i)) = Len(entries)
                 /\ ReadAfter(k, f, i, entries)

IsDone(f) == IsRead(f, log) \/ \E i \in DOMAIN past : f \in past[i].read

(* What the files in the folder, the polled and the processed ones are.     *)
FolderInv ==
  /\ \A f \in DOMAIN Files : written[f] \in {0, Size(f)}
  /\ \A f \in folder \cup round : written[f] = Size(f)
  /\ \A f \in ingested : written[f] = Size(f) /\ IsDone(f)
  /\ mode = "watch" => \A f \in DOMAIN Files : written[f] > 0 => f \in folder \cup ingested

(* What has been read of the file in hand.                                  *)
InHand ==
  InFile => /\ written[file] = Size(file) /\ JustRead(file, pos, log)
            /\ phase # "reading" => pos = Size(file)

------------------------------------------------------------------------------
(* The calls into the pipeline                                              *)

LEMMA FileFacts ==
  ASSUME NEW f \in DOMAIN Files
  PROVE  /\ Size(f) \in Nat
         /\ DOMAIN Files[f].packets = 1 .. Size(f)
         /\ \A i \in 1 .. Size(f) : /\ Files[f].packets[i].header \in Headers
                                    /\ Files[f].packets[i].ts \in Times
<1>1. Files[f] \in CaptureFile
  BY PcapIntakeAssumption
<1>2. PICK s \in Seq(CapturePacket) : s = Files[f].packets
  BY <1>1 DEF CaptureFile
<1>3. DOMAIN s = 1 .. Len(s) /\ Len(s) \in Nat
  BY <1>2
<1>4. ASSUME NEW i \in 1 .. Len(s)
      PROVE  s[i].header \in Headers /\ s[i].ts \in Times
  <2>1. s[i] \in CapturePacket
    BY <1>2, <1>3
  <2> QED BY <2>1 DEF CapturePacket
<1>5. Size(f) = Len(s)
  BY <1>2 DEF Size
<1>6. Size(f) \in Nat /\ DOMAIN Files[f].packets = 1 .. Size(f)
  BY <1>2, <1>3, <1>5
<1>7. ASSUME NEW i \in 1 .. Size(f)
      PROVE  Files[f].packets[i].header \in Headers /\ Files[f].packets[i].ts \in Times
  <2>1. s[i].header \in Headers /\ s[i].ts \in Times
    BY <1>4, <1>5
  <2> QED BY <1>2, <2>1
<1> QED BY <1>6, <1>7

LEMMA ModeCases ==
  ASSUME IntakeTypes
  PROVE  mode \in {"watch", "serve", "replay"}
BY PcapIntakeAssumption DEF IntakeTypes

(* A step that leaves the pipeline alone. *)
LEMMA OutsideKeeps ==
  ASSUME CallInv, UNCHANGED allVars
  PROVE  CallInv' /\ UNCHANGED <<log, stage, Active>>
<1>1. UNCHANGED <<log, stage, active_flows>>
  BY DEF allVars, vars, builderVars, pipelineVars, callVars
<1> QED BY <1>1, StutterKeeps DEF Active

LEMMA FrameType ==
  ASSUME IntakeInv, ReadPacket
  PROVE  Frame.header \in Headers /\ Frame.ts \in Times
<1>1. phase = "reading" /\ pos < written[file]
  BY DEF ReadPacket
<1>2. file \in DOMAIN Files /\ pos + 1 \in 1 .. Size(file)
  <2>1. file \in DOMAIN Files /\ pos \in 0 .. written[file]
    BY <1>1 DEF IntakeInv, IntakeTypes, InFile
  <2>2. written[file] \in Nat /\ written[file] <= Size(file) /\ Size(file) \in Nat
    BY <2>1, FileFacts DEF IntakeInv, IntakeTypes
  <2> QED BY <1>1, <2>1, <2>2
<1> QED BY <1>2, FileFacts DEF Frame

LEMMA ReadPacketCalls ==
  ASSUME IntakeInv, ReadPacket
  PROVE  /\ CallInv'
         /\ \E id \in Nat :
              log' = Append(log, [header |-> Frame.header, ts |-> Frame.ts, flow_id |-> id])
         /\ stage' = "packet"
<1>1. ProcessPacket(Frame.header, Frame.ts)
  BY DEF ReadPacket
<1>2. Frame.header \in Headers /\ Frame.ts \in Times
  BY FrameType
<1> QED BY <1>1, <1>2, ProcessPacketKeeps DEF IntakeInv

LEMMA CheckIdleCalls ==
  ASSUME IntakeInv, CheckIdle
  PROVE  CallInv' /\ log' = log /\ stage' = "sweep"
<1>1. CheckIdleTimeouts(wall) /\ wall \in Times
  BY PcapIntakeAssumption DEF CheckIdle, IntakeInv, IntakeTypes
<1>2. stage' = "sweep"
  BY <1>1 DEF CheckIdleTimeouts, Enter
<1> QED BY <1>1, <1>2, CheckIdleTimeoutsKeeps DEF IntakeInv

LEMMA ShutdownCalls ==
  ASSUME IntakeInv, Shutdown
  PROVE  CallInv' /\ log' = log /\ Active' = {} /\ stage' = "flush"
<1>1. FlushAll /\ stage' = "flush"
  BY DEF Shutdown, FlushAll, Enter
<1> QED BY <1>1, FlushAllKeeps DEF IntakeInv

(* A call that goes on is one that the phase allows.                        *)
LEMMA CallGoesOnKeeps ==
  ASSUME IntakeInv, CallGoesOn
  PROVE  /\ CallInv' /\ log' = log /\ phase' = phase
         /\ \/ phase = "reading" /\ stage' = "timeouts"
            \/ stage' = stage /\ Active' = Active
<1>1. phase' = phase
  BY DEF CallGoesOn, intakeVars
<1>2. CASE ThenCheckTimeouts
  <2>1. stage = "packet" /\ stage' = "timeouts"
    BY <1>2 DEF ThenCheckTimeouts, Enter
  <2>2. phase = "reading"
    BY <2>1 DEF IntakeInv, PhaseInv, Calling
  <2> QED BY <1>1, <1>2, <2>1, <2>2, ThenCheckTimeoutsKeeps DEF IntakeInv
<1>3. CASE FinalizeResult
  <2>1. stage' = stage
    BY <1>3 DEF FinalizeResult
  <2>2. CallInv' /\ UNCHANGED <<active_flows, log>>
    BY <1>3, FinalizeResultKeeps DEF IntakeInv
  <2> QED BY <1>1, <2>1, <2>2 DEF Active
<1> QED BY <1>2, <1>3 DEF CallGoesOn

LEMMA CallReturnsKeeps ==
  ASSUME IntakeInv, CallReturns
  PROVE  /\ CallInv' /\ log' = log /\ stage' = "none" /\ Active' = Active
         /\ phase \in Calling
<1>1. ReturnResults
  BY DEF CallReturns
<1>2. phase \in Calling
  BY <1>1 DEF ReturnResults, IntakeInv, PhaseInv
<1> QED BY <1>1, <1>2, ReturnResultsKeeps DEF IntakeInv, Active

LEMMA CallRaisesKeeps ==
  ASSUME IntakeInv, CallRaises
  PROVE  /\ CallInv' /\ log' = log /\ stage' = "none" /\ Active' = Active
         /\ phase \in Calling
<1>1. PredictFails /\ queue # {}
  BY DEF CallRaises, PredictFails
<1>2. phase \in Calling
  BY <1>1 DEF IntakeInv, CallInv, PhaseInv
<1> QED BY <1>1, <1>2, PredictFailsKeeps DEF IntakeInv, BrokenOff, Active

(* Ctrl+C breaks off what is in progress.                                   *)
LEMMA InterruptKeeps ==
  ASSUME IntakeInv, Interrupt
  PROVE  CallInv' /\ log' = log /\ stage' = "none"
<1>1. /\ BrokenOff
      /\ UNCHANGED vars /\ log' = log /\ stage' = "none"
  BY DEF Interrupt, BrokenOff, FlowsOf, vars, builderVars
<1>2. LogInv'
  BY <1>1, LogInvPreserved DEF IntakeInv, CallInv
<1> QED BY <1>1, <1>2, BrokenOffKeeps DEF IntakeInv

LEMMA EmptyPipeline == (PipelineInit => CallInv)'
<1>1. PipelineInit => CallInv
  BY PipelineInitHolds DEF PipeInv
<1> QED BY <1>1, PTL

(* A new life of the process begins with an empty pipeline.                 *)
LEMMA RestartKeeps ==
  ASSUME Restart
  PROVE  CallInv' /\ stage' = "none" /\ log' = <<>>
<1>1. PipelineInit'
  BY DEF Restart, Forget, PipelineInit, Init
<1> QED BY <1>1, EmptyPipeline DEF Restart, Forget

------------------------------------------------------------------------------
(* The phases                                                               *)

QuietPhases ==
  {"poll", "round", "after file", "moving", "after round", "shutdown", "aborted"}

(* A step of the world or of the intake beside the pipeline.                *)
BetweenCalls ==
  /\ UNCHANGED allVars
  /\ phase' = phase \/ (Idling /\ phase' \in QuietPhases \cup {"reading"})

LEMMA BetweenCallsKeeps ==
  ASSUME IntakeInv, BetweenCalls
  PROVE  CallInv' /\ PhaseInv' /\ log' = log
<1>1. CallInv' /\ UNCHANGED <<log, stage, Active>>
  BY OutsideKeeps DEF IntakeInv, BetweenCalls
<1>2. CASE phase' = phase
  BY <1>1, <1>2 DEF IntakeInv, PhaseInv, Calling
<1>3. CASE Idling /\ phase' \in QuietPhases \cup {"reading"}
  BY <1>1, <1>3 DEF PhaseInv, Phases, Calling, QuietPhases, Idling
<1> QED BY <1>1, <1>2, <1>3 DEF BetweenCalls

LEMMA StepsBetweenCalls ==
  ASSUME Tick \/ (\E f \in DOMAIN Files : Upload(f) \/ \E size \in 1 .. Size(f) : FileArrives(f, size))
           \/ FolderSteps \/ SkipFrame \/ EndOfFile \/ NoCheckYet \/ MoveFile
           \/ MoveFails \/ UNCHANGED everything
  PROVE  BetweenCalls
<1> USE DEF BetweenCalls, QuietPhases
<1>1. CASE Tick
  BY <1>1 DEF Tick, intakeVars
<1>2. ASSUME NEW f, NEW size, FileArrives(f, size) PROVE BetweenCalls
  BY <1>2 DEF FileArrives
<1>3. ASSUME NEW f, Upload(f) PROVE BetweenCalls
  BY <1>3 DEF Upload
<1>4. CASE FolderSteps
  <2>1. CASE Poll
    BY <2>1 DEF Poll, Internal
  <2>2. ASSUME NEW f \in round, NextFile(f) PROVE BetweenCalls
    BY <2>2 DEF NextFile, Internal
  <2>3. CASE RoundDone
    BY <2>3 DEF RoundDone, Internal
  <2> QED BY <1>4, <2>1, <2>2, <2>3 DEF FolderSteps
<1>5. CASE SkipFrame
  BY <1>5 DEF SkipFrame, Internal
<1>6. CASE EndOfFile
  BY <1>6 DEF EndOfFile, Internal
<1>7. CASE NoCheckYet
  BY <1>7 DEF NoCheckYet, AfterCheck, FileDone, Internal
<1>8. CASE MoveFile
  BY <1>8 DEF MoveFile, Internal
<1>9. CASE MoveFails
  BY <1>9 DEF MoveFails, Internal
<1>10. CASE UNCHANGED everything
  BY <1>10 DEF everything, intakeVars
<1> QED BY <1>1, <1>2, <1>3, <1>4, <1>5, <1>6, <1>7, <1>8, <1>9, <1>10

LEMMA CallsAndPhases ==
  ASSUME IntakeInv, [IntakeNext]_everything
  PROVE  CallInv' /\ PhaseInv' /\ (log' = log \/ ReadPacket \/ Restart)
<1> USE DEF Phases, Calling, QuietPhases
<1>1. phase \in Phases /\ mode \in {"watch", "serve", "replay"}
  BY ModeCases DEF IntakeInv, PhaseInv
<1>2. CASE ReadPacket
  <2>1. phase' = "reading"
    BY <1>2 DEF ReadPacket
  <2> QED BY <1>2, <2>1, ReadPacketCalls DEF PhaseInv
<1>3. CASE CheckIdle
  <2>1. phase' \in {"sweep in file", "sweep in loop"}
    BY <1>3 DEF CheckIdle
  <2> QED BY <1>3, <2>1, CheckIdleCalls DEF PhaseInv
<1>4. CASE Shutdown
  <2>1. phase' = "flushing"
    BY <1>4 DEF Shutdown
  <2> QED BY <1>4, <2>1, ShutdownCalls DEF PhaseInv
<1>5. CASE CallGoesOn
  <2>1. PhaseInv
    BY DEF IntakeInv
  <2>2. CASE phase = "reading" /\ stage' = "timeouts"
    BY <1>5, <2>2, CallGoesOnKeeps DEF PhaseInv
  <2>3. CASE stage' = stage /\ Active' = Active
    BY <1>5, <2>1, <2>3, CallGoesOnKeeps DEF PhaseInv
  <2> QED BY <1>5, <2>2, <2>3, CallGoesOnKeeps
<1>6. CASE CallReturns
  <2>1. PhaseInv
    BY DEF IntakeInv
  <2>2. \/ phase' \in QuietPhases
        \/ phase' = "reading"
        \/ phase = "flushing" /\ phase' = "exited"
    <3>1. phase \in Calling
      BY <1>6, CallReturnsKeeps
    <3>2. CASE phase = "reading"
      BY <1>6, <3>2 DEF CallReturns
    <3>3. CASE phase \in {"sweep in file", "sweep in loop"}
      BY <1>6, <3>3 DEF CallReturns, AfterCheck, FileDone
    <3>4. CASE phase = "flushing"
      BY <1>6, <3>4 DEF CallReturns
    <3> QED BY <3>1, <3>2, <3>3, <3>4
  <2> QED BY <1>6, <2>1, <2>2, CallReturnsKeeps DEF PhaseInv
<1>7. CASE CallRaises
  <2>1. PhaseInv
    BY DEF IntakeInv
  <2>2. \/ phase' \in QuietPhases
        \/ phase = "flushing" /\ phase' = "exited"
    BY <1>1, <1>7 DEF CallRaises
  <2> QED BY <1>7, <2>1, <2>2, CallRaisesKeeps DEF PhaseInv
<1>8. CASE Interrupt
  <2>1. phase' \in {"aborted", "shutdown"}
    BY <1>8 DEF Interrupt
  <2> QED BY <1>8, <2>1, InterruptKeeps DEF PhaseInv
<1>9. CASE Restart
  <2>1. phase' = "poll"
    BY <1>9 DEF Restart, Forget
  <2> QED BY <1>9, <2>1, RestartKeeps DEF PhaseInv
<1>10. ASSUME BetweenCalls PROVE CallInv' /\ PhaseInv' /\ log' = log
  BY <1>10, BetweenCallsKeeps
<1> QED
  BY <1>2, <1>3, <1>4, <1>5, <1>6, <1>7, <1>8, <1>9, <1>10, StepsBetweenCalls,
     CheckIdleCalls, ShutdownCalls, CallGoesOnKeeps, CallReturnsKeeps, CallRaisesKeeps,
     InterruptKeeps
     DEF IntakeNext, IntakeSteps, FileSteps, CallSteps

------------------------------------------------------------------------------
(* The types                                                                *)

LEMMA LifeType ==
  ASSUME CallInv
  PROVE  Life \in LifeRecord
<1>1. DeliveredIds \in SUBSET Nat
  <2>1. ASSUME NEW i \in DOMAIN delivered PROVE delivered[i].flow.flow_id \in Nat
    <3>1. delivered[i] \in Result
      BY DEF CallInv
    <3> QED BY <3>1 DEF Result, FlowState
  <2> QED BY <2>1 DEF DeliveredIds
<1> QED BY <1>1 DEF Life, LifeRecord

(* A step that neither takes a file in hand nor reads on. *)
SameFile ==
  /\ UNCHANGED <<mode, wall, written, past>>
  /\ folder' \subseteq folder /\ round' \subseteq folder \cup round
  /\ folder \subseteq folder' \cup ingested'
  /\ \/ ingested' = ingested
     \/ ingested' = ingested \cup {file} /\ InFile /\ phase # "reading"
  /\ InFile' => /\ InFile /\ UNCHANGED <<file, pos>>
                /\ phase' # "reading" => phase # "reading" \/ pos = written[file]

LEMMA SameFileKeeps ==
  ASSUME IntakeTypes, SameFile
  PROVE  IntakeTypes'
BY DEF IntakeTypes, SameFile, Size

LEMMA StepsOnSameFile ==
  ASSUME IntakeInv,
         \/ Poll \/ EndOfFile \/ NoCheckYet \/ MoveFile \/ RoundDone \/ CheckIdle
         \/ MoveFails \/ CallSteps \/ Shutdown \/ Interrupt \/ UNCHANGED everything
  PROVE  SameFile
<1> USE DEF SameFile, InFile
<1>1. CASE Poll
  BY <1>1 DEF Poll, Internal, worldVars
<1>2. CASE EndOfFile
  BY <1>2 DEF EndOfFile, Internal, worldVars
<1>3. CASE NoCheckYet
  BY <1>3 DEF NoCheckYet, AfterCheck, FileDone, Internal, worldVars
<1>4. CASE MoveFile
  BY <1>4 DEF MoveFile, Internal, worldVars
<1>5. CASE RoundDone
  BY <1>5 DEF RoundDone, Internal, worldVars
<1>6. CASE CheckIdle
  BY <1>6 DEF CheckIdle, worldVars
<1>7. CASE CallGoesOn
  BY <1>7 DEF CallGoesOn, worldVars, intakeVars
<1>8. CASE CallReturns
  <2>1. phase \in Calling
    BY <1>8, CallReturnsKeeps
  <2>2. CASE phase \in {"reading", "flushing"}
    BY <1>8, <2>2 DEF CallReturns
  <2>3. CASE phase \in {"sweep in file", "sweep in loop"}
    BY <1>8, <2>3 DEF CallReturns, AfterCheck, FileDone
  <2> QED BY <2>1, <2>2, <2>3 DEF Calling
<1>9. CASE CallRaises
  <2>1. mode \in {"watch", "serve", "replay"}
    BY ModeCases DEF IntakeInv
  <2>2. phase' \notin {"reading", "after file", "sweep in file", "moving"}
    BY <1>9, <2>1 DEF CallRaises
  <2> QED BY <1>9, <2>2 DEF CallRaises, worldVars
<1>10. CASE Shutdown
  BY <1>10 DEF Shutdown, worldVars
<1>11. CASE Interrupt
  BY <1>11 DEF Interrupt, worldVars
<1>12. CASE MoveFails
  BY <1>12 DEF MoveFails, Internal, worldVars
<1>13. CASE UNCHANGED everything
  BY <1>13 DEF everything, worldVars, intakeVars
<1> QED
  BY <1>1, <1>2, <1>3, <1>4, <1>5, <1>6, <1>7, <1>8, <1>9, <1>10, <1>11, <1>12, <1>13
     DEF CallSteps

LEMMA TypesKept ==
  ASSUME IntakeInv, [IntakeNext]_everything
  PROVE  IntakeTypes'
<1> USE DEF InFile
<1>1. IntakeTypes
  BY DEF IntakeInv
<1>2. CASE Tick
  <2>1. wall' \in 0 .. MaxWall
    <3>1. /\ wall \in 0 .. MaxWall /\ MaxWall \in Nat
          /\ wall' = IF wall < MaxWall THEN wall + 1 ELSE wall
      BY <1>1, <1>2, PcapIntakeAssumption DEF Tick, IntakeTypes
    <3> QED BY <3>1
  <2> QED BY <1>1, <1>2, <2>1 DEF Tick, IntakeTypes, intakeVars, Size
<1>3. ASSUME NEW f \in DOMAIN Files, NEW size \in 1 .. Size(f), FileArrives(f, size)
      PROVE  IntakeTypes'
  <2>1. /\ written' = [written EXCEPT ![f] = size]
        /\ written[f] < size /\ folder' \subseteq folder \cup {f}
        /\ UNCHANGED <<mode, wall, past, round, phase, file, pos, ingested>>
    BY <1>3 DEF FileArrives
  <2>2. Size(f) \in Nat /\ \A g \in DOMAIN Files : Size(g)' = Size(g)
    BY FileFacts DEF Size
  <2>3. \A g \in DOMAIN Files : written'[g] = IF g = f THEN size ELSE written[g]
    BY <1>1, <2>1 DEF IntakeTypes
  <2>4. /\ written' \in [DOMAIN Files -> Nat]
        /\ \A g \in DOMAIN Files : written'[g] <= Size(g)' /\ written[g] <= written'[g]
    <3>1. /\ written \in [DOMAIN Files -> Nat]
          /\ \A g \in DOMAIN Files : written[g] <= Size(g) /\ written[g] \in Nat
      BY <1>1 DEF IntakeTypes
    <3>2. size \in Nat /\ size <= Size(f)
      BY <2>2
    <3>3. written' \in [DOMAIN Files -> Nat]
      BY <2>1, <3>1, <3>2
    <3>4. ASSUME NEW g \in DOMAIN Files
          PROVE  written'[g] <= Size(g) /\ written[g] <= written'[g]
      BY <2>1, <2>3, <3>1, <3>2
    <3> QED BY <2>2, <3>3, <3>4
  <2>5. InFile => pos \in 0 .. written'[file]
    <3>1. ASSUME InFile PROVE pos \in 0 .. written'[file]
      <4>1. /\ file \in DOMAIN Files /\ pos \in 0 .. written[file]
            /\ written[file] \in Nat /\ written'[file] \in Nat
        BY <1>1, <2>4, <3>1 DEF IntakeTypes
      <4> QED BY <2>4, <4>1
    <3> QED BY <3>1
  <2> QED BY <1>1, <2>1, <2>4, <2>5 DEF IntakeTypes
<1>4. ASSUME NEW f \in DOMAIN Files, Upload(f) PROVE IntakeTypes'
  <2>1. /\ written' = [written EXCEPT ![f] = Size(f)]
        /\ phase' = "reading" /\ file' = f /\ pos' = 0
        /\ UNCHANGED <<mode, wall, past, folder, round, ingested>>
    BY <1>4 DEF Upload
  <2>2. Size(f) \in Nat /\ \A g \in DOMAIN Files : Size(g)' = Size(g)
    BY FileFacts DEF Size
  <2>3. /\ written' \in [DOMAIN Files -> Nat]
        /\ \A g \in DOMAIN Files : written'[g] <= Size(g)
        /\ written'[f] \in Nat
    <3>1. /\ written \in [DOMAIN Files -> Nat]
          /\ \A g \in DOMAIN Files : written[g] <= Size(g) /\ written[g] \in Nat
      BY <1>1 DEF IntakeTypes
    <3> QED BY <2>1, <2>2, <3>1
  <2>4. pos' \in 0 .. written'[file']
    BY <2>1, <2>3
  <2> QED BY <1>1, <2>1, <2>2, <2>3, <2>4 DEF IntakeTypes
<1>5. ASSUME NEW f \in round, NextFile(f) PROVE IntakeTypes'
  <2>1. /\ round' = round \ {f} /\ f \in DOMAIN Files
        /\ UNCHANGED <<mode, wall, written, past, folder, ingested>>
        /\ \/ UNCHANGED <<phase, file, pos>>
           \/ phase' = "reading" /\ file' = f /\ pos' = 0
    BY <1>1, <1>5 DEF NextFile, Internal, worldVars, IntakeTypes
  <2>2. CASE UNCHANGED <<phase, file, pos>>
    BY <1>1, <2>1, <2>2 DEF IntakeTypes, Size
  <2>3. CASE phase' = "reading" /\ file' = f /\ pos' = 0
    <3>1. written[f] \in Nat
      BY <1>1, <2>1 DEF IntakeTypes
    <3>2. file' \in DOMAIN Files /\ pos' \in 0 .. written'[file']
      BY <2>1, <2>3, <3>1
    <3> QED BY <1>1, <2>1, <2>3, <3>2 DEF IntakeTypes, Size
  <2> QED BY <2>1, <2>2, <2>3
<1>6. CASE ReadPacket \/ SkipFrame
  <2>1. /\ phase = "reading" /\ pos < written[file] /\ pos' = pos + 1
        /\ UNCHANGED <<mode, wall, written, past, folder, round, phase, file, ingested>>
    BY <1>6 DEF ReadPacket, SkipFrame, Internal, worldVars
  <2> QED BY <1>1, <2>1 DEF IntakeTypes, Size
<1>7. CASE Restart
  <2>1. /\ past' = Append(past, Life) /\ phase' = "poll" /\ round' = {}
        /\ UNCHANGED <<mode, wall, written, folder, ingested>>
    BY <1>7 DEF Restart, Forget
  <2>2. past' \in Seq(LifeRecord)
    BY <1>1, <2>1, LifeType, AppendProperties DEF IntakeTypes, IntakeInv
  <2> QED BY <1>1, <2>1, <2>2 DEF IntakeTypes, Size
<1> QED
  BY <1>1, <1>2, <1>3, <1>4, <1>5, <1>6, <1>7, SameFileKeeps, StepsOnSameFile
     DEF IntakeNext, IntakeSteps, FolderSteps, FileSteps

------------------------------------------------------------------------------
(* What has been read                                                       *)

LEMMA ParsedCount ==
  ASSUME NEW f \in DOMAIN Files, NEW i \in Nat
  PROVE  /\ Cardinality(Parsed(f, i)) \in Nat
         /\ Parsed(f, 0) = {} /\ Cardinality(Parsed(f, 0)) = 0
         /\ \A j \in Parsed(f, i) :
              Cardinality(Parsed(f, j)) \in 1 .. Cardinality(Parsed(f, i))
         /\ IF Files[f].packets[i + 1].parses
              THEN /\ Parsed(f, i + 1) = Parsed(f, i) \cup {i + 1}
                   /\ Cardinality(Parsed(f, i + 1)) = Cardinality(Parsed(f, i)) + 1
              ELSE Parsed(f, i + 1) = Parsed(f, i)
<1>1. \A n \in Nat : IsFiniteSet(Parsed(f, n)) /\ Cardinality(Parsed(f, n)) \in Nat
  <2>1. ASSUME NEW n \in Nat PROVE IsFiniteSet(Parsed(f, n)) /\ Cardinality(Parsed(f, n)) \in Nat
    <3>1. IsFiniteSet(1 .. n)
      BY FS_Interval
    <3>2. Parsed(f, n) \subseteq 1 .. n
      BY DEF Parsed
    <3> QED BY <3>1, <3>2, FS_Subset, FS_CardinalityType
  <2> QED BY <2>1
<1>2. Parsed(f, 0) = {} /\ Cardinality(Parsed(f, 0)) = 0
  <2>1. Parsed(f, 0) = {}
    BY DEF Parsed
  <2> QED BY <2>1, FS_EmptySet
<1>3. ASSUME NEW j \in Parsed(f, i)
      PROVE  Cardinality(Parsed(f, j)) \in 1 .. Cardinality(Parsed(f, i))
  <2>1. j \in Nat /\ Parsed(f, j) \subseteq Parsed(f, i) /\ j \in Parsed(f, j)
    BY DEF Parsed
  <2>2. Cardinality(Parsed(f, j)) <= Cardinality(Parsed(f, i))
    BY <1>1, <2>1, FS_Subset
  <2>3. Cardinality(Parsed(f, j)) # 0
    BY <1>1, <2>1, FS_EmptySet
  <2> QED BY <1>1, <2>1, <2>2, <2>3
<1>4. 1 .. i + 1 = (1 .. i) \cup {i + 1} /\ i + 1 \notin 1 .. i
  OBVIOUS
<1>5. CASE Files[f].packets[i + 1].parses
  <2>1. Parsed(f, i + 1) = Parsed(f, i) \cup {i + 1} /\ i + 1 \notin Parsed(f, i)
    BY <1>4, <1>5 DEF Parsed
  <2> QED BY <1>1, <1>2, <1>3, <1>5, <2>1, FS_AddElement
<1>6. CASE ~Files[f].packets[i + 1].parses
  <2>1. Parsed(f, i + 1) = Parsed(f, i)
    BY <1>4, <1>6 DEF Parsed
  <2> QED BY <1>1, <1>2, <1>3, <1>6, <2>1
<1> QED BY <1>5, <1>6

(* What is in the log stays there. *)
LEMMA ReadStays ==
  ASSUME NEW s \in Seq(Logged), NEW e \in Logged,
         NEW f \in DOMAIN Files, NEW i \in Nat, NEW k \in Nat,
         k + Cardinality(Parsed(f, i)) <= Len(s), ReadAfter(k, f, i, s)
  PROVE  ReadAfter(k, f, i, Append(s, e))
<1> DEFINE t == Append(s, e)
<1>1. \A n \in 1 .. Len(s) : t[n] = s[n]
  BY AppendProperties
<1> HIDE DEF t
<1>2. ASSUME NEW j \in Parsed(f, i)
      PROVE  IsPacket(t[k + Cardinality(Parsed(f, j))], Files[f].packets[j])
  <2>1. PICK m \in Nat : m = Cardinality(Parsed(f, i))
    BY ParsedCount
  <2>2. PICK n \in 1 .. m : n = Cardinality(Parsed(f, j))
    BY <2>1, ParsedCount
  <2>3. k + n \in 1 .. Len(s)
    BY <2>1, <2>2
  <2>4. IsPacket(s[k + n], Files[f].packets[j])
    BY <2>2 DEF ReadAfter
  <2>5. t[k + n] = s[k + n]
    BY <1>1, <2>3
  <2> QED BY <2>2, <2>4, <2>5
<1> QED BY <1>2 DEF ReadAfter, t

LEMMA WholeFileStays ==
  ASSUME NEW s \in Seq(Logged), NEW e \in Logged, NEW f \in DOMAIN Files, IsRead(f, s)
  PROVE  IsRead(f, Append(s, e))
<1>1. PICK n \in Nat : n = Cardinality(Parsed(f, Size(f)))
  BY ParsedCount, FileFacts
<1>2. PICK k \in 0 .. Len(s) - n : ReadAfter(k, f, Size(f), s)
  BY <1>1 DEF IsRead
<1>3. Len(s) \in Nat /\ Len(Append(s, e)) = Len(s) + 1
  BY AppendProperties
<1>4. k \in Nat /\ k + n <= Len(s) /\ k \in 0 .. Len(Append(s, e)) - n
  BY <1>3
<1>5. ReadAfter(k, f, Size(f), Append(s, e))
  BY <1>1, <1>2, <1>4, ReadStays, FileFacts
<1> QED BY <1>1, <1>4, <1>5 DEF IsRead

(* A file is begun ... *)
LEMMA NothingRead ==
  ASSUME NEW s \in Seq(Logged), NEW f \in DOMAIN Files
  PROVE  JustRead(f, 0, s)
<1>1. Parsed(f, 0) = {} /\ Cardinality(Parsed(f, 0)) = 0
  BY ParsedCount
<1>2. Len(s) \in Nat /\ Len(s) + Cardinality(Parsed(f, 0)) = Len(s)
  BY <1>1
<1> QED BY <1>1, <1>2 DEF JustRead, ReadAfter

(* ... read packet by packet ... *)
LEMMA OneMorePacket ==
  ASSUME NEW s \in Seq(Logged), NEW e \in Logged, NEW f \in DOMAIN Files, NEW i \in Nat,
         JustRead(f, i, s),
         Files[f].packets[i + 1].parses, IsPacket(e, Files[f].packets[i + 1])
  PROVE  JustRead(f, i + 1, Append(s, e))
<1> DEFINE t == Append(s, e)
<1>1. PICK m \in Nat : m = Cardinality(Parsed(f, i))
  BY ParsedCount
<1>2. PICK k \in Nat : k + m = Len(s) /\ ReadAfter(k, f, i, s)
  BY <1>1 DEF JustRead
<1>3. /\ Parsed(f, i + 1) = Parsed(f, i) \cup {i + 1}
      /\ Cardinality(Parsed(f, i + 1)) = m + 1
  BY <1>1, ParsedCount
<1>4. Len(t) = k + (m + 1) /\ t[k + (m + 1)] = e
  BY <1>2, AppendProperties
<1>5. ReadAfter(k, f, i, t)
  BY <1>1, <1>2, ReadStays
<1> HIDE DEF t
<1>6. ReadAfter(k, f, i + 1, t)
  BY <1>3, <1>4, <1>5 DEF ReadAfter
<1> QED BY <1>3, <1>4, <1>6 DEF JustRead, t

LEMMA OneMoreSkipped ==
  ASSUME NEW s, NEW f \in DOMAIN Files, NEW i \in Nat,
         JustRead(f, i, s), ~Files[f].packets[i + 1].parses
  PROVE  JustRead(f, i + 1, s)
<1>1. Parsed(f, i + 1) = Parsed(f, i)
  BY ParsedCount
<1> QED BY <1>1 DEF JustRead, ReadAfter

(* ... to its end. *)
LEMMA ReadToItsEnd ==
  ASSUME NEW s \in Seq(Logged), NEW f \in DOMAIN Files, JustRead(f, Size(f), s)
  PROVE  IsRead(f, s)
<1>1. PICK n \in Nat : n = Cardinality(Parsed(f, Size(f)))
  BY ParsedCount, FileFacts
<1>2. PICK k \in Nat : k + n = Len(s) /\ ReadAfter(k, f, Size(f), s)
  BY <1>1 DEF JustRead
<1>3. k \in 0 .. Len(s) - n
  BY <1>2
<1> QED BY <1>1, <1>2, <1>3 DEF IsRead

------------------------------------------------------------------------------
(* Every step keeps what was read                                           *)

(* A file that is done stays done, whatever is logged and restarted.        *)
LEMMA DoneStays ==
  ASSUME IntakeInv, [IntakeNext]_everything, NEW f \in DOMAIN Files, IsDone(f)
  PROVE  IsDone(f)'
<1>1. log \in Seq(Logged) /\ past \in Seq(LifeRecord)
  BY DEF IntakeInv, CallInv, LogInv, IInv, IntakeTypes
<1>2. CASE Restart
  <2>1. past' = Append(past, Life) /\ Life \in LifeRecord
    BY <1>2, LifeType DEF Restart, IntakeInv
  <2>2. /\ Len(past) \in Nat /\ DOMAIN past = 1 .. Len(past)
        /\ DOMAIN past' = 1 .. Len(past) + 1
        /\ past'[Len(past) + 1] = Life
        /\ \A i \in 1 .. Len(past) : past'[i] = past[i]
    BY <1>1, <2>1, AppendProperties
  <2>3. CASE IsRead(f, log)
    <3>1. f \in past'[Len(past) + 1].read
      BY <2>2, <2>3 DEF Life
    <3> QED BY <2>2, <3>1 DEF IsDone
  <2>4. ASSUME NEW i \in DOMAIN past, f \in past[i].read PROVE IsDone(f)'
    <3>1. i \in DOMAIN past' /\ f \in past'[i].read
      BY <2>2, <2>4
    <3> QED BY <3>1 DEF IsDone
  <2> QED BY <2>3, <2>4 DEF IsDone
<1>3. CASE ~Restart
  <2>1. past' = past
    BY <1>3, StepsOnSameFile
       DEF SameFile, IntakeNext, IntakeSteps, FolderSteps, FileSteps, Tick, FileArrives,
           Upload, NextFile, ReadPacket, SkipFrame, Internal, worldVars
  <2>2. IsRead(f, log) => IsRead(f, log')
    <3>1. CASE log' = log
      BY <3>1
    <3>2. CASE ReadPacket
      <4>1. \E e \in Logged : log' = Append(log, e)
        <5>1. PICK id \in Nat :
                log' = Append(log, [header |-> Frame.header, ts |-> Frame.ts, flow_id |-> id])
          BY <3>2, ReadPacketCalls
        <5>2. Frame.header \in Headers /\ Frame.ts \in Times
          BY <3>2, FrameType
        <5> QED BY <5>1, <5>2 DEF Logged
      <4> QED BY <1>1, <4>1, WholeFileStays
    <3> QED BY <1>3, <3>1, <3>2, CallsAndPhases
  <2> QED BY <2>1, <2>2 DEF IsDone
<1> QED BY <1>2, <1>3

LEMMA SameFileKeepsFiles ==
  ASSUME IntakeInv, FolderInv, InHand, [IntakeNext]_everything, SameFile, log' = log
  PROVE  FolderInv' /\ InHand'
<1>1. InHand'
  BY DEF InHand, SameFile
<1>2. \A f \in DOMAIN Files : IsDone(f) => IsDone(f)'
  BY DoneStays
<1>3. ASSUME InFile, phase # "reading" PROVE written[file] = Size(file) /\ IsDone(file)
  <2>1. /\ file \in DOMAIN Files /\ log \in Seq(Logged)
        /\ written[file] = Size(file) /\ JustRead(file, Size(file), log)
    BY <1>3 DEF InHand, IntakeInv, IntakeTypes, CallInv, LogInv, IInv
  <2> QED BY <2>1, ReadToItsEnd DEF IsDone
<1>4. \A f \in ingested' : written[f] = Size(f) /\ IsDone(f)
  BY <1>3 DEF SameFile, FolderInv
<1>5. ingested' \subseteq DOMAIN Files /\ ingested \subseteq ingested'
  BY DEF SameFile, IntakeInv, IntakeTypes
<1>6. \A f \in ingested' : written'[f] = Size(f) /\ IsDone(f)'
  BY <1>2, <1>4, <1>5 DEF SameFile
<1>7. /\ \A f \in DOMAIN Files : written'[f] \in {0, Size(f)}
      /\ \A f \in folder' \cup round' : written'[f] = Size(f)
  BY DEF FolderInv, SameFile
<1>8. mode' = "watch" =>
        \A f \in DOMAIN Files : written'[f] > 0 => f \in folder' \cup ingested'
  BY <1>5 DEF FolderInv, SameFile
<1> QED BY <1>1, <1>6, <1>7, <1>8 DEF FolderInv, Size

LEMMA FilesKept ==
  ASSUME ~Copying, IntakeInv, FolderInv, InHand, [IntakeNext]_everything
  PROVE  FolderInv' /\ InHand'
<1>1. /\ written \in [DOMAIN Files -> Nat] /\ log \in Seq(Logged)
      /\ folder \subseteq DOMAIN Files /\ round \subseteq DOMAIN Files
      /\ ingested \subseteq DOMAIN Files
      /\ InFile => file \in DOMAIN Files /\ pos \in 0 .. written[file]
  BY DEF IntakeInv, IntakeTypes, CallInv, LogInv, IInv
<1>2. \A f \in DOMAIN Files : IsDone(f) => IsDone(f)'
  BY DoneStays
<1>3. CASE SameFile /\ log' = log
  BY <1>3, SameFileKeepsFiles
<1>4. CASE Tick
  <2>1. /\ UNCHANGED <<mode, written, folder, round, ingested, phase, file, pos>>
        /\ log' = log
    BY <1>4 DEF Tick, intakeVars, allVars, vars
  <2>2. InHand'
    BY <2>1 DEF InHand, InFile
  <2> QED BY <1>1, <1>2, <2>1, <2>2 DEF FolderInv, Size
<1>5. ASSUME NEW f \in DOMAIN Files, NEW size \in 1 .. Size(f), FileArrives(f, size)
      PROVE  FolderInv' /\ InHand'
  <2>1. /\ size = Size(f) /\ written[f] < size /\ mode' = mode
        /\ written' = [written EXCEPT ![f] = size]
        /\ folder' = (IF written[f] = 0 THEN folder \cup {f} ELSE folder)
        /\ UNCHANGED <<round, ingested, phase, file, pos>> /\ log' = log
    BY <1>5 DEF FileArrives, allVars, vars
  <2>2. written[f] = 0 /\ written[f] # Size(f)
    BY <1>1, <2>1 DEF FolderInv
  <2>3. /\ written'[f] = Size(f)
        /\ \A g \in DOMAIN Files \ {f} : written'[g] = written[g]
    BY <1>1, <2>1
  <2>4. f \notin ingested /\ f \notin folder \cup round /\ (InFile => file # f)
    BY <2>2 DEF FolderInv, InHand
  <2>5. InHand'
    BY <1>1, <2>1, <2>3, <2>4 DEF InHand, InFile
  <2>6. /\ \A g \in DOMAIN Files : written'[g] \in {0, Size(g)}
        /\ \A g \in folder' \cup round' : written'[g] = Size(g)
        /\ \A g \in ingested' : written'[g] = Size(g) /\ IsDone(g)'
        /\ mode' = "watch" =>
             \A g \in DOMAIN Files : written'[g] > 0 => g \in folder' \cup ingested'
    BY <1>1, <1>2, <2>1, <2>2, <2>3, <2>4 DEF FolderInv
  <2> QED BY <2>5, <2>6 DEF FolderInv, Size
<1>6. ASSUME NEW f \in DOMAIN Files, Upload(f) PROVE FolderInv' /\ InHand'
  <2>1. /\ mode = "serve" /\ mode' = mode
        /\ written' = [written EXCEPT ![f] = Size(f)]
        /\ phase' = "reading" /\ file' = f /\ pos' = 0
        /\ UNCHANGED <<folder, round, ingested>> /\ log' = log
    BY <1>6 DEF Upload, allVars, vars
  <2>2. /\ written'[f] = Size(f)
        /\ \A g \in DOMAIN Files \ {f} : written'[g] = written[g]
    BY <1>1, <2>1
  <2>3. InHand'
    BY <1>1, <2>1, <2>2, NothingRead DEF InHand
  <2>4. /\ \A g \in DOMAIN Files : written'[g] \in {0, Size(g)}
        /\ \A g \in folder' \cup round' : written'[g] = Size(g)
        /\ \A g \in ingested' : written'[g] = Size(g) /\ IsDone(g)'
    BY <1>1, <1>2, <2>1, <2>2 DEF FolderInv
  <2> QED BY <2>1, <2>3, <2>4 DEF FolderInv, Size
<1>7. ASSUME NEW f \in round, NextFile(f) PROVE FolderInv' /\ InHand'
  <2>1. /\ round' = round \ {f} /\ f \in DOMAIN Files /\ log' = log
        /\ UNCHANGED <<mode, written, folder, ingested>>
        /\ \/ UNCHANGED <<phase, file, pos>>
           \/ phase' = "reading" /\ file' = f /\ pos' = 0
    BY <1>1, <1>7 DEF NextFile, Internal, worldVars, allVars, vars
  <2>2. InHand'
    BY <1>1, <2>1, NothingRead DEF InHand, InFile, FolderInv
  <2>3. /\ \A g \in DOMAIN Files : written'[g] \in {0, Size(g)}
        /\ \A g \in folder' \cup round' : written'[g] = Size(g)
        /\ \A g \in ingested' : written'[g] = Size(g) /\ IsDone(g)'
        /\ mode' = "watch" =>
             \A g \in DOMAIN Files : written'[g] > 0 => g \in folder' \cup ingested'
    BY <1>1, <1>2, <2>1 DEF FolderInv
  <2> QED BY <2>2, <2>3 DEF FolderInv, Size
<1>8. CASE ReadPacket \/ SkipFrame
  <2>1. /\ phase = "reading" /\ pos' = pos + 1
        /\ UNCHANGED <<mode, written, folder, round, ingested, phase, file>>
    BY <1>8 DEF ReadPacket, SkipFrame, Internal, worldVars
  <2>2. /\ file \in DOMAIN Files /\ pos \in Nat /\ written[file] = Size(file)
        /\ JustRead(file, pos, log) /\ Frame = Files[file].packets[pos + 1]
    BY <1>1, <2>1 DEF InHand, InFile, Frame
  <2>3. JustRead(file, pos + 1, log')
    <3>1. CASE ReadPacket
      <4>1. PICK id \in Nat :
              log' = Append(log, [header |-> Frame.header, ts |-> Frame.ts, flow_id |-> id])
        BY <3>1, ReadPacketCalls
      <4>2. Frame.header \in Headers /\ Frame.ts \in Times /\ Frame.parses
        BY <3>1, FrameType DEF ReadPacket
      <4> DEFINE e == [header |-> Frame.header, ts |-> Frame.ts, flow_id |-> id]
      <4>3. e \in Logged /\ IsPacket(e, Frame)
        BY <4>2 DEF Logged, IsPacket
      <4> QED BY <1>1, <2>2, <4>1, <4>2, <4>3, OneMorePacket
    <3>2. CASE SkipFrame
      <4>1. ~Frame.parses /\ log' = log
        BY <3>2 DEF SkipFrame, Internal, allVars, vars
      <4> QED BY <2>2, <4>1, OneMoreSkipped
    <3> QED BY <1>8, <3>1, <3>2
  <2>4. InHand'
    BY <2>1, <2>2, <2>3 DEF InHand, InFile
  <2>5. /\ \A g \in DOMAIN Files : written'[g] \in {0, Size(g)}
        /\ \A g \in folder' \cup round' : written'[g] = Size(g)
        /\ \A g \in ingested' : written'[g] = Size(g) /\ IsDone(g)'
        /\ mode' = "watch" =>
             \A g \in DOMAIN Files : written'[g] > 0 => g \in folder' \cup ingested'
    BY <1>1, <1>2, <2>1 DEF FolderInv
  <2> QED BY <2>4, <2>5 DEF FolderInv, Size
<1>9. CASE Restart
  <2>1. /\ phase' = "poll" /\ round' = {}
        /\ UNCHANGED <<mode, written, folder, ingested>>
    BY <1>9 DEF Restart, Forget
  <2>2. InHand'
    BY <2>1 DEF InHand, InFile
  <2>3. /\ \A g \in DOMAIN Files : written'[g] \in {0, Size(g)}
        /\ \A g \in folder' \cup round' : written'[g] = Size(g)
        /\ \A g \in ingested' : written'[g] = Size(g) /\ IsDone(g)'
        /\ mode' = "watch" =>
             \A g \in DOMAIN Files : written'[g] > 0 => g \in folder' \cup ingested'
    BY <1>1, <1>2, <2>1 DEF FolderInv
  <2> QED BY <2>2, <2>3 DEF FolderInv, Size
<1>10. ASSUME \/ Poll \/ EndOfFile \/ NoCheckYet \/ MoveFile \/ RoundDone \/ CheckIdle
              \/ MoveFails \/ CallSteps \/ Shutdown \/ Interrupt \/ UNCHANGED everything
       PROVE  FolderInv' /\ InHand'
  <2>1. SameFile
    BY <1>10, StepsOnSameFile
  <2>2. CASE ReadPacket \/ Restart
    BY <1>8, <1>9, <2>2
  <2> QED BY <1>3, <2>1, <2>2, CallsAndPhases
<1> QED
  BY <1>4, <1>5, <1>6, <1>7, <1>8, <1>9, <1>10
     DEF IntakeNext, IntakeSteps, FolderSteps, FileSteps

------------------------------------------------------------------------------
(* The theorems                                                             *)

LEMMA IntakeInitHolds ==
  ASSUME IntakeInit
  PROVE  IntakeInv /\ FolderInv /\ InHand
<1>1. CallInv
  BY PipelineInitHolds DEF IntakeInit, PipeInv
<1>2. /\ mode \in Modes /\ wall = 0 /\ past = <<>> /\ pos = 0
      /\ folder = {} /\ round = {} /\ ingested = {} /\ stage = "none" /\ log = <<>>
      /\ MaxWall \in Nat
  BY PcapIntakeAssumption DEF IntakeInit, PipelineInit, Init
<1>3. \A f \in DOMAIN Files : Size(f) \in Nat
  BY FileFacts
<1>4. CASE mode = "replay"
  <2>1. /\ file \in DOMAIN Files /\ phase = "reading"
        /\ written = [f \in DOMAIN Files |-> IF f = file THEN Size(f) ELSE 0]
    BY <1>4 DEF IntakeInit
  <2>2. /\ written \in [DOMAIN Files -> Nat]
        /\ \A f \in DOMAIN Files : written[f] <= Size(f) /\ written[f] \in {0, Size(f)}
        /\ written[file] = Size(file) /\ pos \in 0 .. written[file]
    BY <1>2, <1>3, <2>1
  <2>3. JustRead(file, pos, log)
    <3>1. log \in Seq(Logged)
      BY <1>1 DEF CallInv, LogInv, IInv
    <3>2. JustRead(file, 0, log)
      BY <2>1, <3>1, NothingRead
    <3> QED BY <1>2, <3>2
  <2> QED
    BY <1>1, <1>2, <1>4, <2>1, <2>2, <2>3
       DEF IntakeInv, PhaseInv, Phases, Calling, IntakeTypes, FolderInv, InHand
<1>5. CASE mode # "replay"
  <2>1. phase = "poll" /\ written = [f \in DOMAIN Files |-> 0]
    BY <1>5 DEF IntakeInit
  <2>2. /\ written \in [DOMAIN Files -> Nat]
        /\ \A f \in DOMAIN Files : written[f] <= Size(f) /\ written[f] = 0
    BY <1>3, <2>1
  <2> QED
    BY <1>1, <1>2, <2>1, <2>2
       DEF IntakeInv, PhaseInv, Phases, Calling, IntakeTypes, InFile, FolderInv, InHand
<1> QED BY <1>4, <1>5

(* Types, and which call can be in progress in which phase, for every life. *)
LEMMA IntakeInvariance == IntakeSpec => []IntakeInv
<1>1. IntakeInit => IntakeInv
  BY IntakeInitHolds
<1>2. IntakeInv /\ [IntakeNext]_everything => IntakeInv'
  BY CallsAndPhases, TypesKept DEF IntakeInv
<1> QED BY <1>1, <1>2, PTL DEF IntakeSpec

(* When the process ends by itself or after Ctrl+C, every flow it ever      *)
(* opened was written, or was in a call that raised or was interrupted      *)
(* (pcap_intake.py:36-37, 139-147).                                         *)
THEOREM NothingLeftAtExit == IntakeSpec => []ExitComplete
<1>1. ASSUME IntakeInv, phase = "exited"
      PROVE  1 .. flow_counter = DeliveredIds \cup Ids(lost)
  <2>1. Active = {} /\ stage = "none"
    BY <1>1 DEF IntakeInv, PhaseInv, Calling
  <2>2. queue = {} /\ results = <<>>
    BY <1>1, <2>1 DEF IntakeInv, CallInv
  <2>3. Ids(Active) \cup Ids(closed) = 1 .. flow_counter
    BY <1>1, IInvImplies DEF IntakeInv, CallInv, LogInv, EveryFlowOnce
  <2>4. Ids({}) = {} /\ { results[i].flow.flow_id : i \in DOMAIN results } = {}
    BY <2>2 DEF Ids
  <2> QED BY <1>1, <2>1, <2>2, <2>3, <2>4, CallInvAccounts DEF IntakeInv
<1>2. IntakeInv => ExitComplete
  BY <1>1 DEF ExitComplete
<1> QED BY <1>2, IntakeInvariance, PTL

(* If no file is seen half written, every file that was reported as         *)
(* processed or has left the folder was read whole and in order by one life *)
(* of the process, however often it failed or was killed                    *)
(* (pcap_intake.py:120-137, 155-173).                                       *)
THEOREM ProcessedFilesAreRead ==
  ASSUME ~Copying
  PROVE  IntakeSpec => []ProcessedMeansRead
<1>1. IntakeInit => IntakeInv /\ FolderInv /\ InHand
  BY IntakeInitHolds
<1>2. /\ IntakeInv /\ FolderInv /\ InHand
      /\ [IntakeNext]_everything
      => (IntakeInv /\ FolderInv /\ InHand)'
  BY CallsAndPhases, TypesKept, FilesKept DEF IntakeInv
<1>3. IntakeInv /\ FolderInv /\ InHand => ProcessedMeansRead
  BY DEF FolderInv, IsDone, ProcessedMeansRead
<1> QED BY <1>1, <1>2, <1>3, PTL DEF IntakeSpec

(* In every life of the intake, in any mode and however its calls are       *)
(* broken off, the table keeps its bound and its account, and no flow is    *)
(* scored twice.                                                            *)
THEOREM PipelineInsideIntake ==
  IntakeSpec => [](/\ CapacityBound /\ CountersAccount /\ EveryFlowOnce
                   /\ NeverSplit /\ CloseIsLast
                   /\ ScoredOnce /\ PredictionsReconcile)
<1>1. IntakeInv => /\ CapacityBound /\ CountersAccount /\ EveryFlowOnce
                   /\ NeverSplit /\ CloseIsLast
                   /\ ScoredOnce /\ PredictionsReconcile
  BY IInvImplies, LogInvImplies, CallInvScoresOnce DEF IntakeInv, CallInv, LogInv
<1> QED BY <1>1, IntakeInvariance, PTL
==============================================================================
