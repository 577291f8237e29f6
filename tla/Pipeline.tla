------------------------------ MODULE Pipeline -------------------------------
(****************************************************************************)
(* DetectionPipeline of ingest/pipeline.py: a flow table, and the features  *)
(* and the prediction of every flow the table finalizes.                    *)
(*                                                                          *)
(* One call runs at a time.  It takes flows out of the table first and      *)
(* scores them one by one afterwards; a prediction may raise, and the       *)
(* exception then leaves the call with the flows that were still waiting    *)
(* and the results it had already collected.                                *)
(****************************************************************************)
EXTENDS FlowBuilder

CONSTANTS
  Reorder,      \* how far behind the latest timestamp a packet's may be
  PredictRaises \* whether the prediction function can raise

ASSUME PipelineAssumption == Reorder \in Nat /\ PredictRaises \in BOOLEAN

VARIABLES
  stage,             \* the call in progress, or "none"
  now,               \* the timestamp of the packet being processed
  queue,             \* finalized flows the call has still to score
  results,           \* results the call has collected
  total_predictions,
  delivered,         \* history: every result a call has returned
  lost               \* history: flows whose call ended in an exception

callVars == <<stage, now, queue, results>>
pipelineVars == <<callVars, total_predictions, delivered, lost>>
allVars == <<vars, pipelineVars>>

PipelineInit ==
  /\ Init
  /\ stage = "none" /\ now = 0 /\ queue = {} /\ results = <<>>
  /\ total_predictions = 0
  /\ delivered = <<>>
  /\ lost = {}

(* A timestamp the next packet may carry. *)
InReach(ts) == \A i \in DOMAIN log : ts >= log[i].ts - Reorder

Enter(newStage) ==
  /\ stage' = newStage
  /\ queue' = returned'
  /\ UNCHANGED <<total_predictions, delivered, lost>>

Idling == stage = "none"

(* process_packet, its first half: add_packet. *)
ProcessPacket(h, ts) ==
  /\ Idling
  /\ AddPacket(h, ts)
  /\ Enter("packet")
  /\ now' = ts
  /\ results' = <<>>

(* Mutant: the results of the first half are overwritten. *)
ThenCheckTimeoutsAfresh ==
  /\ stage = "packet" /\ queue = {}
  /\ CheckTimeouts(now)
  /\ Enter("timeouts")
  /\ results' = <<>>
  /\ UNCHANGED now

(* process_packet, its second half: check_timeouts, after the flows that    *)
(* add_packet returned have been scored.                                    *)
ThenCheckTimeouts ==
  /\ stage = "packet" /\ queue = {}
  /\ CheckTimeouts(now)
  /\ Enter("timeouts")
  /\ UNCHANGED <<now, results>>

CheckIdleTimeouts(time) ==
  /\ Idling
  /\ CheckTimeouts(time)
  /\ Enter("sweep")
  /\ results' = <<>>
  /\ UNCHANGED now

FlushAll ==
  /\ Idling
  /\ Flush
  /\ Enter("flush")
  /\ results' = <<>>
  /\ UNCHANGED now

First(flows) == CHOOSE f \in flows : \A g \in flows : f.flow_id <= g.flow_id

(* FeatureExtractor.extract asks for the source's history as of the flow's  *)
(* last packet, and prunes it at that time.                                 *)
Features(flow) == Stats(source_history, flow.initiator[1], flow.last_seen)
Extract(flow) == SourceStats(flow.initiator[1], flow.last_seen)

(* _finalize_result of the next flow: features, prediction, result. *)
FinalizeResult ==
  /\ queue # {}
  /\ LET flow == First(queue)
     IN  /\ Extract(flow)
         /\ queue' = queue \ {flow}
         /\ results' = Append(results, [flow |-> flow, features |-> Features(flow)])
  /\ total_predictions' = total_predictions + 1
  /\ UNCHANGED <<stage, now, delivered, lost>>

(* predict raises: the exception leaves the call. *)
PredictFails ==
  /\ PredictRaises
  /\ queue # {}
  /\ Extract(First(queue))
  /\ lost' = lost \cup queue \cup { results[i].flow : i \in DOMAIN results }
  /\ queue' = {}
  /\ results' = <<>>
  /\ stage' = "none"
  /\ UNCHANGED <<now, total_predictions, delivered>>

(* The call returns its results to the caller. *)
ReturnResults ==
  /\ stage \in {"timeouts", "sweep", "flush"} /\ queue = {}
  /\ delivered' = delivered \o results
  /\ stage' = "none"
  /\ results' = <<>>
  /\ UNCHANGED <<vars, now, queue, total_predictions, lost>>

Step == ThenCheckTimeouts \/ FinalizeResult \/ PredictFails \/ ReturnResults

PipelineNext ==
  \/ \E h \in Headers, ts \in { t \in Times : InReach(t) } : ProcessPacket(h, ts)
  \/ \E time \in Times : CheckIdleTimeouts(time)
  \/ FlushAll
  \/ Step

PipelineSpec == PipelineInit /\ [][PipelineNext]_allVars

------------------------------------------------------------------------------

DeliveredIds == { delivered[i].flow.flow_id : i \in DOMAIN delivered }

(* "A flow is scored once" (ingest/README.md:140): no flow is in two of the *)
(* results that callers have got or are about to get, and a flow that was   *)
(* lost to an exception never turns up again.                               *)
ScoredOnce ==
  LET all == delivered \o results
  IN  /\ \A i, j \in DOMAIN all :
           all[i].flow.flow_id = all[j].flow.flow_id => i = j
      /\ \A i \in DOMAIN all : all[i].flow \notin lost \cup queue

(* No flow disappears between the table and the caller: whatever was taken  *)
(* out of the table is waiting to be scored, in a result, or was lost by a  *)
(* call that raised; without exceptions nothing is lost.                    *)
NothingLost ==
  /\ Ids(closed) = DeliveredIds \cup Ids(queue) \cup Ids(lost)
                     \cup { results[i].flow.flow_id : i \in DOMAIN results }
  /\ ~PredictRaises => lost = {}

(* The figures of stats() agree across the two objects they come from: the  *)
(* predictions of the pipeline are the flows that the builder says it has   *)
(* finalized or evicted, less those still waiting; only an exception makes  *)
(* them fall behind, and nothing makes them run ahead.                      *)
PredictionsReconcile ==
  LET taken == total_flows_finalized + capacity_evictions
  IN  /\ total_predictions + Cardinality(queue) <= taken
      /\ lost = {} => total_predictions + Cardinality(queue) = taken

Latest == IF log = <<>> THEN 0 ELSE log[Len(log)].ts

InOrder == \A i, j \in DOMAIN log : i < j => log[i].ts <= log[j].ts

(* Between calls no flow that is still active has been idle for its timeout *)
(* by the clock of the latest packet: each packet expires every other flow  *)
(* whose time has come -- unless a prediction raised, which ends a call     *)
(* before it has checked.                                                   *)
NoIdleFlowLeft ==
  (stage = "none" /\ lost = {}) => \A flow \in Active : ~Idle(flow, Latest)

(* The reference for the counts of a source: its flows opened in the window *)
(* that ends at the given time, the newest max_entries of them.             *)
OpenedBy(src, from, to) ==
  { f \in Active \cup closed :
      f.initiator[1] = src /\ from <= f.start_time /\ f.start_time <= to }

AtMost(n, bound) == IF n < bound THEN n ELSE bound

(* With timestamps in order, a connection that closes is scored with the    *)
(* exact number of flows its source opened in the window before the close,  *)
(* up to the bound on entries.                                              *)
CloseScoredExactly ==
  [][\A i \in DOMAIN results' \ DOMAIN results :
       LET flow == results'[i].flow
           n == Cardinality(OpenedBy(flow.initiator[1],
                                     flow.last_seen - window_sec, flow.last_seen))
       IN  (flow.finalize_reason = "tcp_close" /\ InOrder) =>
             results'[i].features.flow_count = AtMost(n, max_entries)]_allVars

(* feature_extractor.py:16-19 and ingest/README.md:152-154, "No future      *)
(* information": a flow is scored from what its source had done until the   *)
(* flow's last packet, so it counts no flow that was opened later.          *)
NoFutureInformation ==
  \A i \in DOMAIN results :
    LET flow == results[i].flow
    IN  results[i].features.flow_count <=
          Cardinality(OpenedBy(flow.initiator[1], 0, flow.last_seen))

(* flow_builder.py:16-18: a flow is finalized after timeout_for(protocol)   *)
(* seconds of inactivity, checked on every packet with its timestamp: two   *)
(* packets that far apart are never in one flow.                            *)
SilenceEndsFlow ==
  \A i, j \in DOMAIN log :
    (/\ i < j
     /\ log[i].flow_id = log[j].flow_id
     /\ \A m \in i + 1 .. j - 1 : log[m].flow_id # log[i].flow_id)
    => log[j].ts - log[i].ts < TimeoutFor(log[i].header.protocol)
==============================================================================
