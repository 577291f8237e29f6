# A TLA+ model of the risk-adaptive threat detection pipeline

This directory models the code that turns packets into scored flows: the flow
table and its histories, the pipeline around it, the programs that feed it
(live capture, PCAP intake, replay scripts), the prediction interface behind it,
the jobs that train its models, and the way of a flow's fields from the frame
to the alert. TLC checks the models on small instances; TLAPS proves the safety
properties of the source history, the flow table, the pipeline, the live
capture, the intake, the prediction interface and its host history, the replay,
the threshold and the model files for every value of the constants. What it
leaves to TLC is liveness and the evidence on an alert (end of section 5).

Paths below are relative to the repository's root.

## 1. The system

```
 sniff / pcap / upload            ingest/                       ml_dl/
 +------------------+   Packet   +--------------------------+  dict   +-----------+
 | capture_live.py  | ---------> | DetectionPipeline        | ------> | predict() |
 |  main, sweeper,  |            |   FlowBuilder            |         |  globals  |
 |  SIGINT handler  | <--------- |     _SourceHistory       | <------ |  _Host-   |
 | pcap_intake.py   |   results  |   FeatureExtractor       | verdict |  History  |
 +------------------+            +--------------------------+         +-----------+
                                                     |                  ^ artifacts
                                          ml_dl/alerts.py   ml_dl/train_all.py and stages
```

| Component | State | Operations | What makes it correct |
|---|---|---|---|
| `_SourceHistory` (`ingest/flow_builder.py`) | a deque of recent new flows per source | `record_new_flow`, `stats` (prunes) | bounded; answers as a scan of everything would, as long as time does not go back; a gapless suffix otherwise |
| `FlowBuilder` (`ingest/flow_builder.py`) | the flow table, id counter, three counters | `add_packet`, `check_timeouts`, `flush`, `source_stats` | bounded; every flow in the table or returned, once; counters add up; both directions in one flow; summaries exact; least recent evicted |
| `DetectionPipeline` (`ingest/pipeline.py`) | a builder, a prediction counter | `process_packet`, `check_idle_timeouts`, `flush`, `close`, `stats` | each flow scored once, none lost; idle flows closed; features of a flow's past only |
| packet parser (`ingest/packet_parser.py`) | none | `parse_packet`, `_extract_tls_sni` | never raises; the server name of a well-formed hello, no other; handshakes noticed |
| `FeatureExtractor` (`ingest/feature_extractor.py`) | none of its own | `extract` (queries, and so prunes, the source history) | |
| `capture_live.py`, `demo.py` live | three threads of control on one pipeline, no lock; one in the demo | packet callback, sweeper, SIGINT handler | bound kept under interleaving; idle flows leave; nothing dropped or scored twice |
| `pcap_intake.py`, `replay_pcap.py`, `demo.py` on a file | names seen, last idle check, output file; a folder that outlives the process | `process_file`, the polling loop, the HTTP handler, `shutdown`, a restart | files read whole, in order; idle flows close; nothing left at exit |
| `replay_stream.py` | schedule, counters, output file with its buffer | `replay` | flows paced, late ones counted, every alert written |
| `predict()` (`ml_dl/predict_interface.py`) | six lazily loaded globals, the host history | `predict`, `_lazy_load`, `reset_history` | a retry after a repair succeeds; calibrated when trained so |
| `_HostHistory` (`ml_dl/host_history.py`) | an ordered dict of bounded deques | `append`, `window`, `clear` | with one caller the most recent hosts kept, sequences as in training; with several the overshoot of the bound limited, and no host's sequence with another's rows |
| training (`ml_dl/train_all.py` and stages) | seven files in `models/` | `train_all`, or `train_xgboost`, `calibration`, `tune_threshold` alone | files that are used together were made from each other, also after failed and cut-off jobs |
| threshold and routing (`ml_dl/tune_threshold.py`, `ml_dl/routing.py`) | the threshold, its report | `tune`, `route` | service routes as the report says; the cap on the heavy branch is kept; no better candidate |
| evidence and alerts (`ml_dl/explainability.py`, `ml_dl/alerts.py`) | none | `top_features`, `build_alert` | an alert shows what the frames of the flow say |

Components interact by plain calls. The only callbacks are the packet callback
of `sniff` and the signal handler; the only shared state under concurrency is
the pipeline of `capture_live.py` (two threads and a handler) and the module
globals of `predict()` (as many threads as call it).

Hard here are: unlocked interleavings in live capture and in `predict()`;
exceptions of a prediction in the middle of a list of flows that have already
left the table; a process killed between reading a file and moving it away; the
order in which a packet is applied, timeouts are checked and flows are scored; timestamps that go back; two clocks (capture time and
wall clock) in one comparison; files read while they are written; bounds
reached under eviction; model files emptied by a save that was cut off, or
replaced while a server loads them; frames cut anywhere. `PROJECT.json` lists
each at its line under "hazards".

## 2. Modules

| Module | Models | Notes |
|---|---|---|
| `SourceHistory` | `_SourceHistory` as operators on the dict `_entries` | used by `FlowBuilder` and `SourceHistorySpec` |
| `SourceHistorySpec` | one `_SourceHistory` under any calls | history variables `recorded`, `clock`, `ordered` (time never went back) |
| `FlowBuilder` | `FlowBuilder`, one action per call | a set stands for the returned list: dict order is id order |
| `FlowLedger` | abstract: flows are opened, and returned when they leave | refined by `FlowBuilder` (`LedgerSpec`) |
| `Pipeline` | `DetectionPipeline` over `FlowBuilder` | a call is a first step, one step per flow scored, and a return or an exception |
| `LiveCapture` | `capture_live.py`, the live mode of `demo.py`, and the parts of builder and pipeline its threads share | one step per dict operation; `Programs` says which of the two runs |
| `PcapIntake` | `pcap_intake.py` over `Pipeline`, with `read_pcap`; in mode "replay" `replay_pcap.py` and `run_pcap` of `demo.py` | files, clocks and kills are the environment |
| `PacketParser` | `parse_packet` and the walk of `_extract_tls_sni`, as operators | a ClientHello is the lengths of its sections |
| `FlowEvidence` | one flow from its frames to its alert: `WithMetadata` of the builder, `extract`, `add_engineered_features`, `top_features`, `build_alert` | extends `PacketParser`; models' answers are open |
| `HostHistory` | the operations of the ordered dict and the deques of `_HostHistory`, the padding of `_sequence_for`, and `build_sequences`, as operators | an item refers to its deque by number, so that a caller can hold one that was replaced |
| `Predict` | `predict()` under several threads | one step per load and per access to a global; `append` and `window` are a step per operation on the dict or a deque |
| `Training` | the jobs that write `models/`, and from what each file was made | a save empties its file, then fills it; a job may end between any two steps |
| `Serving` | the loads of `predict()` in one thread, beside the jobs of `Training` | extends `Training` |
| `ThresholdTuning` | `tune`, `route`, and `predict()` routing the same flows | every validation split within the bounds is an initial state |
| `StreamReplay` | `replay_stream.py` handing these flows to `predict()` | extends `ThresholdTuning` |
| `SourceHistoryLemmas`, `SourceHistoryProofs` | proofs about `SourceHistory` and `SourceHistorySpec` | section 5 |
| `FlowBuilderProofs`, `PipelineProofs` | proofs about the flow table, and about the calls around it and the intake around those | the second extends the first |
| `LiveCaptureProofs`, `ServingProofs` | proofs about the threads of a live capture, and about jobs and server on the model files | |
| `PredictProofs` | proofs about `predict()` and the host history | |
| `StreamReplayProofs` | proofs about tuning, routing and the replay | |
| `MC*` | values for TLC | |

**Correspondence.** Names are those of the code, in the code's spelling where
they are its variables (`active_flows`, `flow_counter`, `source_history`,
`total_flows_created`, ...). `PROJECT.json` maps every definition to its lines.
Variables marked "history" in a module (`log`, `closed`, `recorded`, `pushed`,
`delivered`, `lost`, ...) have no counterpart in the code: they remember what
happened so that a property can speak of it, and no guard of an action that
models code reads them, except to stop at a bound (`MaxPackets`, `MaxCalls`) or
to give the environment's packets their order (`InReach`).

**What is abstracted.** Addresses and ports are numbers, since only their order
and identity steer the code; times are integers; bytes, DNS and TLS fields are
carried along by the code and left out; a prediction has no value, it returns
or raises; a feature row in the host history is the number of its flow; a file
is a sequence of packets, some of which do not parse. In `FlowEvidence`, where
DNS and TLS fields matter, a name is itself with the number of its bytes that
were read, and only the columns that DNS and TLS fields reach are kept. In
`ThresholdTuning` a network's verdict on a flow is whether it is right, for the
heavy network by whether its sequence is scaled or not.

**Operators called mutants.** Each passing property has an operator, marked
`Mutant:` in its comment and defined right before the definition it perturbs,
that changes this definition the way a plausible bug would. No specification
uses them. Substituted for the definition, each makes TLC find the property
violated, which shows that the property depends on the code.

**Granularity and assumptions on the environment.**

- `FlowBuilder`, `Pipeline`, `PcapIntake`: one thread calls; a builder call is
  one step. `PcapIntake` holds the wall clock still during a pipeline call.
- `LiveCapture`: under CPython a single dict operation, `list(d.items())` and
  an attribute access are not interrupted; everything between them may be. The
  scan of `min()` is one step that raises when the dict shrank since it began.
  Packets carry the wall clock's time, as `sniff` delivers them.
- `Predict`: `load_model` of keras raises `ValueError` or `OSError`, not
  `FileNotFoundError`, when its file is missing. This is the library's
  behaviour, not this repository's; `RetrySucceeds` fails in
  `MCPredictFurther.cfg` because of it. A membership test, `len`, `popitem`,
  `move_to_end`, an insertion, a lookup, `append` and `list` of a deque are each
  not interrupted; between them any other caller may act.
- `Training`, `Serving`: jobs run one at a time. `ThresholdTuning`: confidences
  are whole percents, and fractions are compared as counts.
- Pickles name the class of what they hold. `_IsotonicCalibrator` is
  `__main__._IsotonicCalibrator` when `ml_dl/calibration.py` is the program, and
  `ml_dl.calibration._IsotonicCalibrator` when `train_all` calls it. The field
  `by` of an artifact is the job that saved it, and `Loadable` rests on it.
- `PcapIntake`: the process may be killed at any step, and is started again on
  the same folder; what it had written to the output file is taken to be there
  (`_handle_result` flushes after every record), and the results of one call are
  written in one step, so a Ctrl+C between two of them is not among the ones
  modelled. `shutil.move` is one step, which may raise. A file that cannot be
  opened is read like one that is cut off at its start: `read_pcap` catches both
  and returns.
- `StreamReplay`: a call of `predict` takes some ticks, and a sleep ends when the
  flow is due. Killing the process loses what is in the buffer of the file
  object. A call that raises ends the `with` statement and closes the file.
- `LiveCapture`: Ctrl+C reaches the callback or its caller as the scripts expect.
  Some versions of scapy's `sniff` end quietly on it instead; this is the
  library's behaviour and not modelled.

## 3. Runs

Deadlock is checked where the system goes on for ever (`source_history`,
`flow_builder`, `pipeline` and the runs on their modules: `check_timeouts` and
`flush` are always possible). The other configurations say
`CHECK_DEADLOCK FALSE`, since their systems stop: the process of `LiveCapture`
and `PcapIntake` exits, and the calls of `Predict`, the jobs of `Training` and
the flows of `ThresholdTuning` come to their end.

### Runs that pass

| Run | Checks | Bounds and why they are enough |
|---|---|---|
| `source_history` | `TypeOK`, `BoundedHistory`, `SuffixOfRecorded`, `AnswerExact` | more records than a deque holds, times past the window and one unit back, so capping, pruning and late calls overlap. `AnswerExact` speaks of behaviours whose times have not gone back; `SuffixOfRecorded` of all |
| `flow_builder` | `TypeOK`, `CountersAccount`, `EveryFlowOnce`, `NeverSplit`, `SummariesExact`, `CloseIsLast`, `LedgerSpec`, `EvictsLeastRecent` | table of two, three packets, both directions, any times, two timestamps kept: evictions with ties, a flow closed and reopened, the timestamp list full |
| `pipeline` | `ScoredOnce`, `NothingLost`, `PredictionsReconcile`, `NoIdleFlowLeft`, `CloseScoredExactly` | any prediction may raise, packets up to two units late. `CloseScoredExactly` speaks of packets in time order; `NoIdleFlowLeft` of the time until a prediction raises |
| `live_capture` | `CapacityBound`, `OncePerThread`, `OneThreadIsClean`, `IdleLeavesTable`, `FlushScoresActive` (fair) | two keys, table of one, two flows, two ticks: both threads and the handler meet on one key and on the only place. Both programs start; `OneThreadIsClean` is about the demo |
| `predict` | `MostRecentKept`, `SequenceAsTrained`, `RetrySucceeds`, `HostsBounded`, `SequencesInOrder` | the initial states are scenarios: one caller, three hosts, room for two, six calls, so that a host is evicted and comes back; or two callers and three calls, with a pickle and a network missing at first, for every race on the loads, the dict and its deques: both callers insert, one evicts the other's host, or replaces its deque under it |
| `intake` | `ProcessedMeansRead`, `ExitComplete`, `NewFilesProcessed`, `WatchClosesIdle` (fair) | watch, serve and replay mode, three files with four packets, one that sorts before a file that came earlier, a frame that does not parse, failing predictions and moves, Ctrl+C anywhere, and one kill and restart anywhere; two ticks of the wall clock, one more than the interval of the idle check, so that a flow can become idle after a check that found it active |
| `training` | `TunedAsDeployed`, `MadeForEachOther`, `ServedFits` | any five jobs, each cut off anywhere: enough for train, calibrate, cut off, repair and tune. Three jobs when a server loads, twice, between and beside them |
| `threshold` | `RoutedAsReported`, `BestUnderCap`, `PacedOrCounted`, `AlertsComplete` | every split of up to three flows, confidences below, at and between the candidates, a cap that three flows can reach, and a heavy network that is right on the scaled sequence, the raw one, both or neither; replayed at one rate and unpaced, with calls shorter and longer than the interval, and room for one alert in the buffer |
| `evidence` | `NameFromHello`, `EvidenceOfFrames` | flows of two frames out of every cut of nine ClientHellos, six of them with lengths that disagree or two names, DNS questions, and frames that do not parse; two classes, SHAP values with ties |

### Fairness

`LiveCapture!FairSpec` assumes weak fairness of each thread's steps and of the
clock: the operating system runs threads that can run, and the sweeper's
`sleep(5)` ends. It assumes nothing of packets or Ctrl+C. `IntakeFairSpec`
assumes weak fairness of the intake's own steps (a `while True` loop) and of the
clock; files and Ctrl+C may never come. The liveness properties say in their
formula what releases them: `IdleLeavesTable` that a packet renewed the flow,
the process ended, a prediction of the sweeper raised, or there is no sweeper;
`WatchClosesIdle` that the flow was renewed or the process ended;
`NewFilesProcessed` that the file failed or the process ended.

### Runs that show a disagreement

Each checks one sentence of the code's documentation or comments, quoted in
`PROJECT.json` under "findings", and TLC finds it violated.

| Run | Shows |
|---|---|
| `live_scored_once` | main thread and sweeper score one flow twice |
| `calibration_alone` | the calibrator that `python -m ml_dl.calibration` saves can be loaded by no other program, the tuning it is recommended for included |
| `tune_scaled` | `tune` measures the heavy network on raw sequences, where training and service scale them: the accuracy it reports, and chooses by, is not the one in service |

### Further configurations

These are kept beside the runs. Each shows where a property stops to hold: TLC
refutes every property it names. A configuration with several is checked with
one of them at a time, or with `-continue`.

| Configuration | Property | Shows |
|---|---|---|
| `MCSourceKeys.cfg` (`MCSourceHistory`) | `LiveSourcesOnly` | the key of a source outlives its entries, so the dict grows with every source seen (against `ingest/README.md:147-151`) |
| `MCInitiator.cfg` (`MCFlowBuilder`) | `InitiatorSentFirst` | the "initiator" of a flow is the endpoint that sorts first, not the one that sent first (against `ingest/schemas.py:46-48`) |
| `MCPipelineFurther.cfg` (`MCPipeline`) | `SilenceEndsFlow` | a packet after any silence joins the old flow: it is applied before timeouts are checked |
| | `NoFutureInformation` | a timed-out flow counts flows its source opened after its last packet (against `ingest/README.md:152`) |
| `MCLiveFurther.cfg` (`MCLiveCapture`) | `NeverCrashes` | the scan for the oldest flow raises while the sweeper pops |
| | `NoFlowVanishes` | a flow opened under a key that another thread is about to pop is never scored |
| | `NoneDroppedAtExit` | flows in the hands of a thread at Ctrl+C are dropped |
| `MCLiveIdle.cfg` (`MCLiveCapture`) | `IdleAlwaysLeaves` | one failed prediction ends the sweeper, and idle flows stay; the demo has no sweeper, and they stay while no packet comes |
| `MCPredictFurther.cfg` (`MCPredict`) | `RetrySucceeds` | a missing weight file leaves `predict()` broken for the life of the process |
| | `HostCap` | two callers both find room for one more host and both insert: the dict exceeds `max_hosts` (against `host_history.py:9-10`) |
| | `EndsWithItself` | with two callers a sequence ends with a later flow than the one scored |
| | `LatestRowKept` | two callers make a deque for one host, and a row goes to the one that is replaced (against `predict_interface.py:149-153`) |
| | `CalibratedWhenTrained` | a second caller does not wait for the calibrator |
| `MCEvidenceFurther.cfg` (`MCFlowEvidence`) | `NameIsWhole` | part of a server name passes for the name, from a segment that ends in it or a hello whose lengths disagree (against `packet_parser.py:48-49`) |
| | `HandshakeNoticed` | a whole ClientHello without a server name is not counted as a handshake (against `ingest/README.md:158-160`) |
| `MCIntakeServeIdle.cfg` (`MCPcapIntake`) | `IdleFlowsClose` | without uploads, idle flows are never closed in serve mode |
| `MCIntakeSameName.cfg` (`MCPcapIntake`) | `NewFilesProcessed` | a new file under an old name is never read |
| `MCIntakeFiles.cfg` (`MCPcapIntake`) | `ProcessedMeansRead` | a file still being copied is read in part and moved away |
| | `CaptureOrder` | files are read by name within a poll: one captured later can come first |
| | `AsOneCapture` | the idle check by the wall clock cuts a connection that goes on in the next file |
| `MCIntakeRestarts.cfg` (`MCPcapIntake`) | `FlowIdUnique` | flow ids start again after a restart, in the same output file |
| | `MovedMeansScored` | a killed process takes the open flows of files it has moved away |
| `MCServingFurther.cfg` (`Serving`) | `EvidenceExplainsTriage` | after a training of the triage model alone, SHAP explains another model than the calibrated one that gave the verdict |
| | `LoadIsAtomic` | a load that a retrain overtakes has files of two generations |
| | `RepairHelps` | a pickle emptied by a cut-off save leaves `predict()` broken for the life of the process |
| | `SameCalibrator` | a training cut off after its calibration leaves the threshold of the old one |
| `MCReplayFurther.cfg` (`MCThresholdTuning`) | `KeptUp` | the first flow is counted as behind schedule (`replay_stream.py:47-49`) |
| | `WrittenAsGenerated` | the output file is never flushed: a kill loses alerts already counted (`replay_stream.py:10-12`) |

## 4. The properties

The comment above each property says what it means. The ones that carry most:

- `EveryFlowOnce`, with `LedgerSpec`: the ids given out are exactly those in the
  table and those returned so far, disjointly and without duplicates.
- `AnswerExact`: the incremental history is the reference scan.
- `SummariesExact`: the incremental `FlowState` is the summary of its packets.
- `NothingLost`, `PredictionsReconcile`: what happens to flows when a prediction
  raises, and what the counters of `stats()` still say.
- `OncePerThread`, `CapacityBound` in `LiveCapture`: what holds of an unlocked
  table in spite of the races that the violated properties show.
- `SequenceAsTrained`: the streaming history and the batch construction agree,
  up to the last time the host was forgotten.
- `TunedAsDeployed`, `MadeForEachOther`: the files in `models/` fit each other
  after any order of completed, failed and cut-off jobs.
- `ServedFits`: what a server has loaded, after failed loads, retries and jobs
  beside it, fits together, if the files were tuned and left alone meanwhile.
- `ProcessedMeansRead`, `ExitComplete`: every file reported as processed was read
  whole and in order by one life of the process, and no flow is unaccounted for
  at exit, however often it was killed before.
- `HostsBounded`, `SequencesInOrder`: what is left of the history's promises
  when several callers take its unlocked steps.
- `RoutedAsReported`: tuning and service route the same flows alike, those at
  the threshold included.
- `PacedOrCounted`, `AlertsComplete`: the schedule of the replay does not drift,
  each late flow is counted, and the file has every alert that was counted.
- `NameFromHello`: for every cut of the segment and any lengths in it, the name
  that the walk finds is the beginning of one that was sent; for hellos that are
  whole and well-formed it is all of the first one. What the code does with the
  others is not called right: `MCEvidenceFurther.cfg` shows where it disagrees
  with the comments.
- `EvidenceOfFrames`: the values on an alert agree with what the frames of the
  flow say, after parser, flow, extractor and two derivations of the features.

## 5. What is proved

Every theorem is about all values of the constants that the named assumptions
of its module allow: natural numbers for bounds, windows, timeouts and
intervals, positive capacities, any set of headers, keys and times, any
sequence of files. Only `PcapIntakeAssumption` says more: the readings of the
wall clock count time as the packets of a capture do (`0 .. MaxWall \subseteq
Times`). A theorem states the specification without fairness, so it holds of
the fair one, too.

| Module | Theorem | States |
|---|---|---|
| `SourceHistoryProofs` | `HistoryTypeOK`, `HistoryBounded` | type and bound of every deque, in any order of times |
| | `HistoryIsSuffix` | `SuffixOfRecorded` |
| | `AnswersAreScans` | the action property `AnswerExact` |
| `FlowBuilderProofs` | `KeyIsDirectionless` | a packet and its reply have one canonical key |
| | `BuilderTypeOK`, `TableBounded`, `CountersAddUp` | `TypeOK` with a finite table, `CapacityBound` (one thread: proved only; the run of the unlocked table checks its own), `CountersAccount` |
| | `FlowsAccounted`, `ImplementsLedger` | `EveryFlowOnce`, and that `FlowBuilder` implements `FlowLedger` |
| | `ConversationsStayTogether`, `NothingAfterClose` | `NeverSplit`, `CloseIsLast` |
| | `FlowsSummarized` | `SummariesExact` |
| | `EvictionTakesTheSilent` | the action property `EvictsLeastRecent` |
| `PipelineProofs` | `FlowsScoredOnce`, `FlowsReachTheCaller` | `ScoredOnce`, `NothingLost` |
| | `StatsReconcile`, `IdleFlowsLeave` | `PredictionsReconcile`, `NoIdleFlowLeft` |
| | `ClosesAreCounted` | the action property `CloseScoredExactly` |
| | `TableInsidePipeline` | the invariants of the table alone, in every behaviour of the pipeline |
| | `NothingLeftAtExit` | `ExitComplete` |
| | `ProcessedFilesAreRead` | `ProcessedMeansRead`, if no file is seen half written |
| | `PipelineInsideIntake` | the invariants of table and pipeline, in every life of an intake |
| `LiveCaptureProofs` | `TableBounded`, `ThreadsTakeFlowsOnce` | `CapacityBound`, `OncePerThread` |
| | `CleanWithoutSweeper` | `OneThreadIsClean` |
| `PredictProofs` | `HostsStayBounded`, `SequencesStayInOrder` | `HostsBounded`, `SequencesInOrder`, for any number of callers |
| | `RecentHostsAreKept`, `SequenceOfBatch` | `MostRecentKept`, `SequenceAsTrained` |
| | `RetryAfterMissingPickle` | `RetrySucceeds`, if the networks' weights are on disk from the start |
| `ServingProofs` | `ThresholdFitsFiles`, `FilesStayASet` | `TunedAsDeployed`, `MadeForEachOther` |
| | `ServerAnswersWithASet` | `ServedFits` |
| `StreamReplayProofs` | `ServiceRoutesAsReported`, `NoneBetterUnderCap` | `RoutedAsReported`, `BestUnderCap` |
| | `ScheduleKept`, `EveryAlertWritten` | `PacedOrCounted`, `AlertsComplete` |

**The flow table.** `EveryFlowOnce` alone is not inductive: a step that returns
a flow has to know that the table holds no second flow with its id, that the id
is not above the counter, and that the flow is filed under its own key. `IInv`
adds these to the capacity and counter equations, which need the cardinality
facts of `FiniteSetTheorems`. The four calls are first reduced to what they do
to the table (a flow is added, replaced or removed), so each part is proved
once per kind of change. `ImplementsLedger` uses `IInv`: the ids returned by a
call are the ids that leave.

`NeverSplit` and `CloseIsLast` relate the table to all packets so far. `LogInv`
adds to `IInv` that a flow in the table has had a packet, that the packets of
its id are those of its own key and none of them closes (`FlowHasPackets`), and
the same for a flow that has left, with the close reason that tells which way
it ended (`ClosedForGood`). Every step is one of two shapes, `PacketStep`, which
appends to the log, or `RemovalStep`, which does not, and `LogInv` is proved
once for each. `EvictsLeastRecent` follows since the flow `min()` finds has the
least `last_seen`, and `last_seen` is the timestamp of the packet that arrived
last, which with packets out of order need not be the greatest.

`SummariesExact` says of each flow separately what its packets add up to. Its
invariant `SummaryInv` needs `LogInv`, since one more packet in the log must
leave the summaries of all other flows as they are: no other flow has its id
(`SummaryElsewhere`). The flow a packet goes to has been summed up so far or has
had no packet (`FlowForIsCounted`), and counting one more position keeps the
counts and the list of timestamps, full or not (`CountedGrows`, `DatedGrows`).

**The source history.** A deque is a suffix of what was recorded for its source
in any order of times, because pruning and the bound both drop from the left
and nothing else drops. The bound alone needs no invariant beside the type.

`AnswerExact` needs to know what a suffix lacks. `Remembers` says it: an entry
that is missing is beyond the bound, or older than the window before the latest
time so far. Both stay true as time goes on, so `WindowInv` is kept by records
and by queries. On a deque in time order the loop of `_prune` keeps exactly the
entries that are not older than the cutoff (`DropOldOfSorted`), so after it the
deque has the positions that a scan of everything counts (`RememberedStats`).
Without `ordered` the property is false: a query in the future drops entries
that an earlier query would have counted.

**The pipeline.** `CallInv` is what survives a call that is broken off at any
step: every flow that has left the table is in exactly one of four places,
waiting, among the results of this call, delivered, or lost (`InOnePlace`), and
the counters agree with that. `PipeInv` adds what needs calls to run to their
end: nothing is lost unless predictions raise, and once a call has checked the
timeouts, no flow in the table is idle (`IdleExpired`, the strengthening of
`NoIdleFlowLeft` to the steps inside a call). That the flow to be scored next
exists is the well-foundedness of the natural numbers.

`CloseScoredExactly` compares the history, which knows neither flow ids nor
which flows are still open, with the flows themselves. What the two share is a
flow's birth: its id, source and first time, which neither updating nor closing
it changes. `Known` says that the deque of a source `Remembers` a sequence whose
entries are, one to one, the births of the source's flows; `SourceInv` says that
of every source and every time that no packet is past, and that a connection
waiting as closed has closed at such a time. A query prunes at the last packet
of the flow it is for. `SummaryInv` gives that some packet carries this time, so
nothing of a window that ends later is lost (`KnownPruned`), even for flows that
are scored long after. `IInv` gives that a step forgets no birth (`BirthsStay`,
`BirthsGrow`), since the ids in use are always all those given out. The count
then follows by a bijection from positions to flows (`CountOfIds`).

**The intake.** `IntakeInv` joins `CallInv` with the phases in which each
pipeline call can be in progress (`PhaseInv`), so that Ctrl+C or a kill keeps it
at any step; at exit, no call is in progress and the table is empty, and
`ExitComplete` is what `InOnePlace` leaves. `ProcessedMeansRead` needs what has
been read of the file in hand: the log ends with its packets up to `pos`
(`InHand`), and a file in the folder or in the current round is complete
(`FolderInv`). The theorem assumes `~Copying`. Without it the
property is false: `MCIntakeFiles.cfg` shows a file that is moved away while it
is being copied.

**The live capture.** The table is unlocked, and `CapacityBound` holds because
only the main thread inserts: between its size check and its insertion the
table can only shrink (`RoomMade`). `OncePerThread` needs that a flow which a
checking thread holds in its snapshot and has not yet taken is under its old
key or gone, never under another one (`MineOnce`, `InHandOnce`). Nothing keeps
two threads from taking the same flow, which the run `live_scored_once` shows.
Without a sweeper, what the main thread has read is still true when it acts on
it (`InStep`), interrupted anywhere, so no `pop` fails and each flow is in the
table or in some thread's hands (`SingleInv`).

**The prediction interface.** `HeapInv` is what several unlocked callers leave
true: each deque ever made belongs to one host (`Owned`), the dict has a deque
under the host it belongs to and under no other, and a deque that a caller
holds is its host's, also when the dict no longer has it. So a row pushed to a
deque that was cut off is lost, and never another host's. `OrderInv` adds that
what a call is to return shows rows of its host in the order of their pushes
(`Shown`); it outlives later pushes, since the rows it names stay where they
are. The bound is not inductive either: a caller past the length check will
insert whatever others do meanwhile, so `BoundInv` counts these callers
(`Inserting`) with the hosts in the dict.

With one caller the steps of `append` and `window` amount to a host reached, a
row pushed and a window read (`Moves`), on the dict with the rows of each host
and the host about to be inserted (`Held`): what the caller found in the dict
is still so when it acts on it (`InPlace`, `ReachedInv`), and no access fails
(`NoKeyError`). `MostRecentKept` is
not inductive by itself: between reaching a host and pushing its row the dict is
one push ahead of the history. `RecentInv` therefore states it for the pushes
with the pending host (`Pend`), and adds the converse, that every host not kept
has had `max_hosts` others after it (`OthersForgotten`).

`SequenceAsTrained` compares with `build_sequences` on the whole history, a loop
over all flows. That its window is the one the deque gives is shown for every
prefix by induction over the natural numbers. The library's induction theorems
take the formula as an operator, which the provers cannot instantiate; a set of
numbers with 0 and successors is all of them, by well-foundedness
(`AllNaturals`), and serves for each such induction. `SequenceInv` carries
the equality through the threads' steps.

`RetrySucceeds` needs what a caller has loaded in the middle of a load
(`LoadedInv`): a prefix of the load order, and everything required once
`_lazy_load` has returned or its first guard finds the model. `RetryInv` keeps
that the networks' weights are on disk, which the theorem assumes of the
initial state. Without it the property is false: `MCPredictFurther.cfg`.

**The model files.** `JobInv` says of a running job that whatever it has read or
saved is on disk as the job holds it in memory, and that what it made was made
from what it holds; a job reads what a file is made from before, and saves it
before, that file (`SaveOrder`). So each completed tuning leaves files that fit
(`TunedInv`), whatever was cut off earlier. The server's part, `ServerInv`, says
that it loads once, in order, and that while a tuned set is untouched, what has
been loaded is what is on disk.

**Threshold and replay.** `TuningInv` keeps what the choice established
(`Chosen`: the best of the candidates, with its counts) and that each flow was
routed by it; when all flows have been served, the flows on each branch in
service are those that tuning counted there. The heavy network's verdicts are
not part of it: they differ, as the run `tune_scaled` shows. `PaceInv` says that
the schedule counts from the start (`next_due` is the number of flows times the
interval) and that the counter is the number of flows the previous call overtook,
which includes every late one. `AlertInv` says that file and buffer together are
the alerts so far.

**Model-checked only.** The prover leaves to TLC:

- liveness (`IdleLeavesTable`, `FlushScoresActive`, `NewFilesProcessed`,
  `WatchClosesIdle`): no fairness, no ENABLED;
- `NameFromHello`: the walk over a ClientHello and its reference are folds over
  the list of extensions, and to unfold a fold of the community modules once
  takes a theorem with an operator as parameter;
- `EvidenceOfFrames`, whose reference sums over the frames of a flow where the
  code folds over a list, for the same reason;
- the properties of the runs that expect a violation, and of the further
  configurations, which are false.

## 6. Not modelled, and the plan

Not modelled, since it computes numbers and keeps no state: rates, entropies and
inter-arrival statistics of the feature extractor, model fitting, SHAP values,
cleaning and splitting of the data, `ml_dl/baselines.py`, `ml_dl/ablation.py`,
and the benchmarks, of which `benchmark_ingestion.py` runs the loop of
`replay_pcap.py` with timers around it. The data generators write random demo
inputs. `scripts/train_dl.py` cannot run: it imports names that the repository
does not have. `sniff`, `PcapReader` and the protocol layers are scapy's.
`PROJECT.json` names each component and the reason.

What a next step would be:

1. Writing the results of a call one at a time in `PcapIntake`, so that Ctrl+C
   between two of them is a behaviour of the model.
2. `NameFromHello`, once the walk of `PacketParser` is stated as a function over
   the positions in the list of extensions, whose unfolding can be proved for
   every list by the induction that `PredictProofs` uses.
3. A `FlowLedger` for the unlocked table of `LiveCapture`, with the steps at
   which two threads return one flow, so that what the sweeper does to the
   ledger is stated rather than only refuted.
