----------------------------- MODULE PcapIntake ------------------------------
(****************************************************************************)
(* scripts/pcap_intake.py: capture files that another server delivers, read *)
(* one after the other into one long-lived pipeline, with a sweep of idle   *)
(* flows by the wall clock between files and a flush at the end.            *)
(*                                                                          *)
(* Files arrive in a watched folder or as uploads over HTTP.  The intake is *)
(* one thread; its pipeline calls are those of module Pipeline, and the     *)
(* results a call returns are written at once.  The wall clock stands still *)
(* during a call.  The process may be killed at any step, and is started    *)
(* again on the same folder and the same output file.                       *)
(*                                                                          *)
(* Mode "replay" is the loop of scripts/replay_pcap.py, of run_pcap in      *)
(* demo.py and of scripts/benchmark_ingestion.py: one file, then a flush.   *)
(****************************************************************************)
EXTENDS Pipeline

CONSTANTS
  Modes,                     \* the modes it may be started in
  Files,                     \* the capture files: sequence of [name, packets];
                             \* a packet is [header, ts, parses]
  Copying,                   \* whether a file can be seen half written
  Interrupts,                \* whether Ctrl+C is pressed
  IDLE_CHECK_INTERVAL_SEC,
  MaxWall,                   \* bound: where the wall clock stops
  MaxRestarts,               \* bound: how often the process is started again
  RememberFlows              \* whether "past" has the flows of earlier lives

CapturePacket == [header : Headers, ts : Times, parses : BOOLEAN]
CaptureFile == [name : Nat, packets : Seq(CapturePacket)]

(* The wall clock and the packets of a capture count the same time.         *)
ASSUME PcapIntakeAssumption ==
  /\ Modes \subseteq {"watch", "serve", "replay"}
  /\ Files \in Seq(CaptureFile)
  /\ 0 .. MaxWall \subseteq Times
  /\ Copying \in BOOLEAN /\ Interrupts \in BOOLEAN
  /\ IDLE_CHECK_INTERVAL_SEC \in Nat /\ MaxWall \in Nat /\ MaxRestarts \in Nat
  /\ RememberFlows \in BOOLEAN

VARIABLES
  mode,        \* which script, in which mode
  wall,        \* time.time()
  since,       \* time since _last_idle_check, up to the interval
  written,     \* packets of each file that have reached the disk
  folder,      \* files in the watched folder
  seen,        \* names taken up so far
  round,       \* files of the current poll still to look at
  phase,       \* where run_watch_dir or the server is
  file, pos,   \* the file being processed, and how far
  ingested,    \* history: files reported as processed
  failed,      \* history: files reported as failed in this life
  past         \* history: what earlier lives of the process read and wrote

worldVars == <<mode, wall, since, written, past>>
intakeVars == <<folder, seen, round, phase, file, pos, ingested, failed>>
everything == <<allVars, worldVars, intakeVars>>

None == 0

Size(f) == Len(Files[f].packets)

(* The replay scripts are given a file; the others wait for files to come.  *)
IntakeInit ==
  /\ PipelineInit
  /\ mode \in Modes
  /\ wall = 0 /\ since = 0
  /\ folder = {} /\ seen = {} /\ round = {}
  /\ pos = 0
  /\ ingested = {} /\ failed = {} /\ past = <<>>
  /\ IF mode = "replay"
       THEN /\ file \in DOMAIN Files
            /\ written = [f \in DOMAIN Files |-> IF f = file THEN Size(f) ELSE 0]
            /\ phase = "reading"
       ELSE /\ file = None
            /\ written = [f \in DOMAIN Files |-> 0]
            /\ phase = "poll"

Ended == phase \in {"exited", "aborted"}
Newest(f) == \A g \in 1 .. f - 1 : written[g] = Size(g)

(* One intake step that leaves the pipeline and the outside world alone. *)
Internal == Idling /\ UNCHANGED <<allVars, worldVars>>

------------------------------------------------------------------------------
(* The world: the clock, and the server that delivers the files in order, a *)
(* packet after it was captured.                                            *)

Tick ==
  /\ Idling /\ ~Ended /\ mode # "replay"
  /\ wall' = IF wall < MaxWall THEN wall + 1 ELSE wall
  /\ since' = IF since < IDLE_CHECK_INTERVAL_SEC THEN since + 1 ELSE since
  /\ UNCHANGED <<allVars, mode, written, past, intakeVars>>

(* A file, or its next packets, reach the watched folder.  A writer whose   *)
(* file was moved away goes on writing it.  A name in the folder is not     *)
(* given to another file.                                                   *)
FileArrives(f, size) ==
  /\ mode = "watch" /\ Newest(f)
  /\ written[f] < size /\ (Copying \/ size = Size(f))
  /\ \A i \in 1 .. size : Files[f].packets[i].ts <= wall
  /\ written[f] = 0 => \A g \in folder : Files[g].name # Files[f].name
  /\ written' = [written EXCEPT ![f] = size]
  /\ folder' = IF written[f] = 0 THEN folder \cup {f} ELSE folder
  /\ UNCHANGED <<allVars, mode, wall, since, past, seen, round, phase, file, pos, ingested,
                 failed>>

(* An upload: the whole body, under a name made from the time. *)
Upload(f) ==
  /\ mode = "serve" /\ Idling /\ phase = "poll"
  /\ Newest(f) /\ written[f] = 0
  /\ \A i \in 1 .. Size(f) : Files[f].packets[i].ts <= wall
  /\ written' = [written EXCEPT ![f] = Size(f)]
  /\ phase' = "reading" /\ file' = f /\ pos' = 0
  /\ UNCHANGED <<allVars, mode, wall, since, past, folder, seen, round, ingested, failed>>

------------------------------------------------------------------------------
(* run_watch_dir                                                            *)

Poll ==
  /\ mode = "watch" /\ phase = "poll"
  /\ round' = folder
  /\ phase' = "round"
  /\ Internal /\ UNCHANGED <<folder, seen, file, pos, ingested, failed>>

(* sorted(): by name.  A name that was seen is skipped.                     *)
NextFile(f) ==
  /\ phase = "round" /\ f \in round
  /\ \A g \in round : Files[f].name <= Files[g].name
  /\ round' = round \ {f}
  /\ seen' = seen \cup {Files[f].name}
  /\ IF Files[f].name \in seen
       THEN UNCHANGED <<phase, file, pos>>
       ELSE phase' = "reading" /\ file' = f /\ pos' = 0
  /\ Internal /\ UNCHANGED <<folder, ingested, failed>>

(* The next frame of a file.  Only what is on disk by now is read, and a    *)
(* truncated tail ends the file like a proper end.                          *)
Frame == Files[file].packets[pos + 1]

ReadPacket ==
  /\ phase = "reading" /\ pos < written[file] /\ Frame.parses
  /\ ProcessPacket(Frame.header, Frame.ts)
  /\ pos' = pos + 1
  /\ UNCHANGED <<worldVars, folder, seen, round, phase, file, ingested, failed>>

(* Mutant: a frame that is skipped takes the one after it along. *)
SkipFrameAndNext ==
  /\ phase = "reading" /\ pos < written[file] /\ ~Frame.parses
  /\ pos' = IF pos + 2 <= written[file] THEN pos + 2 ELSE pos + 1
  /\ Internal /\ UNCHANGED <<folder, seen, round, phase, file, ingested, failed>>

(* parse_packet answers None: the frame is counted and skipped. *)
SkipFrame ==
  /\ phase = "reading" /\ pos < written[file] /\ ~Frame.parses
  /\ pos' = pos + 1
  /\ Internal /\ UNCHANGED <<folder, seen, round, phase, file, ingested, failed>>

(* The replay scripts flush after the file. *)
EndOfFile ==
  /\ phase = "reading" /\ pos = written[file]
  /\ phase' = IF mode = "replay" THEN "shutdown" ELSE "after file"
  /\ Internal /\ UNCHANGED <<folder, seen, round, file, pos, ingested, failed>>

(* process_file has returned: the server answers, the loop moves the file.  *)
FileDone ==
  IF mode = "watch"
    THEN phase' = "moving" /\ UNCHANGED ingested
    ELSE phase' = "poll" /\ ingested' = ingested \cup {file}

(* shutil.move into _processed. *)
MoveFile ==
  /\ phase = "moving"
  /\ ingested' = ingested \cup {file}
  /\ folder' = folder \ {file}
  /\ phase' = "round"
  /\ Internal /\ UNCHANGED <<seen, round, file, pos, failed>>

(* ... or it raises, which is caught like any failure of the file.          *)
MoveFails ==
  /\ phase = "moving"
  /\ failed' = failed \cup {file}
  /\ phase' = "round"
  /\ Internal /\ UNCHANGED <<folder, seen, round, file, pos, ingested>>

(* Mutant: no sweep after a poll. *)
RoundDoneWithoutSweep ==
  /\ phase = "round" /\ round = {}
  /\ phase' = "poll"
  /\ Internal /\ UNCHANGED <<folder, seen, round, file, pos, ingested, failed>>

RoundDone ==
  /\ phase = "round" /\ round = {}
  /\ phase' = "after round"
  /\ Internal /\ UNCHANGED <<folder, seen, round, file, pos, ingested, failed>>

(* What follows _maybe_check_idle: after a file, and after every poll.      *)
AfterCheck ==
  IF phase \in {"after file", "sweep in file"}
    THEN FileDone
    ELSE phase' = "poll" /\ UNCHANGED ingested

(* _maybe_check_idle, when the interval has not passed ... *)
NoCheckYet ==
  /\ phase \in {"after file", "after round"} /\ since < IDLE_CHECK_INTERVAL_SEC
  /\ AfterCheck
  /\ Internal /\ UNCHANGED <<folder, seen, round, file, pos, failed>>

(* ... and when it has: a sweep by the wall clock. *)
CheckIdle ==
  /\ phase \in {"after file", "after round"} /\ since >= IDLE_CHECK_INTERVAL_SEC
  /\ CheckIdleTimeouts(wall)
  /\ phase' = IF phase = "after file" THEN "sweep in file" ELSE "sweep in loop"
  /\ UNCHANGED <<worldVars, folder, seen, round, file, pos, ingested, failed>>

------------------------------------------------------------------------------
(* The pipeline call in progress, and the end of the process.               *)

CallGoesOn ==
  /\ ThenCheckTimeouts \/ FinalizeResult
  /\ UNCHANGED <<worldVars, intakeVars>>

CallReturns ==
  /\ ReturnResults
  /\ CASE phase = "reading" -> UNCHANGED <<since, phase, ingested>>
       [] phase \in {"sweep in file", "sweep in loop"} -> since' = 0 /\ AfterCheck
       [] phase = "flushing" -> phase' = "exited" /\ UNCHANGED <<since, ingested>>
  /\ UNCHANGED <<mode, wall, written, past, folder, seen, round, file, pos, failed>>

(* The exception is caught around process_file, which leaves the file where *)
(* it is; raised by the sweep of the loop it ends the loop, and raised by   *)
(* the flush it ends the process.  The replay scripts catch nothing.        *)
CallRaises ==
  /\ PredictFails
  /\ phase' = CASE phase = "sweep in loop" -> "shutdown"
                [] phase = "flushing" -> "exited"
                [] OTHER -> CASE mode = "watch" -> "round"
                              [] mode = "serve" -> "poll"
                              [] mode = "replay" -> "aborted"
  /\ failed' = IF phase \in {"reading", "sweep in file"} THEN failed \cup {file} ELSE failed
  /\ UNCHANGED <<worldVars, folder, seen, round, file, pos, ingested>>

(* Mutant: Ctrl+C ends the process without a flush. *)
InterruptWithoutFlush ==
  /\ Interrupts /\ phase \notin {"shutdown", "flushing"} /\ ~Ended
  /\ lost' = lost \cup queue \cup { results[i].flow : i \in DOMAIN results }
  /\ stage' = "none" /\ queue' = {} /\ results' = <<>>
  /\ phase' = "exited"
  /\ UNCHANGED <<vars, now, total_predictions, delivered, worldVars, folder, seen,
                 round, file, pos, ingested, failed>>

(* Ctrl+C ends the loop, and the replay scripts altogether.  In the middle  *)
(* of a pipeline call it takes the flows of that call with it.              *)
Interrupt ==
  /\ Interrupts /\ phase \notin {"shutdown", "flushing"} /\ ~Ended
  /\ lost' = lost \cup queue \cup { results[i].flow : i \in DOMAIN results }
  /\ stage' = "none" /\ queue' = {} /\ results' = <<>>
  /\ phase' = IF mode = "replay" THEN "aborted" ELSE "shutdown"
  /\ UNCHANGED <<vars, now, total_predictions, delivered, worldVars, folder, seen,
                 round, file, pos, ingested, failed>>

Shutdown ==
  /\ phase = "shutdown"
  /\ FlushAll
  /\ phase' = "flushing"
  /\ UNCHANGED <<worldVars, folder, seen, round, file, pos, ingested, failed>>

(* The file's packets reached the pipeline in their order, with none left   *)
(* out but those that cannot be parsed.                                     *)
Parsed(f, i) == { j \in 1 .. i : Files[f].packets[j].parses }
IsPacket(entry, packet) == entry.header = packet.header /\ entry.ts = packet.ts
ReadAfter(k, f, i, entries) ==
  \A j \in Parsed(f, i) :
    IsPacket(entries[k + Cardinality(Parsed(f, j))], Files[f].packets[j])
IsRead(f, entries) ==
  \E k \in 0 .. Len(entries) - Cardinality(Parsed(f, Size(f))) :
    ReadAfter(k, f, Size(f), entries)

(* Every flow that took one of the file's packets was written.              *)
IsScored(f) ==
  \A k \in DOMAIN log :
    (\E j \in Parsed(f, Size(f)) : IsPacket(log[k], Files[f].packets[j]))
    => log[k].flow_id \in DeliveredIds

(* What is remembered of a life. *)
Life == [read |-> { f \in DOMAIN Files : IsRead(f, log) },
         output |-> IF RememberFlows THEN DeliveredIds ELSE {},
         unscored |-> IF RememberFlows THEN { f \in DOMAIN Files : ~IsScored(f) } ELSE {}]

(* All that is in memory, apart from the names seen, is as at the start.    *)
Forget ==
  /\ active_flows' = [k \in {} |-> 0] /\ flow_counter' = 0 /\ source_history' = EmptyHistory
  /\ total_flows_created' = 0 /\ total_flows_finalized' = 0 /\ capacity_evictions' = 0
  /\ returned' = {} /\ log' = <<>> /\ closed' = {}
  /\ stage' = "none" /\ now' = 0 /\ queue' = {} /\ results' = <<>>
  /\ total_predictions' = 0 /\ delivered' = <<>> /\ lost' = {}
  /\ since' = 0 /\ round' = {} /\ failed' = {}
  /\ phase' = "poll" /\ file' = None /\ pos' = 0

(* Mutant: the names seen survive. *)
RestartKeepsSeen ==
  /\ mode # "replay" /\ Len(past) < MaxRestarts
  /\ past' = Append(past, Life)
  /\ Forget
  /\ UNCHANGED <<mode, wall, written, folder, seen, ingested>>

(* The process is killed, or has ended, and is started again: folder and    *)
(* output file are as they were.                                            *)
Restart ==
  /\ mode # "replay" /\ Len(past) < MaxRestarts
  /\ past' = Append(past, Life)
  /\ Forget /\ seen' = {}
  /\ UNCHANGED <<mode, wall, written, folder, ingested>>

FolderSteps == Poll \/ (\E f \in round : NextFile(f)) \/ RoundDone
FileSteps ==
  ReadPacket \/ SkipFrame \/ EndOfFile \/ NoCheckYet \/ CheckIdle \/ MoveFile \/ MoveFails
CallSteps == CallGoesOn \/ CallReturns \/ CallRaises
IntakeSteps == FolderSteps \/ FileSteps \/ CallSteps \/ Shutdown

IntakeNext ==
  \/ Tick
  \/ \E f \in DOMAIN Files : Upload(f) \/ \E size \in 1 .. Size(f) : FileArrives(f, size)
  \/ IntakeSteps
  \/ Interrupt \/ Restart

IntakeSpec == IntakeInit /\ [][IntakeNext]_everything

(* The intake keeps running and the clock keeps going; files and Ctrl+C     *)
(* need never come.                                                         *)
IntakeFairSpec == IntakeSpec /\ WF_everything(IntakeSteps) /\ WF_everything(Tick)

------------------------------------------------------------------------------

(* A file that was reported as processed, or has left the folder, was read  *)
(* to its end in one life of the process.  A file that failed, or whose     *)
(* process was killed, is still in the folder.                              *)
ProcessedMeansRead ==
  \A f \in DOMAIN Files :
    (f \in ingested \/ (mode = "watch" /\ written[f] > 0 /\ f \notin folder))
    => /\ written[f] = Size(f)
       /\ IsRead(f, log) \/ \E i \in DOMAIN past : f \in past[i].read

(* Lines 36-37 of the script: the flush at shutdown finalizes whatever is   *)
(* still open.  When the process ends, every flow that it ever opened was   *)
(* written, unless a prediction failed or Ctrl+C hit its call.              *)
ExitComplete ==
  phase = "exited" => 1 .. flow_counter = DeliveredIds \cup Ids(lost)

(* Lines 8-10: new *.pcap files in the folder are processed, or reported as *)
(* failed and left in place, as long as the loop runs.  A file that failed, *)
(* or whose process was killed, is taken up again by the next life.         *)
NewFilesProcessed ==
  \A f \in DOMAIN Files :
    f \in folder ~> (f \notin folder \/ f \in failed \/ Ended)

(* Lines 34-36: "Flows still close on their own via the normal idle-timeout *)
(* logic ... checked here on a wall-clock timer between files".             *)
IdleByWall(id) == \E flow \in Active : flow.flow_id = id /\ Idle(flow, wall)
IdleFlowsClose ==
  \A id \in 1 .. MaxPackets : IdleByWall(id) ~> (~IdleByWall(id) \/ Ended)

(* In the watched folder they do: the loop checks after every poll, also    *)
(* when files failed before and when no file ever comes again.              *)
WatchClosesIdle ==
  \A id \in 1 .. MaxPackets :
    (mode = "watch" /\ IdleByWall(id)) ~> (~IdleByWall(id) \/ Ended)

(* Lines 26-33: "exactly as if this were one continuous capture": a         *)
(* connection is not cut off because its packets are split across files.    *)
(* Two packets of a connection that come closer together than its timeout   *)
(* are in one flow, unless a close or an eviction came between.             *)
AsOneCapture ==
  \A i, j \in DOMAIN log :
    (/\ i < j
     /\ SameConversation(log[i].header, log[j].header)
     /\ log[j].ts - log[i].ts < TimeoutFor(log[i].header.protocol)
     /\ \A f \in closed : f.flow_id = log[i].flow_id => f.finalize_reason = "timeout")
    => log[i].flow_id = log[j].flow_id

(* ... and its packets reach the pipeline in the order of capture.          *)
CaptureOrder == InOrder

(* docs/interfaces.md:18, "unique id", and lines 52-53, "flow_id is the     *)
(* join key": no two records of the output file carry one id.               *)
FlowIdUnique ==
  \A i \in DOMAIN past : past[i].output \cap DeliveredIds = {}

(* Lines 26-37: flows stay open from file to file, and are scored in the    *)
(* course of the intake or by the flush at its end.  A file that was moved  *)
(* away by a life that has ended has its flows in the output.               *)
MovedMeansScored == \A i \in DOMAIN past : past[i].unscored \cap ingested = {}
==============================================================================
