----------------------------- MODULE LiveCapture -----------------------------
(****************************************************************************)
(* A live capture on one pipeline: scripts/capture_live.py with its         *)
(* threads, and demo.py, which has the main thread only.                    *)
(*                                                                          *)
(* The main thread runs process_packet for every sniffed packet, a daemon   *)
(* thread of capture_live.py sweeps idle flows every few seconds, and       *)
(* Ctrl+C runs a handler that interrupts the main thread, flushes and       *)
(* exits; in demo.py the KeyboardInterrupt leaves capture_live and run_live *)
(* flushes.  Nothing is locked, so a step of this module is what the        *)
(* interpreter cannot interrupt: one operation on the dict, one read of a   *)
(* flow, one prediction.                                                    *)
(*                                                                          *)
(* A flow is a number, given in the order of creation, which is the order   *)
(* of the dict.  Packet timestamps and the wall clock are one clock here.   *)
(****************************************************************************)
EXTENDS Integers, Sequences, FiniteSets

CONSTANTS
  Keys,              \* canonical flow keys
  max_active_flows,
  Timeout,           \* timeout_for of every flow
  PredictRaises,     \* whether a prediction may raise
  Interrupts,        \* whether Ctrl+C is pressed
  Programs,          \* what runs: "capture_live", "demo"
  MaxFlows,          \* bound: flows created in all
  MaxTime            \* bound: ticks of the clock

ASSUME LiveCaptureAssumption ==
  /\ max_active_flows \in Nat \ {0}
  /\ Timeout \in Nat \ {0}
  /\ PredictRaises \in BOOLEAN /\ Interrupts \in BOOLEAN
  /\ Programs \subseteq {"capture_live", "demo"}
  /\ MaxFlows \in Nat /\ MaxTime \in Nat

Capture == "capture"
Sweeper == "sweeper"
Handler == "handler"
Threads == {Capture, Sweeper, Handler}

None == 0

VARIABLES
  table,      \* active_flows: key -> flow or None
  last_seen,  \* last_seen of every flow created
  clock,      \* the wall clock, and the timestamp of a packet that arrives
  pc,         \* where each thread is
  now,        \* the time each thread's timeout check works with
  snapshot,   \* items of the dict a timeout check has still to visit
  queue,      \* finalized flows each thread has still to score
  current,    \* the packet in hand: its key, whether it closes, its flow, ...
  scored      \* flows each thread has scored, in order

vars == <<table, last_seen, clock, pc, now, snapshot, queue, current, scored>>

created == Len(last_seen)
Occupied == { k \in Keys : table[k] # None }

(* list(active_flows.items()), in the order of creation. *)
Items ==
  [i \in 1 .. Cardinality(Occupied) |->
     LET k == CHOOSE k \in Occupied :
                Cardinality({ j \in Occupied : table[j] < table[k] }) = i - 1
     IN  [key |-> k, flow |-> table[k]]]

NoPacket == [key |-> CHOOSE k \in Keys : TRUE, closes |-> FALSE, flow |-> None, scan |-> {}]

(* Where the sweeper is when the capture starts: run_live of the demo       *)
(* starts none.                                                             *)
SweeperAtStart(program) == IF program = "capture_live" THEN "idle" ELSE "absent"

Init ==
  /\ table = [k \in Keys |-> None]
  /\ last_seen = <<>>
  /\ clock = 0
  /\ \E program \in Programs :
       pc = [t \in Threads |-> IF t = Sweeper THEN SweeperAtStart(program) ELSE "idle"]
  /\ now = [t \in Threads |-> 0]
  /\ snapshot = [t \in Threads |-> <<>>]
  /\ queue = [t \in Threads |-> <<>>]
  /\ current = NoPacket
  /\ scored = [t \in Threads |-> <<>>]

(* The process runs until the handler exits or the main thread dies; from   *)
(* the interrupt on, the main thread runs the handler only.                 *)
Running == pc[Handler] # "exited" /\ pc[Capture] # "dead"
Capturing == Running /\ pc[Handler] = "idle"
MayStep(t) == IF t = Capture THEN Capturing ELSE Running

At(t, label) == MayStep(t) /\ pc[t] = label
Goto(t, label) == pc' = [pc EXCEPT ![t] = label]

Tick ==
  /\ Running /\ clock < MaxTime
  /\ clock' = clock + 1
  /\ UNCHANGED <<table, last_seen, pc, now, snapshot, queue, current, scored>>

------------------------------------------------------------------------------
(* process_packet, add_packet part: main thread.                            *)

(* A packet arrives: look its flow up (flow_builder.py:159). *)
Receive(key, closes) ==
  /\ At(Capture, "idle")
  /\ table[key] = None => created < MaxFlows
  /\ current' = [NoPacket EXCEPT !.key = key, !.closes = closes, !.flow = table[key]]
  /\ now' = [now EXCEPT ![Capture] = clock]
  /\ Goto(Capture, IF table[key] = None THEN "admit" ELSE "apply")
  /\ UNCHANGED <<table, last_seen, clock, snapshot, queue, scored>>

(* Mutant: room is taken for granted when the table is just full. *)
AdmitWhenFull ==
  /\ At(Capture, "admit")
  /\ current' = [current EXCEPT !.scan = Occupied]
  /\ Goto(Capture, IF Cardinality(Occupied) <= max_active_flows THEN "insert" ELSE "scan")
  /\ UNCHANGED <<table, last_seen, clock, now, snapshot, queue, scored>>

(* _enforce_capacity: return when there is room, else scan for the oldest. *)
Admit ==
  /\ At(Capture, "admit")
  /\ current' = [current EXCEPT !.scan = Occupied]
  /\ Goto(Capture, IF Cardinality(Occupied) < max_active_flows THEN "insert" ELSE "scan")
  /\ UNCHANGED <<table, last_seen, clock, now, snapshot, queue, scored>>

(* min() over the dict raises when the dict shrinks under it, and popping   *)
(* the key it chose raises when another thread has popped that key ...      *)
ScanRaises ==
  /\ At(Capture, "scan")
  /\ Occupied # current.scan
  /\ Goto(Capture, "dead")
  /\ UNCHANGED <<table, last_seen, clock, now, snapshot, queue, current, scored>>

(* Mutant: the flow that makes room is counted but not returned. *)
EvictUnreturned ==
  /\ At(Capture, "scan")
  /\ \E k \in Occupied : table' = [table EXCEPT ![k] = None]
  /\ Goto(Capture, "insert")
  /\ UNCHANGED <<last_seen, clock, now, snapshot, queue, current, scored>>

(* ... otherwise the oldest of the flows that are there is popped.          *)
Evict ==
  /\ At(Capture, "scan")
  /\ \E k \in Occupied :
       /\ \A j \in Occupied \ {k} :
            \/ last_seen[table[k]] < last_seen[table[j]]
            \/ last_seen[table[k]] = last_seen[table[j]] /\ table[k] < table[j]
       /\ table' = [table EXCEPT ![k] = None]
       /\ queue' = [queue EXCEPT ![Capture] = Append(@, table[k])]
  /\ Goto(Capture, "insert")
  /\ UNCHANGED <<last_seen, clock, now, snapshot, current, scored>>

Insert ==
  /\ At(Capture, "insert")
  /\ last_seen' = Append(last_seen, now[Capture])
  /\ table' = [table EXCEPT ![current.key] = created + 1]
  /\ current' = [current EXCEPT !.flow = created + 1]
  /\ Goto(Capture, "apply")
  /\ UNCHANGED <<clock, now, snapshot, queue, scored>>

(* _apply_packet, on the flow that was looked up or created. *)
Apply ==
  /\ At(Capture, "apply")
  /\ last_seen' = [last_seen EXCEPT ![current.flow] = now[Capture]]
  /\ Goto(Capture, IF current.closes THEN "close" ELSE "score")
  /\ UNCHANGED <<table, clock, now, snapshot, queue, current, scored>>

(* FIN or RST: pop(key, None), whatever flow the key has now. *)
Close ==
  /\ At(Capture, "close")
  /\ table' = [table EXCEPT ![current.key] = None]
  /\ queue' = [queue EXCEPT ![Capture] = Append(@, current.flow)]
  /\ Goto(Capture, "score")
  /\ UNCHANGED <<last_seen, clock, now, snapshot, current, scored>>

------------------------------------------------------------------------------
(* check_timeouts: both threads.                                            *)

Snapshot(t) ==
  /\ snapshot' = [snapshot EXCEPT ![t] = Items]
  /\ Goto(t, "test")

(* process_packet goes on to check_timeouts once its flows are scored. *)
ThenCheckTimeouts ==
  /\ At(Capture, "score") /\ queue[Capture] = <<>>
  /\ Snapshot(Capture)
  /\ UNCHANGED <<table, last_seen, clock, now, queue, current, scored>>

(* The sweeper, past its look at stop_event, wakes up and calls             *)
(* check_idle_timeouts(time.time()).                                        *)
WakeUp ==
  /\ At(Sweeper, "idle")
  /\ now' = [now EXCEPT ![Sweeper] = clock]
  /\ Snapshot(Sweeper)
  /\ UNCHANGED <<table, last_seen, clock, queue, current, scored>>

(* Read a flow's last_seen; the flow may be anywhere by now. *)
Test(t) ==
  /\ At(t, "test") /\ snapshot[t] # <<>>
  /\ IF now[t] - last_seen[Head(snapshot[t]).flow] >= Timeout
       THEN Goto(t, "expire") /\ UNCHANGED snapshot
       ELSE snapshot' = [snapshot EXCEPT ![t] = Tail(@)] /\ UNCHANGED pc
  /\ UNCHANGED <<table, last_seen, clock, now, queue, current, scored>>

(* Mutant: the expired flow stays in the table. *)
ExpireWithoutPop(t) ==
  /\ At(t, "expire")
  /\ queue' = [queue EXCEPT ![t] = Append(@, Head(snapshot[t]).flow)]
  /\ snapshot' = [snapshot EXCEPT ![t] = Tail(@)]
  /\ Goto(t, "test")
  /\ UNCHANGED <<table, last_seen, clock, now, current, scored>>

(* pop(key, None), whether or not the flow is still there, and return it. *)
Expire(t) ==
  /\ At(t, "expire")
  /\ table' = [table EXCEPT ![Head(snapshot[t]).key] = None]
  /\ queue' = [queue EXCEPT ![t] = Append(@, Head(snapshot[t]).flow)]
  /\ snapshot' = [snapshot EXCEPT ![t] = Tail(@)]
  /\ Goto(t, "test")
  /\ UNCHANGED <<last_seen, clock, now, current, scored>>

Checked(t) ==
  /\ At(t, "test") /\ snapshot[t] = <<>>
  /\ Goto(t, "score last")
  /\ UNCHANGED <<table, last_seen, clock, now, snapshot, queue, current, scored>>

------------------------------------------------------------------------------
(* Scoring, and the handler.                                                *)

Scoring(t) == At(t, "score") \/ At(t, "score last")

Score(t) ==
  /\ Scoring(t) /\ queue[t] # <<>>
  /\ scored' = [scored EXCEPT ![t] = Append(@, Head(queue[t]))]
  /\ queue' = [queue EXCEPT ![t] = Tail(@)]
  /\ UNCHANGED <<table, last_seen, clock, pc, now, snapshot, current>>

(* An exception ends the thread it is raised in; raised in the main thread, *)
(* or in the handler that runs there, it ends the process.                  *)
PredictFails(t) ==
  /\ PredictRaises
  /\ Scoring(t) /\ queue[t] # <<>>
  /\ Goto(t, IF t = Handler THEN "exited" ELSE "dead")
  /\ UNCHANGED <<table, last_seen, clock, now, snapshot, queue, current, scored>>

(* Mutant: the sweeper sweeps once instead of in a loop. *)
DoneForGood(t) ==
  /\ At(t, "score last") /\ queue[t] = <<>>
  /\ Goto(t, IF t = Handler THEN "exited" ELSE IF t = Sweeper THEN "dead" ELSE "idle")
  /\ UNCHANGED <<table, last_seen, clock, now, snapshot, queue, current, scored>>

(* The call returns: the handler exits, the sweeper ends once stop_event is *)
(* set, and otherwise the next packet or the next sweep may come.           *)
Done(t) ==
  /\ At(t, "score last") /\ queue[t] = <<>>
  /\ Goto(t, IF t = Handler THEN "exited"
             ELSE IF pc[Handler] # "idle" THEN "dead" ELSE "idle")
  /\ UNCHANGED <<table, last_seen, clock, now, snapshot, queue, current, scored>>

(* Mutant: the values are not copied before the dict is cleared. *)
InterruptWithoutCopy ==
  /\ Interrupts /\ Capturing
  /\ Goto(Handler, "clear")
  /\ UNCHANGED <<table, last_seen, clock, now, snapshot, queue, current, scored>>

(* Ctrl+C between any two steps of the main thread: the sweeper, if there   *)
(* is one, is told to stop, and flush() takes the values of the dict ...    *)
Interrupt ==
  /\ Interrupts /\ Capturing
  /\ queue' = [queue EXCEPT ![Handler] = [i \in DOMAIN Items |-> Items[i].flow]]
  /\ Goto(Handler, "clear")
  /\ UNCHANGED <<table, last_seen, clock, now, snapshot, current, scored>>

(* ... and then clears it. *)
Clear ==
  /\ At(Handler, "clear")
  /\ table' = [k \in Keys |-> None]
  /\ Goto(Handler, "score last")
  /\ UNCHANGED <<last_seen, clock, now, snapshot, queue, current, scored>>

CheckSteps(t) == Test(t) \/ Expire(t) \/ Checked(t)
ScoreSteps(t) == Score(t) \/ PredictFails(t) \/ Done(t)

AddSteps == Admit \/ ScanRaises \/ Evict \/ Insert \/ Apply \/ Close
CaptureSteps == AddSteps \/ ThenCheckTimeouts \/ CheckSteps(Capture) \/ ScoreSteps(Capture)
SweeperSteps == WakeUp \/ CheckSteps(Sweeper) \/ ScoreSteps(Sweeper)
HandlerSteps == Clear \/ ScoreSteps(Handler)

Next ==
  \/ \E key \in Keys, closes \in BOOLEAN : Receive(key, closes)
  \/ CaptureSteps \/ SweeperSteps \/ HandlerSteps
  \/ Interrupt
  \/ Tick

Spec == Init /\ [][Next]_vars

(* Threads that can run do run, and the clock goes on; packets and Ctrl+C   *)
(* need never come.                                                         *)
FairSpec ==
  /\ Spec
  /\ WF_vars(CaptureSteps) /\ WF_vars(SweeperSteps) /\ WF_vars(HandlerSteps)
  /\ WF_vars(Tick)

------------------------------------------------------------------------------

Flows == 1 .. created
Elements(s) == { s[i] : i \in DOMAIN s }

(* Whatever the sweeper does in between, the check of the table's size and  *)
(* the insertion that follows it never put the table over its bound         *)
(* (flow_builder.py:24-28): threads other than the main one only remove.    *)
CapacityBound == Cardinality(Occupied) <= max_active_flows

(* A thread scores a flow at most once, and no flow is under two keys: the  *)
(* races double a flow between threads, never within one.                   *)
OncePerThread ==
  /\ \A t \in Threads :
       LET mine == scored[t] \o queue[t]
       IN  \A i, j \in DOMAIN mine : mine[i] = mine[j] => i = j
  /\ \A k, j \in Occupied : table[k] = table[j] => k = j

InTable(f) == \E k \in Keys : table[k] = f
IsIdle(f) == f \in Flows /\ clock - last_seen[f] >= Timeout

SingleThread == pc[Sweeper] = "absent"

Raised(t) == pc[t] \in {"dead", "exited"} /\ queue[t] # <<>>

(* capture_live.py:45-47: as long as the process runs, and no prediction of *)
(* the sweeper has raised, genuinely idle flows are expired, also when no   *)
(* packet ever comes again.                                                 *)
IdleLeavesTable ==
  \A f \in 1 .. MaxFlows :
    (InTable(f) /\ IsIdle(f) /\ ~SingleThread)
      ~> (~InTable(f) \/ ~IsIdle(f) \/ ~Running \/ Raised(Sweeper))

(* The same without the exception for the sweeper: one prediction that      *)
(* raises ends the thread (capture_live.py:47-54 catches nothing), and      *)
(* idle flows stay when no packet comes, as they do in demo.py, where       *)
(* nothing but packets and Ctrl+C ever ends a flow: MCLiveIdle.cfg refutes  *)
(* it.                                                                      *)
IdleAlwaysLeaves ==
  \A f \in 1 .. MaxFlows :
    (InTable(f) /\ IsIdle(f)) ~> (~InTable(f) \/ ~IsIdle(f) \/ ~Running)

(* capture_live.py:11: the flows that are active when the handler flushes   *)
(* are scored before the process exits, if no prediction of its own raises. *)
FlushScoresActive ==
  \A f \in 1 .. MaxFlows :
    (InTable(f) /\ pc[Handler] = "clear")
      ~> (f \in Elements(scored[Handler]) \/ Raised(Handler))

ScoredBy(t) == Elements(scored[t])

(* ingest/README.md:140: a flow is scored once.                             *)
ScoredOnce ==
  \A t, u \in Threads : t # u => ScoredBy(t) \cap ScoredBy(u) = {}

(* ... and not less than once: a flow is in the table, in the hands of a    *)
(* thread, or scored.                                                       *)
InHand(f) == (f = current.flow /\ pc[Capture] \in {"apply", "close"})
             \/ \E t \in Threads : f \in Elements(queue[t])
NoFlowVanishes ==
  \A f \in Flows : InTable(f) \/ InHand(f) \/ \E t \in Threads : f \in ScoredBy(t)

(* pipeline.py:98-99: flush at shutdown, "so no in-progress flow is         *)
(* silently dropped": at exit every flow has been scored.                   *)
NoneDroppedAtExit ==
  pc[Handler] = "exited" => \A f \in Flows : \E t \in Threads : f \in ScoredBy(t)

(* Every fault of the threads above is one of the sweeper beside the main   *)
(* thread.  Where there is none (demo.py:69-89), a capture interrupted at   *)
(* any step and flushed scores no flow twice, loses none from sight, and    *)
(* ends early only for a prediction that raised.                            *)
OneThreadIsClean ==
  SingleThread =>
    /\ ScoredOnce
    /\ NoFlowVanishes
    /\ pc[Capture] = "dead" => Raised(Capture)

(* flow_builder.py:26-28: when full, the oldest flow is expired before a    *)
(* new one is admitted, and the system never crashes on a flow burst.       *)
NeverCrashes == pc[Capture] # "dead"
==============================================================================
