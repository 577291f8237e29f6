----------------------------- MODULE StreamReplay ------------------------------
(****************************************************************************)
(* scripts/replay_stream.py: the flows of a file are handed to predict one  *)
(* by one, at a given rate or as fast as they go, and alerts on those that  *)
(* are not benign are written to a file.  The threshold that predict routes *)
(* with, and the flows, are those of module ThresholdTuning.                *)
(*                                                                          *)
(* The clock counts ticks since `start`.  What is written goes into the     *)
(* buffer of the file object, which passes it on when it is full and when   *)
(* the file is closed.                                                      *)
(****************************************************************************)
EXTENDS ThresholdTuning

CONSTANTS
  Intervals,    \* ticks between two flows at the rates asked for, 0 for unpaced
  Durations,    \* ticks that predict may take for a flow
  BufferSize    \* alerts that the buffer of the output file holds

ASSUME StreamReplayAssumption ==
  /\ Intervals \subseteq Nat
  /\ Durations \subseteq Nat \ {0}
  /\ BufferSize \in Nat

VARIABLES
  interval,    \* 1 / rate
  time,        \* perf_counter() - start
  next_due,    \* when the next flow is due
  backlogged,  \* n_backlogged
  latencies,   \* what each call of predict took
  delivered,   \* history: when predict was called for each flow
  alerts,      \* history: flows with an alert, in order; n_alerts of them
  buffer,      \* alerts that are still in the file object ...
  out,         \* ... and those in the file
  phase        \* "running", "closed", "killed"

replayVars ==
  <<interval, time, next_due, backlogged, latencies, delivered, alerts, buffer, out, phase>>

ReplayInit ==
  /\ Init
  /\ interval \in Intervals
  /\ time = 0 /\ next_due = 0 /\ backlogged = 0
  /\ latencies = <<>> /\ delivered = <<>>
  /\ alerts = <<>> /\ buffer = <<>> /\ out = <<>>
  /\ phase = "running"

(* The threshold is tuned before the stream begins. *)
Tune == TuneTheta /\ phase = "running" /\ UNCHANGED replayVars

Sleeps == interval > 0 /\ next_due > time

(* Mutant: the next flow is due an interval after this one is handed on. *)
PaceFromNow ==
  /\ backlogged' = backlogged + (IF interval = 0 \/ Sleeps THEN 0 ELSE 1)
  /\ next_due' = (IF Sleeps THEN next_due ELSE time) + interval

(* A flow that need not be waited for is one that fell behind. *)
Pace ==
  /\ backlogged' = backlogged + (IF interval = 0 \/ Sleeps THEN 0 ELSE 1)
  /\ next_due' = next_due + interval

(* Mutant: a full buffer is written over. *)
WriteOver(alert) ==
  IF Len(buffer) < BufferSize
    THEN buffer' = Append(buffer, alert) /\ UNCHANGED out
    ELSE buffer' = <<alert>> /\ UNCHANGED out

(* What does not fit goes to the file with all that came before. *)
Write(alert) ==
  IF Len(buffer) < BufferSize
    THEN buffer' = Append(buffer, alert) /\ UNCHANGED out
    ELSE buffer' = <<>> /\ out' = out \o Append(buffer, alert)

(* Wait until the flow is due, predict, and write an alert unless benign. *)
ReplayFlow(duration, benign) ==
  LET at == IF Sleeps THEN next_due ELSE time IN
  /\ phase = "running"
  /\ Serve
  /\ Pace
  /\ time' = at + duration
  /\ latencies' = Append(latencies, duration)
  /\ delivered' = Append(delivered, at)
  /\ IF benign
       THEN UNCHANGED <<alerts, buffer, out>>
       ELSE alerts' = Append(alerts, Len(delivered')) /\ Write(Len(delivered'))
  /\ UNCHANGED <<interval, phase>>

(* Leaving the with statement closes the file: after the last flow, or when *)
(* predict raises or Ctrl+C comes while there are flows left.               *)
Close ==
  /\ phase = "running" /\ theta # {}
  /\ phase' = "closed"
  /\ out' = out \o buffer /\ buffer' = <<>>
  /\ UNCHANGED <<vars, interval, time, next_due, backlogged, latencies, delivered, alerts>>

Killed ==
  /\ phase = "running" /\ theta # {}
  /\ phase' = "killed"
  /\ buffer' = <<>>
  /\ UNCHANGED <<vars, interval, time, next_due, backlogged, latencies, delivered, alerts, out>>

ReplayNext ==
  \/ Tune
  \/ \E duration \in Durations, benign \in BOOLEAN : ReplayFlow(duration, benign)
  \/ Close
  \/ Killed

ReplaySpec == ReplayInit /\ [][ReplayNext]_<<vars, replayVars>>

------------------------------------------------------------------------------

Due(i) == (i - 1) * interval
Late == { i \in DOMAIN delivered : delivered[i] > Due(i) }

(* When the call before flow i returned, the flow was due or overdue.       *)
Overtaken(i) == i = 1 \/ delivered[i - 1] + latencies[i - 1] >= Due(i)

(* replay_stream.py:45-49: at a given rate no flow is handed on before its  *)
(* time, one that falls behind delays the schedule of no later one, and     *)
(* every late flow is counted, with no others but those that came up just   *)
(* when they were due, as the first does.                                   *)
PacedOrCounted ==
  interval > 0 =>
    /\ \A i \in DOMAIN delivered :
         delivered[i] = IF Overtaken(i) /\ i > 1
                          THEN delivered[i - 1] + latencies[i - 1] ELSE Due(i)
    /\ Cardinality(Late) <= backlogged
    /\ backlogged = Cardinality({ i \in DOMAIN delivered : Overtaken(i) })

(* replay_stream.py:10-12 and 117: however the script ends short of being   *)
(* killed, the file has every alert that was counted, once and in order.    *)
AlertsComplete == phase = "closed" => out = alerts

(* replay_stream.py:47-49, a flow is counted "if processing a flow takes    *)
(* longer than the inter-arrival budget": none is while no call does, and   *)
(* the summary says "kept up" (line 116).  The first flow is always         *)
(* counted: MCReplayFurther.cfg refutes it.                                 *)
KeptUp ==
  (interval > 0 /\ \A i \in DOMAIN latencies : latencies[i] < interval) => backlogged = 0

(* replay_stream.py:10-12, alerts are written "as they're generated -- not  *)
(* after the whole run finishes": a process that is killed leaves them in   *)
(* the file.  The file is never flushed: MCReplayFurther.cfg refutes it.    *)
WrittenAsGenerated == phase = "killed" => out = alerts
==============================================================================
