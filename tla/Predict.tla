------------------------------- MODULE Predict -------------------------------
(****************************************************************************)
(* predict() of ml_dl/predict_interface.py, called by several threads: the  *)
(* model artifacts it loads on first use and the history of every host that *)
(* it keeps in module globals, without a lock.                              *)
(*                                                                          *)
(* A step is a load of one artifact, or one access to the shared globals.   *)
(* An append and a window take several such steps, and what other callers   *)
(* do comes in between.  What the models answer is left open: the route of  *)
(* a flow is any of the two.  A thread that raises starts over with its     *)
(* next call.                                                               *)
(****************************************************************************)
EXTENDS HostHistory

CONSTANTS
  Hosts,          \* source addresses of the flows
  Scenarios       \* callers of predict, artifacts that are on disk from the
                  \* start, and a bound on the calls: set of records
                  \* [callers, installed, max_calls]

(* The order of _lazy_load.  The last one is optional. *)
LoadOrder == <<"model", "scaler", "theta", "light", "heavy", "calibrator">>
Artifacts == { LoadOrder[i] : i \in DOMAIN LoadOrder }
Optional == {"calibrator"}
Pickles == {"model", "scaler", "theta"}

ASSUME PredictAssumption ==
  \A s \in Scenarios :
    IsFiniteSet(s.callers) /\ s.installed \subseteq Artifacts /\ s.max_calls \in Nat

VARIABLES
  scenario,   \* the one that this behaviour plays
  disk,       \* artifacts that are on disk
  loaded,     \* globals that are not None
  data,       \* _history._data
  deques,     \* the rows of every deque that append ever made
  pc,         \* where each thread is
  call,       \* the call each thread is in
  calls,      \* history: number of calls
  pushed,     \* history: the rows appended to the history, in order
  returned,   \* history: what the calls returned
  failed      \* history: the calls that raised

Threads == scenario.callers

(* The history of the hosts. *)
history == <<data, deques, pushed>>
vars == <<scenario, disk, loaded, history, pc, call, calls, returned, failed>>

NoCall == [row |-> 0, host |-> "none", next |-> 1, complete |-> FALSE,
           calibrated |-> FALSE, calibrator |-> FALSE, model_used |-> "none",
           deque |-> 0, sequence |-> <<>>]

Init ==
  /\ scenario \in Scenarios
  /\ disk = scenario.installed
  /\ loaded = {}
  /\ data = <<>> /\ deques = <<>>
  /\ pc = [t \in Threads |-> "idle"]
  /\ call = [t \in Threads |-> NoCall]
  /\ calls = 0
  /\ pushed = <<>>
  /\ returned = {}
  /\ failed = {}

Goto(t, label) == pc' = [pc EXCEPT ![t] = label]

(* An artifact that was missing is put on disk. *)
Install(artifact) ==
  /\ disk' = disk \cup {artifact}
  /\ UNCHANGED <<scenario, loaded, history, pc, call, calls, returned, failed>>

(* predict is called; _lazy_load returns at once when the model is there.   *)
Call(t, host) ==
  /\ pc[t] = "idle" /\ calls < scenario.max_calls
  /\ calls' = calls + 1
  /\ call' = [call EXCEPT ![t] =
       [NoCall EXCEPT !.row = calls + 1, !.host = host,
                      !.complete = Artifacts \ Optional \subseteq disk,
                      !.calibrator = "calibrator" \in disk]]
  /\ Goto(t, IF "model" \in loaded THEN "triage" ELSE "load")
  /\ UNCHANGED <<scenario, disk, loaded, history, returned, failed>>

Wanted(t) == LoadOrder[call[t].next]
Fail(t) == failed' = failed \cup {call[t]} /\ Goto(t, "idle")

LoadNext(t) ==
  /\ pc[t] = "load" /\ Wanted(t) \in disk \cup Optional
  /\ loaded' = loaded \cup ({Wanted(t)} \cap disk)
  /\ call' = [call EXCEPT ![t].next = @ + 1]
  /\ Goto(t, IF Wanted(t) = "calibrator" THEN "triage" ELSE "load")
  /\ UNCHANGED <<scenario, disk, history, calls, returned, failed>>

(* Mutant: the model stays loaded when a later artifact is missing. *)
KeepModel(t) ==
  /\ pc[t] = "load" /\ Wanted(t) \notin disk /\ Wanted(t) \in Pickles
  /\ Fail(t)
  /\ UNCHANGED <<scenario, disk, loaded, history, call, calls, returned>>

(* open() raises FileNotFoundError: the model is forgotten, for a retry.    *)
PickleMissing(t) ==
  /\ pc[t] = "load" /\ Wanted(t) \notin disk /\ Wanted(t) \in Pickles
  /\ loaded' = loaded \ {"model"}
  /\ Fail(t)
  /\ UNCHANGED <<scenario, disk, history, call, calls, returned>>

(* keras.models.load_model raises an error that is not a FileNotFoundError, *)
(* which the except clause does not catch.                                  *)
WeightsMissing(t) ==
  /\ pc[t] = "load" /\ Wanted(t) \notin disk /\ Wanted(t) \in {"light", "heavy"}
  /\ Fail(t)
  /\ UNCHANGED <<scenario, disk, loaded, history, call, calls, returned>>

(* A global that the next step uses is None: the step raises.               *)
Needs(t) ==
  CASE pc[t] = "triage" -> {"scaler", "theta"}
                             \cup (IF "calibrator" \in loaded THEN {} ELSE {"model"})
    [] pc[t] = "verify" -> {call[t].model_used}
    [] pc[t] = "explain" -> {"model"}
    [] OTHER -> {}

GlobalIsNone(t) ==
  /\ ~(Needs(t) \subseteq loaded)
  /\ Fail(t)
  /\ UNCHANGED <<scenario, disk, loaded, history, call, calls, returned>>

(* Confidence from the calibrator if there is one, route, scaled row. *)
Triage(t, model_used) ==
  /\ pc[t] = "triage" /\ Needs(t) \subseteq loaded
  /\ call' = [call EXCEPT ![t].calibrated = "calibrator" \in loaded,
                          ![t].model_used = model_used]
  /\ Goto(t, "append")
  /\ UNCHANGED <<scenario, disk, loaded, history, calls, returned, failed>>

(* What a step of append or window leaves alone besides. *)
Unshared == UNCHANGED <<scenario, disk, loaded, calls, returned, failed>>

(* append: whether the host is in the dict. *)
AskForHost(t) ==
  /\ pc[t] = "append"
  /\ Goto(t, IF Holds(data, call[t].host) THEN "move" ELSE "admit")
  /\ UNCHANGED <<history, call>> /\ Unshared

(* Mutant: one host too many. *)
AdmitOneMore(t) ==
  /\ pc[t] = "admit"
  /\ Goto(t, IF Len(data) > max_hosts THEN "evict" ELSE "insert")
  /\ UNCHANGED <<history, call>> /\ Unshared

(* append: whether the dict is full. *)
Admit(t) ==
  /\ pc[t] = "admit"
  /\ Goto(t, IF Len(data) >= max_hosts THEN "evict" ELSE "insert")
  /\ UNCHANGED <<history, call>> /\ Unshared

(* append: popitem(last=False). *)
EvictHost(t) ==
  /\ pc[t] = "evict" /\ data # <<>>
  /\ data' = Tail(data)
  /\ Goto(t, "insert")
  /\ UNCHANGED <<deques, pushed, call>> /\ Unshared

(* append: a new deque under the host. *)
InsertHost(t) ==
  /\ pc[t] = "insert"
  /\ deques' = Append(deques, <<>>)
  /\ data' = Insert(data, call[t].host, Len(deques'))
  /\ Goto(t, "lookup")
  /\ UNCHANGED <<pushed, call>> /\ Unshared

(* move_to_end, of append and of window. *)
Renew(t) ==
  /\ pc[t] \in {"move", "renew"} /\ Holds(data, call[t].host)
  /\ data' = MoveToEnd(data, call[t].host)
  /\ Goto(t, IF pc[t] = "move" THEN "lookup" ELSE "take")
  /\ UNCHANGED <<deques, pushed, call>> /\ Unshared

(* The deque under the host, to append the row to and to read the window.   *)
LookUp(t) ==
  /\ pc[t] \in {"lookup", "take"} /\ Holds(data, call[t].host)
  /\ call' = [call EXCEPT ![t].deque = DequeOf(data, call[t].host)]
  /\ Goto(t, IF pc[t] = "lookup" THEN "push" ELSE "read")
  /\ UNCHANGED history /\ Unshared

(* Mutant: only flows on the heavy route enter the history. *)
PushHeavyRow(t) ==
  /\ pc[t] = "push"
  /\ deques' = IF call[t].model_used = "light" THEN deques
               ELSE [deques EXCEPT ![call[t].deque] = Capped(Append(@, call[t].row))]
  /\ pushed' = Append(pushed, [host |-> call[t].host, row |-> call[t].row])
  /\ Goto(t, IF call[t].model_used = "light" THEN "verify" ELSE "window")
  /\ UNCHANGED <<data, call>> /\ Unshared

(* The deque's append; it is still the host's unless another caller evicted *)
(* or replaced it since.  Only the heavy route reads the window.            *)
PushRow(t) ==
  /\ pc[t] = "push"
  /\ deques' = [deques EXCEPT ![call[t].deque] = Capped(Append(@, call[t].row))]
  /\ pushed' = Append(pushed, [host |-> call[t].host, row |-> call[t].row])
  /\ Goto(t, IF call[t].model_used = "light" THEN "verify" ELSE "window")
  /\ UNCHANGED <<data, call>> /\ Unshared

(* window: the host is still there. *)
OpenWindow(t) ==
  /\ pc[t] = "window" /\ Holds(data, call[t].host)
  /\ Goto(t, "renew")
  /\ UNCHANGED <<history, call>> /\ Unshared

(* window: list(deque), which _sequence_for fills up. *)
ReadRows(t) ==
  /\ pc[t] = "read" /\ deques[call[t].deque] # <<>>
  /\ call' = [call EXCEPT ![t].sequence = Padded(deques[call[t].deque])]
  /\ Goto(t, "verify")
  /\ UNCHANGED history /\ Unshared

(* A KeyError, of popitem as well, or window[0] of an empty list: other     *)
(* callers have evicted the host since it was last seen, or one of them has *)
(* just given it a new deque.                                               *)
HostEvicted(t) ==
  /\ \/ /\ pc[t] \in {"move", "lookup", "window", "renew", "take"}
        /\ ~Holds(data, call[t].host)
     \/ pc[t] = "evict" /\ data = <<>>
     \/ pc[t] = "read" /\ deques[call[t].deque] = <<>>
  /\ Fail(t)
  /\ UNCHANGED <<scenario, disk, loaded, history, call, calls, returned>>

Verify(t) ==
  /\ pc[t] = "verify" /\ Needs(t) \subseteq loaded
  /\ Goto(t, "explain")
  /\ UNCHANGED <<scenario, disk, loaded, history, call, calls, returned, failed>>

(* top_features on the model, and the result. *)
Explain(t) ==
  /\ pc[t] = "explain" /\ Needs(t) \subseteq loaded
  /\ returned' = returned \cup {call[t]}
  /\ Goto(t, "idle")
  /\ UNCHANGED <<scenario, disk, loaded, history, call, calls, failed>>

LoadStep(t) == LoadNext(t) \/ PickleMissing(t) \/ WeightsMissing(t)
AppendStep(t) == AskForHost(t) \/ Admit(t) \/ EvictHost(t) \/ InsertHost(t) \/ PushRow(t)
WindowStep(t) == OpenWindow(t) \/ ReadRows(t)
ScoreStep(t) ==
  \/ \E model_used \in {"light", "heavy"} : Triage(t, model_used)
  \/ AppendStep(t) \/ Renew(t) \/ LookUp(t) \/ WindowStep(t) \/ Verify(t) \/ Explain(t)
ErrorStep(t) == GlobalIsNone(t) \/ HostEvicted(t)

Next ==
  \/ \E artifact \in Artifacts \ disk : Install(artifact)
  \/ \E t \in Threads :
       (\E host \in Hosts : Call(t, host)) \/ LoadStep(t) \/ ScoreStep(t) \/ ErrorStep(t)

Spec == Init /\ [][Next]_vars

------------------------------------------------------------------------------

(* predict is called by one thread only. *)
Alone == Cardinality(Threads) = 1

(* The hosts pushed after the i-th row and before the j-th.                 *)
Between(i, j) == { pushed[m].host : m \in i + 1 .. j - 1 }

Pushes(host) == { i \in DOMAIN pushed : pushed[i].host = host }

(* However the callers interleave, each but one can be between the length   *)
(* check and the insertion when the dict reaches max_hosts, so it overshoots *)
(* by that many hosts and no more (host_history.py:34-36).                  *)
HostsBounded == Len(data) <= max_hosts + Cardinality(Threads) - 1

(* However the callers interleave, the heavy model sees flows of the host   *)
(* it scores and of no other, in the order in which they entered the        *)
(* history and none twice but for the padding in front                      *)
(* (predict_interface.py:149-153): a deque that an eviction or another      *)
(* caller's insertion has cut off never receives another host's rows.       *)
SequencesInOrder ==
  \A c \in returned : c.model_used = "heavy" =>
    \E at \in [1 .. seq_len -> Pushes(c.host)] :
      /\ \A n \in 1 .. seq_len : c.sequence[n] = pushed[at[n]].row
      /\ \A n \in 1 .. seq_len - 1 :
           at[n] < at[n + 1] \/ (at[n] = at[1] /\ at[n + 1] = at[1])

(* With one caller, who is kept is decided by recency alone                 *)
(* (host_history.py:9-11): a host has rows exactly when fewer than          *)
(* max_hosts other hosts had a flow since its own latest one.               *)
MostRecentKept ==
  (Alone /\ \A t \in Threads : pc[t] = "idle") =>
    \A host \in Hosts :
      Holds(data, host) <=>
        \E i \in Pushes(host) :
          Cardinality(Between(i, Len(pushed) + 1) \ {host}) < max_hosts

(* The part of the host's past that its sequence at the k-th row can show:  *)
(* it starts with the row after the host was last forgotten.                *)
InContext(k) ==
  LET mine == Pushes(pushed[k].host)
      forgotten(j) == \E i \in mine : /\ i < j /\ mine \cap (i + 1 .. j - 1) = {}
                                      /\ Cardinality(Between(i, j)) >= max_hosts
  IN  { i \in mine : i <= k /\ \A j \in mine : i < j /\ j <= k => ~forgotten(j) }

(* predict_interface.py:97-100, data_utils.py:181-184: the sequence that    *)
(* the heavy model gets for a flow, from one caller, is the one that        *)
(* build_sequences makes of the same flows in one batch; an evicted host    *)
(* starts fresh, like a new one (host_history.py:12-15).                    *)
SequenceAsTrained ==
  \A c \in returned : (Alone /\ c.model_used = "heavy") =>
    \E k \in DOMAIN pushed :
      /\ pushed[k].row = c.row
      /\ LET first == CHOOSE i \in InContext(k) : \A j \in InContext(k) : i <= j
             table == SubSeq(pushed, first, k)
         IN  c.sequence = BuildSequences(table)[Len(table)]

(* predict_interface.py:82, "allow a retry after the missing file is        *)
(* fixed": a call that begins when every required artifact is on disk does  *)
(* not fail, whatever failed before.                                        *)
RetrySucceeds == Alone => \A c \in failed : ~c.complete

(* host_history.py:9-10, "the total number of hosts tracked is bounded to   *)
(* max_hosts": two callers insert a host each past one check.               *)
HostCap == Len(data) <= max_hosts

(* predict_interface.py:149-153, "Every flow updates history": what is kept *)
(* of a host ends with its latest row.  A row pushed to a deque that was    *)
(* replaced meanwhile is in no window.                                      *)
LatestRowKept ==
  \A i \in DOMAIN data :
    \/ deques[data[i].deque] = <<>>
    \/ LET rows == deques[data[i].deque]
           mine == Pushes(data[i].host)
           latest == CHOOSE k \in mine : \A m \in mine : m <= k
       IN  rows[Len(rows)] = pushed[latest].row

(* config.py:99-100, "Only past + current flows are ever used": a sequence  *)
(* ends with the flow that is being scored.                                 *)
EndsWithItself ==
  \A c \in returned : c.model_used = "heavy" => c.sequence[seq_len] = c.row

(* predict_interface.py:51 and 84-88: the raw confidence is used if the     *)
(* calibrator is missing.  A call that found it on disk uses it.            *)
CalibratedWhenTrained ==
  \A c \in returned : c.calibrator => c.calibrated
==============================================================================
