------------------------------- MODULE Serving -------------------------------
(****************************************************************************)
(* predict() beside the jobs that write models/: a process that scores      *)
(* flows loads six files one after the other on its first call, while jobs  *)
(* of module Training may run and be cut off, and keeps what it has loaded. *)
(*                                                                          *)
(* Module Predict has the threads of such a process and a disk on which     *)
(* files only appear; here there is one thread, and the files differ by     *)
(* what they were made from.                                                *)
(****************************************************************************)
EXTENDS Training

CONSTANTS
  MaxCalls,          \* bound: calls of predict that begin to load
  MaxJobsServing     \* bound: jobs started in all if there is such a call

ASSUME ServingAssumption == MaxCalls \in Nat /\ MaxJobsServing \in Nat

LoadOrder == <<"model", "scaler", "theta", "light", "heavy", "calibrator">>
Pickles == {"model", "scaler", "theta"}
Required == Pickles \cup {"light", "heavy"}

VARIABLES
  globals,    \* kind -> artifact, the module globals that are not None
  at,         \* the load that _lazy_load is at, 0 outside of it
  calls,      \* number of calls that began to load
  answered,   \* history: whether the latest call got as far as the models
  files       \* history: "tuned" if the latest load began when a threshold had
              \* just been tuned on an intact set of files, and "changed" if a
              \* file has changed since, during the load

serverVars == <<globals, at, calls, answered, files>>
allVars == <<vars, serverVars>>

ServingInit ==
  /\ Init
  /\ globals = Nothing /\ at = 0 /\ calls = 0
  /\ answered = FALSE /\ files = "other"

(* A job goes on beside the server. *)
Train ==
  /\ Next
  /\ calls > 0 => runs' <= MaxJobsServing
  /\ files' = IF at > 0 /\ files = "tuned" /\ disk' # disk THEN "changed" ELSE files
  /\ UNCHANGED <<globals, at, calls, answered>>

JustTuned == intact /\ Completed({"train_all", "tune_threshold"})

(* The first call, or one after the model was forgotten.                    *)
CallAndLoad ==
  /\ at = 0 /\ "model" \notin DOMAIN globals
  /\ calls < MaxCalls /\ runs <= MaxJobsServing
  /\ at' = 1 /\ calls' = calls + 1 /\ answered' = FALSE
  /\ files' = IF JustTuned THEN "tuned" ELSE "other"
  /\ UNCHANGED <<vars, globals>>

(* A call when _lazy_load returns at once: it answers if all that is needed *)
(* is there, and raises otherwise.                                          *)
CallAgain ==
  /\ at = 0 /\ "model" \in DOMAIN globals
  /\ answered' = (Required \subseteq DOMAIN globals)
  /\ UNCHANGED <<vars, globals, at, calls, files>>

File == LoadOrder[at]
FileLoads == File \in DOMAIN disk /\ Loadable(disk[File])

(* Mutant: what an earlier call has loaded is not loaded again. *)
LoadMissing ==
  /\ at > 0 /\ FileLoads
  /\ globals' = IF File \in DOMAIN globals THEN globals ELSE With(globals, File, disk[File])
  /\ IF at < Len(LoadOrder)
       THEN at' = at + 1 /\ UNCHANGED answered
       ELSE at' = 0 /\ answered' = TRUE
  /\ UNCHANGED <<vars, calls, files>>

Load ==
  /\ at > 0 /\ FileLoads
  /\ globals' = With(globals, File, disk[File])
  /\ IF at < Len(LoadOrder)
       THEN at' = at + 1 /\ UNCHANGED answered
       ELSE at' = 0 /\ answered' = TRUE
  /\ UNCHANGED <<vars, calls, files>>

NoCalibrator ==
  /\ at > 0 /\ File = "calibrator" /\ File \notin DOMAIN disk \cup torn
  /\ at' = 0 /\ answered' = TRUE
  /\ UNCHANGED <<vars, globals, calls, files>>

(* FileNotFoundError: the model is forgotten, so that the next call loads.  *)
FileNotFound ==
  /\ at > 0 /\ File \in Pickles \ (DOMAIN disk \cup torn)
  /\ globals' = Only(globals, Kinds \ {"model"})
  /\ at' = 0
  /\ UNCHANGED <<vars, calls, answered, files>>

(* EOFError of an empty file, AttributeError of a calibrator whose class is *)
(* not found, or keras's error for missing or empty weights: it leaves      *)
(* predict, and the globals stay as they are.                               *)
Unreadable ==
  /\ at > 0
  /\ \/ File \in torn
     \/ File \in {"light", "heavy"} \ DOMAIN disk
     \/ File \in DOMAIN disk /\ ~FileLoads
  /\ at' = 0
  /\ UNCHANGED <<vars, globals, calls, answered, files>>

(* The process ends, and another one is started. *)
NewServer ==
  /\ at = 0 /\ globals # Nothing
  /\ globals' = Nothing /\ answered' = FALSE /\ files' = "other"
  /\ UNCHANGED <<vars, at, calls>>

Serve == CallAndLoad \/ CallAgain \/ Load \/ NoCalibrator \/ FileNotFound \/ Unreadable

ServingNext == Train \/ Serve \/ NewServer

ServingSpec == ServingInit /\ [][ServingNext]_allVars

------------------------------------------------------------------------------

(* What is loaded belongs together: the threshold was tuned on the          *)
(* probabilities, scaler and networks that it routes, the networks were     *)
(* trained with the scaler, and a calibrator wraps the model that explains. *)
Fits(set) ==
  /\ set["theta"].from = {RoutedOn(set), set["scaler"], set["light"], set["heavy"]}
  /\ set["light"].from = {set["scaler"]} /\ set["heavy"].from = {set["scaler"]}
  /\ "calibrator" \in DOMAIN set => set["calibrator"].from = {set["model"]}

(* predict_interface.py:82 and 84-88: whatever calls failed before and      *)
(* whatever jobs run afterwards, a process that loaded while the files were *)
(* complete, tuned and left alone answers with files made for each other.   *)
ServedFits == answered /\ files = "tuned" => Fits(globals)

(* ... and so does one whose load a retrain overtook. *)
LoadIsAtomic == answered /\ files \in {"tuned", "changed"} => Fits(globals)

(* predict_interface.py:166-170, "This explains the XGBoost TRIAGE          *)
(* verdict": the model that is explained is the one whose verdict is given. *)
EvidenceExplainsTriage ==
  answered /\ "calibrator" \in DOMAIN globals =>
    globals["calibrator"].from = {globals["model"]}

(* predict_interface.py:82, "allow a retry after the missing file is        *)
(* fixed": a process that once failed to load can load when all is there.   *)
RepairHelps ==
  (at = 0 /\ JustTuned /\ "model" \in DOMAIN globals) => Required \subseteq DOMAIN globals
==============================================================================
