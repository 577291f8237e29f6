------------------------------ MODULE Training -------------------------------
(****************************************************************************)
(* The files in models/: what ml_dl/train_all.py and the stages that can    *)
(* be run by themselves (python -m ml_dl.train_xgboost, .calibration and    *)
(* .tune_threshold) write, and from what each file was made.                *)
(*                                                                          *)
(* What a model has learned is left out.  An artifact is its kind, the job  *)
(* that made it, and the artifacts it was made with.  A pickle names the    *)
(* class of an object by its module, which a job started with python -m     *)
(* calls __main__: what such a job makes of a class of its own, no other    *)
(* process can load.  Of these files that is the calibrator.  A save opens its file *)
(* for writing, which empties it, and then fills it; a job may end between  *)
(* any two steps -- by an exception, by Ctrl+C -- and jobs run one at a     *)
(* time.  Reports under reports/ and the SHAP smoke test leave models/      *)
(* alone and are left out.                                                  *)
(****************************************************************************)
EXTENDS Integers, Sequences

CONSTANT MaxJobs        \* bound: jobs started in all

ASSUME TrainingAssumption == MaxJobs \in Nat

Kinds == {"model", "scaler", "light", "heavy", "calibrator", "theta", "stats"}
Jobs == {"train_all", "train_xgboost", "calibration", "tune_threshold"}

VARIABLES
  disk,      \* kind -> artifact, for the files that are whole
  torn,      \* kinds whose file was opened for writing and never filled
  job,       \* the job that runs, or "none"
  runs,      \* number of jobs started
  memory,    \* kind -> artifact, the objects the job holds
  step,      \* the save the job is at
  writing,   \* whether that save has opened its file
  last,      \* history: the latest job to end, and whether it was completed
  intact     \* history: since a train_all was completed, only calibration and
             \* tune_threshold have written files

vars == <<disk, torn, job, runs, memory, step, writing, last, intact>>

Nothing == [k \in {} |-> 0]
With(files, kind, artifact) ==
  [k \in DOMAIN files \cup {kind} |-> IF k = kind THEN artifact ELSE files[k]]
Only(files, kinds) == [k \in DOMAIN files \cap kinds |-> files[k]]

(* Mutant: the threshold is tuned before the calibrator is there. *)
SavesTuningFirst(j) ==
  CASE j = "train_all" ->
         <<"model", "scaler", "light", "heavy", "theta", "stats", "calibrator">>
    [] j = "train_xgboost" -> <<"model", "scaler">>
    [] j = "calibration" -> <<"calibrator">>
    [] j = "tune_threshold" -> <<"theta", "stats">>

(* Mutant: tuning by itself fits a scaler of its own. *)
SavesOwnScaler(j) ==
  CASE j = "train_all" ->
         <<"model", "scaler", "light", "heavy", "calibrator", "theta", "stats">>
    [] j = "train_xgboost" -> <<"model", "scaler">>
    [] j = "calibration" -> <<"calibrator">>
    [] j = "tune_threshold" -> <<"scaler", "theta", "stats">>

(* The files each job writes, in order. *)
Saves(j) ==
  CASE j = "train_all" ->
         <<"model", "scaler", "light", "heavy", "calibrator", "theta", "stats">>
    [] j = "train_xgboost" -> <<"model", "scaler">>
    [] j = "calibration" -> <<"calibrator">>
    [] j = "tune_threshold" -> <<"theta", "stats">>

(* The files a job reads before anything else, and one it reads if it is    *)
(* there.  train_all makes everything it needs.                             *)
Reads(j) ==
  CASE j = "calibration" -> {"model"}
    [] j = "tune_threshold" -> {"model", "scaler", "light", "heavy"}
    [] OTHER -> {}
ReadsIfThere(j) == IF j = "tune_threshold" THEN {"calibrator"} ELSE {}

------------------------------------------------------------------------------
(* The stages: what they make from the objects the job holds.               *)

Artifact(kind, parts) == [kind |-> kind, run |-> runs, by |-> job, from |-> parts]

FitModel == Artifact("model", {})
FitScaler == Artifact("scaler", {})
TrainLight == Artifact("light", {memory["scaler"]})
TrainHeavy == Artifact("heavy", {memory["scaler"]})
FitCalibrator == Artifact("calibrator", {memory["model"]})

(* The probabilities that are routed on: calibrated ones if they can be. *)
RoutedOn(files) ==
  IF "calibrator" \in DOMAIN files THEN files["calibrator"] ELSE files["model"]

(* The threshold, and the sweep it was chosen from. *)
Tune(kind) ==
  Artifact(kind, {RoutedOn(memory), memory["scaler"], memory["light"], memory["heavy"]})

Make(kind) ==
  CASE kind = "model" -> FitModel
    [] kind = "scaler" -> FitScaler
    [] kind = "light" -> TrainLight
    [] kind = "heavy" -> TrainHeavy
    [] kind = "calibrator" -> FitCalibrator
    [] kind \in {"theta", "stats"} -> Tune(kind)

------------------------------------------------------------------------------

Init ==
  /\ disk = Nothing /\ torn = {}
  /\ job = "none" /\ runs = 0 /\ memory = Nothing /\ step = 1 /\ writing = FALSE
  /\ last = [job |-> "none", completed |-> FALSE]
  /\ intact = FALSE

(* _IsotonicCalibrator is __main__._IsotonicCalibrator to calibration.py    *)
(* run by itself, and ml_dl.calibration._IsotonicCalibrator to train_all.   *)
Loadable(artifact) == artifact.kind = "calibrator" => artifact.by # "calibration"

Readable(j) ==
  /\ Reads(j) \subseteq DOMAIN disk
  /\ ReadsIfThere(j) \cap torn = {}
  /\ \A k \in (Reads(j) \cup ReadsIfThere(j)) \cap DOMAIN disk : Loadable(disk[k])

Start(j) ==
  /\ job = "none" /\ runs < MaxJobs
  /\ Readable(j)
  /\ job' = j /\ runs' = runs + 1 /\ step' = 1
  /\ memory' = Only(disk, Reads(j) \cup ReadsIfThere(j))
  /\ UNCHANGED <<disk, torn, writing, last, intact>>

(* A file the job reads is missing or cannot be loaded: it ends at once. *)
CannotStart(j) ==
  /\ job = "none" /\ runs < MaxJobs
  /\ ~Readable(j)
  /\ runs' = runs + 1
  /\ last' = [job |-> j, completed |-> FALSE]
  /\ UNCHANGED <<disk, torn, job, memory, step, writing, intact>>

Wanted == Saves(job)[step]

(* Fit the next artifact and open its file for writing. *)
OpenFile ==
  /\ job # "none" /\ ~writing
  /\ memory' = With(memory, Wanted, Make(Wanted))
  /\ disk' = Only(disk, Kinds \ {Wanted})
  /\ torn' = torn \cup {Wanted}
  /\ writing' = TRUE
  /\ intact' = (intact /\ job \in {"calibration", "tune_threshold"})
  /\ UNCHANGED <<job, runs, step, last>>

Leave(completed) ==
  /\ job' = "none" /\ memory' = Nothing /\ step' = 1
  /\ last' = [job |-> job, completed |-> completed]

(* Fill it.  The last save completes the job. *)
FillFile ==
  /\ job # "none" /\ writing
  /\ disk' = With(disk, Wanted, memory[Wanted])
  /\ torn' = torn \ {Wanted}
  /\ writing' = FALSE
  /\ IF step < Len(Saves(job))
       THEN step' = step + 1 /\ UNCHANGED <<job, memory, last, intact>>
       ELSE Leave(TRUE) /\ intact' = (intact \/ job = "train_all")
  /\ UNCHANGED runs

(* The job ends early, by an exception or by Ctrl+C. *)
Abort ==
  /\ job # "none"
  /\ Leave(FALSE)
  /\ writing' = FALSE
  /\ UNCHANGED <<disk, torn, runs, intact>>

Next == (\E j \in Jobs : Start(j) \/ CannotStart(j)) \/ OpenFile \/ FillFile \/ Abort

Spec == Init /\ [][Next]_vars

------------------------------------------------------------------------------

Completed(jobs) == job = "none" /\ last.completed /\ last.job \in jobs

(* train_all.py:15-18, tune_threshold.py:54-61: once a tuning has been      *)
(* completed, by itself or as part of train_all, the threshold on disk was  *)
(* tuned on the very probabilities, networks and scaler that predict() will *)
(* load -- whatever earlier jobs left behind, half written files included.  *)
TunedAsDeployed ==
  Completed({"train_all", "tune_threshold"}) =>
    /\ "calibrator" \notin torn
    /\ disk["theta"].from =
         {RoutedOn(disk), disk["scaler"], disk["light"], disk["heavy"]}
    /\ disk["stats"].from = disk["theta"].from

(* From a completed train_all until a model or network is trained anew,     *)
(* jobs may calibrate and tune, fail and be cut off in any order: the       *)
(* networks keep the scaler they were trained with, and a calibrator that   *)
(* can be loaded wraps the model whose evidence predict() reports.          *)
MadeForEachOther ==
  intact =>
    /\ {"model", "scaler", "light", "heavy"} \subseteq DOMAIN disk
    /\ disk["light"].from = {disk["scaler"]} /\ disk["heavy"].from = {disk["scaler"]}
    /\ "calibrator" \in DOMAIN disk => disk["calibrator"].from = {disk["model"]}

(* tune_threshold.py:55-57, "this must be the same calibrator               *)
(* predict_interface.py will use at deployment time": at any time when no   *)
(* job runs and predict() could load, the threshold fits the calibrator.    *)
Deployable ==
  /\ {"model", "scaler", "theta", "light", "heavy"} \subseteq DOMAIN disk
  /\ "calibrator" \notin torn
  /\ "calibrator" \in DOMAIN disk => Loadable(disk["calibrator"])
SameCalibrator ==
  job = "none" /\ Deployable => RoutedOn(disk) \in disk["theta"].from

(* tune_threshold.py:176-178, "run `python -m ml_dl.calibration` first for  *)
(* a deployment-accurate threshold sweep": once that has been done, and     *)
(* the models are there, the sweep can be run.                              *)
CalibrationEnablesTuning ==
  Completed({"calibration"}) /\ Reads("tune_threshold") \subseteq DOMAIN disk
    => Readable("tune_threshold")
==============================================================================
