---------------------------- MODULE ServingProofs ----------------------------
(****************************************************************************)
(* The files of models/ and the process that serves them, for any number of *)
(* jobs, calls and interruptions: a tuned threshold fits what it was tuned  *)
(* on, the files of an intact set were made for each other, and a process   *)
(* that loads such a set answers with it.                                   *)
(****************************************************************************)
EXTENDS Serving, TLAPS

------------------------------------------------------------------------------
(* The invariant of the jobs                                                *)

Sources(j) == Reads(j) \cup ReadsIfThere(j)

(* What a job has saved before its n-th save, what the running job has      *)
(* saved, and what it has made.                                             *)
Before(j, n) == { Saves(j)[i] : i \in 1 .. n - 1 }
Saved == Before(job, step)
Made == Saved \cup (IF writing THEN {Wanted} ELSE {})

(* What a job made, it made from what it holds.                             *)
MadeFromMemory(k) ==
  /\ k \in {"light", "heavy"} =>
       "scaler" \in DOMAIN memory /\ memory[k].from = {memory["scaler"]}
  /\ k = "calibrator" =>
       "model" \in DOMAIN memory /\ memory[k].from = {memory["model"]} /\ memory[k].by = job
  /\ k \in {"theta", "stats"} =>
       /\ {"model", "scaler", "light", "heavy"} \subseteq DOMAIN memory
       /\ memory[k].from =
            {RoutedOn(memory), memory["scaler"], memory["light"], memory["heavy"]}

(* What the running job has read or saved is on disk as the job holds it.   *)
JobInv ==
  /\ step \in 1 .. Len(Saves(job))
  /\ \A k \in Saved \cup Sources(job) :
       /\ k \in DOMAIN disk <=> k \in DOMAIN memory
       /\ k \in DOMAIN disk => disk[k] = memory[k]
  /\ Saved \cup Reads(job) \subseteq DOMAIN disk
  /\ ReadsIfThere(job) \cap torn = {}
  /\ \A k \in Sources(job) \cap DOMAIN disk : Loadable(disk[k])
  /\ writing => Wanted \in DOMAIN memory
  /\ \A k \in Made : MadeFromMemory(k)
  /\ intact => job \in {"calibration", "tune_threshold"} \/ (step = 1 /\ ~writing)

DiskFits ==
  /\ disk["theta"].from =
       {RoutedOn(disk), disk["scaler"], disk["light"], disk["heavy"]}
  /\ disk["stats"].from = disk["theta"].from

(* What a completed tuning leaves.                                          *)
TunedInv ==
  Completed({"train_all", "tune_threshold"}) =>
    /\ "calibrator" \notin torn /\ {"theta", "stats"} \subseteq DOMAIN disk
    /\ "calibrator" \in DOMAIN disk => Loadable(disk["calibrator"])
    /\ DiskFits

TrainingInv ==
  /\ job \in Jobs \cup {"none"}
  /\ DOMAIN disk \cap torn = {}
  /\ job = "none" => ~writing
  /\ job # "none" => JobInv
  /\ MadeForEachOther
  /\ TunedInv

------------------------------------------------------------------------------
(* The invariant of the server                                              *)

Loaded == { LoadOrder[i] : i \in 1 .. at - 1 }

(* A set of files that can be loaded and fits together.                     *)
Servable ==
  /\ Required \subseteq DOMAIN disk
  /\ Fits(disk)
  /\ "calibrator" \in DOMAIN disk => Loadable(disk["calibrator"])

(* A server loads once: what is loaded last is there only when a load has   *)
(* got that far, and then the model is there and no load begins again.      *)
LoadsOnce ==
  /\ at \in 0 .. Len(LoadOrder)
  /\ at = 0 /\ "model" \notin DOMAIN globals => DOMAIN globals \subseteq Pickles
  /\ at > 0 => /\ Loaded \subseteq DOMAIN globals
               /\ DOMAIN globals \subseteq Pickles \cup Loaded
               /\ ~answered
  /\ answered => Required \subseteq DOMAIN globals

(* While the files of a tuned set are as they were, what has been loaded is *)
(* what is on disk.                                                         *)
ServerInv ==
  /\ LoadsOnce
  /\ files = "tuned" /\ at > 0 =>
       /\ Servable
       /\ \A k \in Loaded : globals[k] = disk[k]
  /\ files = "tuned" /\ at = 0 /\ Required \subseteq DOMAIN globals => Fits(globals)

------------------------------------------------------------------------------
(* The order of the saves                                                   *)

(* A job saves each file once, after what the file is made from and before  *)
(* what is made from it.                                                    *)
LEMMA SaveOrder ==
  ASSUME NEW j \in Jobs, NEW n \in 1 .. Len(Saves(j)), NEW kind, kind = Saves(j)[n]
  PROVE  /\ kind \in Kinds /\ Before(j, n) \subseteq Kinds
         /\ kind \notin Before(j, n) \cup Sources(j)
         /\ kind = "scaler" => Before(j, n) \cap {"light", "heavy", "theta", "stats"} = {}
         /\ kind = "model" => Before(j, n) \cap {"calibrator", "theta", "stats"} = {}
         /\ kind \in {"light", "heavy", "calibrator"} => Before(j, n) \cap {"theta", "stats"} = {}
<1>1. CASE j = "train_all"
  <2> DEFINE seq == <<"model", "scaler", "light", "heavy", "calibrator", "theta", "stats">>
  <2>1. Saves(j) = seq /\ Len(seq) = 7 /\ Sources(j) = {}
    BY <1>1 DEF Saves, Sources, Reads, ReadsIfThere
  <2>2. /\ seq[1] = "model" /\ seq[2] = "scaler" /\ seq[3] = "light" /\ seq[4] = "heavy"
        /\ seq[5] = "calibrator" /\ seq[6] = "theta" /\ seq[7] = "stats"
    OBVIOUS
  <2>3. n \in 1 .. 7 /\ kind = seq[n] /\ Before(j, n) = { seq[i] : i \in 1 .. n - 1 }
    BY <2>1 DEF Before
  <2> HIDE DEF seq
  <2>4. n \in {1, 2, 3, 4, 5, 6, 7} /\ 1 .. n - 1 \subseteq { i \in {1, 2, 3, 4, 5, 6} : i < n }
    BY <2>3
  <2>5. \A b \in Before(j, n) : \E i \in {1, 2, 3, 4, 5, 6} : i < n /\ b = seq[i]
    BY <2>3, <2>4
  <2>6. kind \in Kinds /\ Before(j, n) \subseteq Kinds
    BY <2>2, <2>3, <2>4, <2>5 DEF Kinds
  <2>7. \A b \in Before(j, n) :
          /\ b # kind
          /\ kind = "scaler" => b \notin {"light", "heavy", "theta", "stats"}
          /\ kind = "model" => b \notin {"calibrator", "theta", "stats"}
          /\ kind \in {"light", "heavy", "calibrator"} => b \notin {"theta", "stats"}
    <3> TAKE b \in Before(j, n)
    <3>1. PICK i \in {1, 2, 3, 4, 5, 6} : i < n /\ b = seq[i]
      BY <2>5
    <3>2. CASE i = 1
      BY <2>2, <2>3, <2>4, <3>1, <3>2
    <3>3. CASE i = 2
      BY <2>2, <2>3, <2>4, <3>1, <3>3
    <3>4. CASE i = 3
      BY <2>2, <2>3, <2>4, <3>1, <3>4
    <3>5. CASE i = 4
      BY <2>2, <2>3, <2>4, <3>1, <3>5
    <3>6. CASE i = 5
      BY <2>2, <2>3, <2>4, <3>1, <3>6
    <3>7. CASE i = 6
      BY <2>2, <2>3, <2>4, <3>1, <3>7
    <3> QED BY <3>1, <3>2, <3>3, <3>4, <3>5, <3>6, <3>7
  <2> QED BY <2>1, <2>6, <2>7
<1>2. CASE j = "train_xgboost"
  <2> DEFINE seq == <<"model", "scaler">>
  <2>1. Saves(j) = seq /\ Len(seq) = 2 /\ Sources(j) = {} /\ seq[1] = "model" /\ seq[2] = "scaler"
    BY <1>2 DEF Saves, Sources, Reads, ReadsIfThere
  <2>2. n \in 1 .. 2 /\ kind = seq[n] /\ Before(j, n) = { seq[i] : i \in 1 .. n - 1 }
    BY <2>1 DEF Before
  <2> HIDE DEF seq
  <2>3. n \in {1, 2} /\ \A b \in Before(j, n) : n = 2 /\ b = seq[1]
    BY <2>2
  <2> QED BY <2>1, <2>2, <2>3 DEF Kinds
<1>3. CASE j = "calibration"
  <2> DEFINE seq == <<"calibrator">>
  <2>1. Saves(j) = seq /\ Len(seq) = 1 /\ Sources(j) = {"model"} /\ seq[1] = "calibrator"
    BY <1>3 DEF Saves, Sources, Reads, ReadsIfThere
  <2>2. n = 1 /\ kind = seq[n] /\ Before(j, n) = { seq[i] : i \in 1 .. n - 1 }
    BY <2>1 DEF Before
  <2> HIDE DEF seq
  <2>3. 1 .. n - 1 = {}
    BY <2>2
  <2>4. Before(j, n) = {}
    BY <2>2, <2>3
  <2> QED BY <2>1, <2>2, <2>4 DEF Kinds
<1>4. CASE j = "tune_threshold"
  <2> DEFINE seq == <<"theta", "stats">>
  <2>1. /\ Saves(j) = seq /\ Len(seq) = 2 /\ seq[1] = "theta" /\ seq[2] = "stats"
        /\ Sources(j) = {"model", "scaler", "light", "heavy", "calibrator"}
    BY <1>4 DEF Saves, Sources, Reads, ReadsIfThere
  <2>2. n \in 1 .. 2 /\ kind = seq[n] /\ Before(j, n) = { seq[i] : i \in 1 .. n - 1 }
    BY <2>1 DEF Before
  <2> HIDE DEF seq
  <2>3. n \in {1, 2} /\ \A b \in Before(j, n) : n = 2 /\ b = seq[1]
    BY <2>2
  <2> QED BY <2>1, <2>2, <2>3 DEF Kinds
<1> QED BY <1>1, <1>2, <1>3, <1>4 DEF Jobs

LEMMA SaveNeeds ==
  ASSUME NEW j \in Jobs, NEW n \in 1 .. Len(Saves(j)), NEW kind, kind = Saves(j)[n]
  PROVE  /\ kind \in {"light", "heavy"} => "scaler" \in Before(j, n) \cup Reads(j)
         /\ kind = "calibrator" => "model" \in Before(j, n) \cup Reads(j)
         /\ kind \in {"theta", "stats"} =>
              {"model", "scaler", "light", "heavy"} \subseteq Before(j, n) \cup Reads(j)
<1>1. CASE j = "train_all"
  <2> DEFINE seq == <<"model", "scaler", "light", "heavy", "calibrator", "theta", "stats">>
  <2>1. Saves(j) = seq /\ Len(seq) = 7
    BY <1>1 DEF Saves
  <2>2. /\ seq[1] = "model" /\ seq[2] = "scaler" /\ seq[3] = "light" /\ seq[4] = "heavy"
        /\ seq[5] = "calibrator" /\ seq[6] = "theta" /\ seq[7] = "stats"
    OBVIOUS
  <2>3. n \in 1 .. 7 /\ kind = seq[n] /\ Before(j, n) = { seq[i] : i \in 1 .. n - 1 }
    BY <2>1 DEF Before
  <2> HIDE DEF seq
  <2>4. n \in {1, 2, 3, 4, 5, 6, 7} /\ \A i \in {1, 2, 3, 4} : i < n => i \in 1 .. n - 1
    BY <2>3
  <2>5. \A i \in {1, 2, 3, 4} : i < n => seq[i] \in Before(j, n)
    BY <2>3, <2>4
  <2>6. kind \in {"light", "heavy"} => n \in {3, 4}
    BY <2>2, <2>3, <2>4
  <2>7. kind = "calibrator" => n = 5
    BY <2>2, <2>3, <2>4
  <2>8. kind \in {"theta", "stats"} => n \in {6, 7}
    BY <2>2, <2>3, <2>4
  <2> QED BY <2>2, <2>5, <2>6, <2>7, <2>8
<1>2. CASE j = "train_xgboost"
  <2> DEFINE seq == <<"model", "scaler">>
  <2>1. Saves(j) = seq /\ Len(seq) = 2 /\ seq[1] = "model" /\ seq[2] = "scaler"
    BY <1>2 DEF Saves
  <2>2. n \in {1, 2} /\ kind = seq[n]
    BY <2>1
  <2> HIDE DEF seq
  <2> QED BY <2>1, <2>2
<1>3. CASE j = "calibration"
  <2> DEFINE seq == <<"calibrator">>
  <2>1. Saves(j) = seq /\ Len(seq) = 1 /\ Reads(j) = {"model"} /\ seq[1] = "calibrator"
    BY <1>3 DEF Saves, Reads
  <2>2. kind = seq[1]
    BY <2>1
  <2> HIDE DEF seq
  <2> QED BY <2>1, <2>2
<1>4. CASE j = "tune_threshold"
  <2> DEFINE seq == <<"theta", "stats">>
  <2>1. /\ Saves(j) = seq /\ Len(seq) = 2 /\ seq[1] = "theta" /\ seq[2] = "stats"
        /\ Reads(j) = {"model", "scaler", "light", "heavy"}
    BY <1>4 DEF Saves, Reads
  <2>2. n \in {1, 2} /\ kind = seq[n]
    BY <2>1
  <2> HIDE DEF seq
  <2> QED BY <2>1, <2>2
<1> QED BY <1>1, <1>2, <1>3, <1>4 DEF Jobs

LEMMA OneSaved ==
  ASSUME NEW j \in Jobs, NEW n \in 1 .. Len(Saves(j))
  PROVE  /\ Before(j, 1) = {}
         /\ Before(j, n + 1) = Before(j, n) \cup {Saves(j)[n]}
<1>1. Len(Saves(j)) \in Nat
  BY DEF Saves, Jobs
<1>2. n \in Nat /\ 1 .. (n + 1) - 1 = (1 .. n - 1) \cup {n} /\ 1 .. 1 - 1 = {}
  BY <1>1
<1> QED BY <1>2 DEF Before

(* What the jobs that may leave a set of files intact save, and what is     *)
(* saved once a job is completed.                                           *)
LEMMA WhatIsSaved ==
  ASSUME NEW j \in Jobs, NEW n \in Nat, n = Len(Saves(j))
  PROVE  /\ n > 0
         /\ j = "train_all" => Before(j, n + 1) = Kinds
         /\ j = "tune_threshold" => Before(j, n + 1) = {"theta", "stats"}
         /\ j = "calibration" => Before(j, n + 1) = {"calibrator"}
<1>1. n > 0
  BY DEF Saves, Jobs
<1>2. ASSUME j = "train_all" PROVE Before(j, n + 1) = Kinds
  <2> DEFINE seq == <<"model", "scaler", "light", "heavy", "calibrator", "theta", "stats">>
  <2>1. Saves(j) = seq /\ n = 7
    BY <1>2 DEF Saves
  <2>2. Before(j, n + 1) = { seq[i] : i \in 1 .. 7 }
    BY <2>1 DEF Before
  <2>3. 1 .. 7 = {1, 2, 3, 4, 5, 6, 7}
    OBVIOUS
  <2>4. { seq[i] : i \in 1 .. 7 } = Kinds
    BY <2>3 DEF Kinds
  <2> QED BY <2>2, <2>4
<1>3. ASSUME j = "tune_threshold" PROVE Before(j, n + 1) = {"theta", "stats"}
  <2> DEFINE seq == <<"theta", "stats">>
  <2>1. Saves(j) = seq /\ n = 2
    BY <1>3 DEF Saves
  <2>2. Before(j, n + 1) = { seq[i] : i \in 1 .. 2 }
    BY <2>1 DEF Before
  <2>3. 1 .. 2 = {1, 2}
    OBVIOUS
  <2>4. { seq[i] : i \in 1 .. 2 } = {"theta", "stats"}
    BY <2>3
  <2> QED BY <2>2, <2>4
<1>4. ASSUME j = "calibration" PROVE Before(j, n + 1) = {"calibrator"}
  <2>1. Saves(j) = <<"calibrator">> /\ n = 1 /\ 1 .. (n + 1) - 1 = {1}
    BY <1>4 DEF Saves
  <2> QED BY <2>1 DEF Before
<1> QED BY <1>1, <1>2, <1>3, <1>4

(* What a job holds changes by one artifact: what was made before stays as  *)
(* it was, from what the job holds.                                         *)
LEMMA OpenMakes ==
  ASSUME TrainingInv, OpenFile
  PROVE  \A k \in Saved \cup {Wanted} : MadeFromMemory(k)'
<1>1. /\ job \in Jobs /\ step \in 1 .. Len(Saves(job)) /\ ~writing /\ job' = job
      /\ memory' = With(memory, Wanted, Make(Wanted))
      /\ Saved \cup Reads(job) \subseteq DOMAIN memory
      /\ \A k \in Saved : MadeFromMemory(k)
  BY DEF OpenFile, TrainingInv, JobInv, Made, Sources
<1>2. PICK kind : kind = Wanted
  OBVIOUS
<1>3. PICK made : made = Make(kind)
  OBVIOUS
<1>4. /\ DOMAIN memory' = DOMAIN memory \cup {kind} /\ memory'[kind] = made
      /\ \A k \in DOMAIN memory \ {kind} : memory'[k] = memory[k]
  <2>1. memory' = With(memory, kind, made)
    BY <1>1, <1>2, <1>3
  <2> QED BY <2>1 DEF With
<1>5. /\ kind \notin Saved
      /\ kind = "scaler" => Saved \cap {"light", "heavy", "theta", "stats"} = {}
      /\ kind = "model" => Saved \cap {"calibrator", "theta", "stats"} = {}
      /\ kind \in {"light", "heavy", "calibrator"} => Saved \cap {"theta", "stats"} = {}
  BY <1>1, <1>2, SaveOrder DEF Saved, Wanted
<1>6. /\ kind \in {"light", "heavy"} => "scaler" \in DOMAIN memory
      /\ kind = "calibrator" => "model" \in DOMAIN memory
      /\ kind \in {"theta", "stats"} =>
           {"model", "scaler", "light", "heavy"} \subseteq DOMAIN memory
  BY <1>1, <1>2, SaveNeeds DEF Saved, Wanted
<1>7. kind \notin {"model", "calibrator"} /\ "model" \in DOMAIN memory =>
        RoutedOn(memory') = RoutedOn(memory)
  BY <1>4 DEF RoutedOn
<1>8. ASSUME NEW k \in Saved PROVE MadeFromMemory(k)'
  <2>1. MadeFromMemory(k) /\ k # kind /\ k \in DOMAIN memory
    BY <1>1, <1>5
  <2>2. memory'[k] = memory[k]
    BY <1>4, <2>1
  <2>3. k \in {"light", "heavy"} =>
          "scaler" \in DOMAIN memory' /\ memory'[k].from = {memory'["scaler"]}
    BY <1>4, <1>5, <2>1, <2>2 DEF MadeFromMemory
  <2>4. k = "calibrator" =>
          "model" \in DOMAIN memory' /\ memory'[k].from = {memory'["model"]} /\ memory'[k].by = job'
    BY <1>1, <1>4, <1>5, <2>1, <2>2 DEF MadeFromMemory
  <2>5. k \in {"theta", "stats"} =>
          /\ {"model", "scaler", "light", "heavy"} \subseteq DOMAIN memory'
          /\ memory'[k].from =
               {RoutedOn(memory'), memory'["scaler"], memory'["light"], memory'["heavy"]}
    <3> SUFFICES ASSUME k \in {"theta", "stats"}
                 PROVE  /\ {"model", "scaler", "light", "heavy"} \subseteq DOMAIN memory'
                        /\ memory'[k].from =
                          {RoutedOn(memory'), memory'["scaler"], memory'["light"], memory'["heavy"]}
      OBVIOUS
    <3>1. /\ {"model", "scaler", "light", "heavy"} \subseteq DOMAIN memory
          /\ memory[k].from =
               {RoutedOn(memory), memory["scaler"], memory["light"], memory["heavy"]}
      BY <2>1 DEF MadeFromMemory
    <3>2. kind \notin {"model", "scaler", "light", "heavy", "calibrator"}
      BY <1>5
    <3> QED BY <1>4, <1>7, <2>2, <3>1, <3>2
  <2> QED BY <2>3, <2>4, <2>5 DEF MadeFromMemory
<1>9. MadeFromMemory(kind)'
  <2>1. kind \in {"light", "heavy"} =>
          "scaler" \in DOMAIN memory' /\ memory'[kind].from = {memory'["scaler"]}
    <3>1. kind \in {"light", "heavy"} => made.from = {memory["scaler"]}
      BY <1>3 DEF Make, TrainLight, TrainHeavy, Artifact
    <3> QED BY <1>4, <1>6, <3>1
  <2>2. kind = "calibrator" =>
          /\ "model" \in DOMAIN memory' /\ memory'[kind].from = {memory'["model"]}
          /\ memory'[kind].by = job'
    <3>1. kind = "calibrator" => made.from = {memory["model"]} /\ made.by = job
      BY <1>3 DEF Make, FitCalibrator, Artifact
    <3> QED BY <1>1, <1>4, <1>6, <3>1
  <2>3. kind \in {"theta", "stats"} =>
          /\ {"model", "scaler", "light", "heavy"} \subseteq DOMAIN memory'
          /\ memory'[kind].from =
               {RoutedOn(memory'), memory'["scaler"], memory'["light"], memory'["heavy"]}
    <3>1. kind \in {"theta", "stats"} =>
            made.from = {RoutedOn(memory), memory["scaler"], memory["light"], memory["heavy"]}
      BY <1>3 DEF Make, Tune, Artifact
    <3> QED BY <1>4, <1>6, <1>7, <3>1
  <2> QED BY <2>1, <2>2, <2>3 DEF MadeFromMemory
<1> QED BY <1>2, <1>8, <1>9

LEMMA OpenKeeps ==
  ASSUME TrainingInv, OpenFile
  PROVE  TrainingInv'
<1>1. /\ job \in Jobs /\ job # "none" /\ step \in 1 .. Len(Saves(job))
      /\ job' = job /\ step' = step /\ ~writing /\ writing' = TRUE
      /\ memory' = With(memory, Wanted, Make(Wanted))
      /\ disk' = Only(disk, Kinds \ {Wanted}) /\ torn' = torn \cup {Wanted}
      /\ DOMAIN disk \cap torn = {} /\ MadeForEachOther /\ JobInv
  BY DEF OpenFile, TrainingInv, JobInv
<1>2. PICK kind : kind = Wanted
  OBVIOUS
<1>3. Saved' = Saved /\ Wanted' = kind /\ Made' = Saved \cup {kind}
  BY <1>1, <1>2 DEF Saved, Wanted, Made
<1>4. /\ kind \in Kinds /\ Saved \subseteq Kinds /\ kind \notin Saved \cup Sources(job)
  BY <1>1, <1>2, SaveOrder DEF Saved, Wanted
<1>5. Sources(job) \subseteq Kinds
  BY DEF Sources, Reads, ReadsIfThere, Kinds
<1>6. /\ DOMAIN disk' = DOMAIN disk \cap (Kinds \ {kind})
      /\ \A k \in DOMAIN disk' : disk'[k] = disk[k]
  BY <1>1, <1>2 DEF Only
<1>7. /\ DOMAIN memory' = DOMAIN memory \cup {kind}
      /\ \A k \in DOMAIN memory \ {kind} : memory'[k] = memory[k]
  <2>1. PICK made : made = Make(Wanted)
    OBVIOUS
  <2>2. memory' = With(memory, kind, made)
    BY <1>1, <1>2, <2>1
  <2> QED BY <2>2 DEF With
<1>8. \A k \in Saved \cup Sources(job) :
        /\ k \in DOMAIN disk' <=> k \in DOMAIN memory'
        /\ k \in DOMAIN disk' => disk'[k] = memory'[k]
  BY <1>1, <1>4, <1>5, <1>6, <1>7 DEF JobInv
<1>9. /\ Saved \cup Reads(job) \subseteq DOMAIN disk'
      /\ ReadsIfThere(job) \cap torn' = {}
      /\ \A k \in Sources(job) \cap DOMAIN disk' : Loadable(disk'[k])
  BY <1>1, <1>2, <1>4, <1>5, <1>6 DEF JobInv, Sources
<1>10. \A k \in Made' : MadeFromMemory(k)'
  BY <1>2, <1>3, OpenMakes
<1>11. JobInv'
  <2>1. step' \in 1 .. Len(Saves(job')) /\ Wanted' \in DOMAIN memory'
    BY <1>1, <1>3, <1>7
  <2>2. intact' => job' \in {"calibration", "tune_threshold"}
    BY <1>1 DEF OpenFile
  <2>3. \A k \in Saved' \cup Sources(job') :
          /\ k \in DOMAIN disk' <=> k \in DOMAIN memory'
          /\ k \in DOMAIN disk' => disk'[k] = memory'[k]
    BY <1>1, <1>3, <1>8
  <2>4. /\ Saved' \cup Reads(job') \subseteq DOMAIN disk'
        /\ ReadsIfThere(job') \cap torn' = {}
        /\ \A k \in Sources(job') \cap DOMAIN disk' : Loadable(disk'[k])
    BY <1>1, <1>3, <1>9
  <2> QED BY <1>10, <2>1, <2>2, <2>3, <2>4 DEF JobInv
<1>12. MadeForEachOther'
  <2> SUFFICES ASSUME intact' PROVE MadeForEachOther'
    BY DEF MadeForEachOther
  <2>1. /\ intact /\ job \in {"calibration", "tune_threshold"}
    BY DEF OpenFile
  <2>2. kind \notin {"model", "scaler", "light", "heavy"}
    <3>1. kind \in Before(job, step + 1)
      BY <1>1, <1>2, OneSaved DEF Wanted
    <3>2. Len(Saves(job)) \in Nat /\ Len(Saves(job)) <= 2
      BY <2>1 DEF Saves
    <3>3. Before(job, step + 1) \subseteq Before(job, Len(Saves(job)) + 1)
      BY <1>1, <3>2 DEF Before
    <3>4. Before(job, Len(Saves(job)) + 1) \subseteq {"calibrator", "theta", "stats"}
      BY <1>1, <2>1, <3>2, WhatIsSaved
    <3> QED BY <3>1, <3>3, <3>4
  <2> QED BY <1>1, <1>6, <2>1, <2>2 DEF MadeForEachOther, Kinds
<1> QED BY <1>1, <1>4, <1>6, <1>2, <1>11, <1>12 DEF TrainingInv, TunedInv, Completed

LEMMA StartKeeps ==
  ASSUME TrainingInv, NEW j \in Jobs, Start(j)
  PROVE  TrainingInv'
<1>1. /\ job = "none" /\ ~writing /\ writing' = writing /\ job' = j /\ step' = 1
      /\ memory' = Only(disk, Sources(j)) /\ Readable(j)
      /\ UNCHANGED <<disk, torn, intact, last>>
  BY DEF Start, TrainingInv, Sources
<1>2. Saved' = {} /\ Made' = {}
  <2>1. Len(Saves(j)) \in Nat /\ Len(Saves(j)) > 0
    BY DEF Saves, Jobs
  <2>2. Before(j, 1) = {}
    BY <2>1, OneSaved
  <2> QED BY <1>1, <2>2 DEF Saved, Made
<1>3. 1 \in 1 .. Len(Saves(j))
  BY DEF Saves, Jobs
<1>4. /\ DOMAIN memory' = DOMAIN disk \cap Sources(j)
      /\ \A k \in DOMAIN memory' : memory'[k] = disk[k]
  BY <1>1 DEF Only
<1>5. JobInv'
  <2>1. \A k \in Saved' \cup Sources(j) :
          /\ k \in DOMAIN disk' <=> k \in DOMAIN memory'
          /\ k \in DOMAIN disk' => disk'[k] = memory'[k]
    BY <1>1, <1>2, <1>4
  <2>2. /\ Saved' \cup Reads(j) \subseteq DOMAIN disk' /\ ReadsIfThere(j) \cap torn' = {}
        /\ \A k \in Sources(j) \cap DOMAIN disk' : Loadable(disk'[k])
    BY <1>1, <1>2 DEF Readable, Sources
  <2> QED BY <1>1, <1>2, <1>3, <2>1, <2>2 DEF JobInv
<1>6. MadeForEachOther'
  BY <1>1 DEF TrainingInv, MadeForEachOther
<1> QED BY <1>1, <1>5, <1>6 DEF TrainingInv, TunedInv, Completed, Jobs

LEMMA EndingKeeps ==
  ASSUME TrainingInv, Abort \/ (\E j \in Jobs : CannotStart(j)) \/ UNCHANGED vars
  PROVE  TrainingInv'
<1>1. CASE Abort
  BY <1>1 DEF Abort, Leave, TrainingInv, MadeForEachOther, TunedInv, Completed
<1>2. CASE \E j \in Jobs : CannotStart(j)
  BY <1>2 DEF CannotStart, TrainingInv, MadeForEachOther, TunedInv, Completed
<1>3. CASE UNCHANGED vars
  <2>1. UNCHANGED <<disk, torn, job, memory, step, writing, last, intact>>
    BY <1>3 DEF vars
  <2>2. Saved' = Saved /\ Wanted' = Wanted /\ Made' = Made
    BY <2>1 DEF Saved, Wanted, Made
  <2>3. \A k : MadeFromMemory(k)' = MadeFromMemory(k)
    BY <2>1 DEF MadeFromMemory
  <2>4. JobInv' = JobInv
    BY <2>1, <2>2, <2>3 DEF JobInv
  <2>5. MadeForEachOther' = MadeForEachOther /\ TunedInv' = TunedInv
    BY <2>1 DEF MadeForEachOther, TunedInv, Completed, DiskFits
  <2> QED BY <2>1, <2>4, <2>5 DEF TrainingInv
<1> QED BY <1>1, <1>2, <1>3

(* A file is filled: the disk has what the job holds.                       *)
LEMMA FillKeeps ==
  ASSUME TrainingInv, FillFile
  PROVE  TrainingInv'
<1>1. /\ job \in Jobs /\ job # "none" /\ step \in 1 .. Len(Saves(job))
      /\ writing /\ ~writing' /\ Wanted \in DOMAIN memory
      /\ disk' = With(disk, Wanted, memory[Wanted]) /\ torn' = torn \ {Wanted}
      /\ DOMAIN disk \cap torn = {} /\ MadeForEachOther /\ JobInv
      /\ Made = Saved \cup {Wanted}
  BY DEF FillFile, TrainingInv, JobInv, Made
<1>2. PICK kind : kind = Wanted
  OBVIOUS
<1>3. /\ kind \in Kinds /\ Saved \subseteq Kinds /\ kind \notin Saved \cup Sources(job)
  BY <1>1, <1>2, SaveOrder DEF Saved, Wanted
<1>4. /\ DOMAIN disk' = DOMAIN disk \cup {kind} /\ disk'[kind] = memory[kind]
      /\ \A k \in DOMAIN disk \ {kind} : disk'[k] = disk[k]
  BY <1>1, <1>2 DEF With
<1>5. DOMAIN disk' \cap torn' = {}
  BY <1>1, <1>2, <1>4
(* What is on disk of what the job has read and saved, it has in memory.    *)
<1>6. \A k \in Saved \cup {kind} \cup Sources(job) :
        /\ k \in DOMAIN disk' <=> k \in DOMAIN memory
        /\ k \in DOMAIN disk' => disk'[k] = memory[k]
  BY <1>1, <1>2, <1>3, <1>4 DEF JobInv
<1>7. /\ Saved \cup {kind} \cup Reads(job) \subseteq DOMAIN disk'
      /\ ReadsIfThere(job) \cap torn' = {}
      /\ \A k \in Sources(job) \cap DOMAIN disk' : Loadable(disk'[k])
  BY <1>1, <1>2, <1>3, <1>4 DEF JobInv, Sources
<1>8. \A k \in Saved \cup {kind} : MadeFromMemory(k)
  BY <1>1, <1>2 DEF JobInv
<1>9. Before(job, step + 1) = Saved \cup {kind}
  BY <1>1, <1>2, OneSaved DEF Saved, Wanted
<1>10. Len(Saves(job)) \in Nat
  BY <1>1 DEF Saves, Jobs
(* An intact set stays one while jobs calibrate and tune.                   *)
<1>11. ASSUME intact PROVE /\ {"model", "scaler", "light", "heavy"} \subseteq DOMAIN disk'
                           /\ disk'["light"].from = {disk'["scaler"]}
                           /\ disk'["heavy"].from = {disk'["scaler"]}
                           /\ "calibrator" \in DOMAIN disk' =>
                                disk'["calibrator"].from = {disk'["model"]}
  <2>1. job \in {"calibration", "tune_threshold"}
    BY <1>1, <1>11 DEF JobInv
  <2>2. kind \in {"calibrator", "theta", "stats"} /\ (kind = "calibrator" => job = "calibration")
    <3>1. Before(job, step + 1) \subseteq Before(job, Len(Saves(job)) + 1)
      BY <1>1, <1>10 DEF Before
    <3>2. /\ job = "tune_threshold" => Before(job, Len(Saves(job)) + 1) = {"theta", "stats"}
          /\ job = "calibration" => Before(job, Len(Saves(job)) + 1) = {"calibrator"}
      BY <1>1, <1>10, WhatIsSaved
    <3> QED BY <1>9, <2>1, <3>1, <3>2
  <2>3. \A k \in {"model", "scaler", "light", "heavy"} : k \in DOMAIN disk' /\ disk'[k] = disk[k]
    BY <1>1, <1>4, <1>11, <2>2 DEF MadeForEachOther
  <2>4. "calibrator" \in DOMAIN disk' => disk'["calibrator"].from = {disk'["model"]}
    <3>1. CASE kind = "calibrator"
      <4>1. "model" \in Sources(job)
        BY <2>2, <3>1 DEF Sources, Reads
      <4>2. memory["calibrator"].from = {memory["model"]} /\ "model" \in DOMAIN memory
        BY <1>8, <3>1 DEF MadeFromMemory
      <4> QED BY <1>4, <1>6, <3>1, <4>1, <4>2
    <3>2. CASE kind # "calibrator"
      BY <1>1, <1>4, <1>11, <2>3, <3>2 DEF MadeForEachOther
    <3> QED BY <3>1, <3>2
  <2> QED BY <1>1, <1>11, <2>3, <2>4 DEF MadeForEachOther
<1>12. CASE step < Len(Saves(job))
  <2>1. /\ job' = job /\ step' = step + 1 /\ memory' = memory /\ last' = last /\ intact' = intact
    BY <1>12 DEF FillFile
  <2>2. step' \in 1 .. Len(Saves(job'))
    BY <1>1, <1>10, <1>12, <2>1
  <2>3. Saved' = Saved \cup {kind} /\ Made' = Saved \cup {kind}
    BY <1>1, <1>9, <2>1 DEF Saved, Made
  <2>4. \A k \in Made' : MadeFromMemory(k)'
    BY <1>8, <2>1, <2>3 DEF MadeFromMemory
  <2>5. intact' => job' \in {"calibration", "tune_threshold"}
    BY <1>1, <2>1 DEF JobInv
  <2>6. JobInv'
    <3>1. \A k \in Saved' \cup Sources(job') :
            /\ k \in DOMAIN disk' <=> k \in DOMAIN memory'
            /\ k \in DOMAIN disk' => disk'[k] = memory'[k]
      BY <1>6, <2>1, <2>3
    <3>2. /\ Saved' \cup Reads(job') \subseteq DOMAIN disk'
          /\ ReadsIfThere(job') \cap torn' = {}
          /\ \A k \in Sources(job') \cap DOMAIN disk' : Loadable(disk'[k])
      BY <1>7, <2>1, <2>3
    <3> QED BY <1>1, <2>2, <2>4, <2>5, <3>1, <3>2 DEF JobInv
  <2>7. MadeForEachOther'
    BY <1>11, <2>1 DEF MadeForEachOther
  <2> QED BY <1>1, <1>5, <2>1, <2>6, <2>7 DEF TrainingInv, TunedInv, Completed
<1>13. CASE ~(step < Len(Saves(job)))
  <2>1. /\ job' = "none" /\ last' = [job |-> job, completed |-> TRUE]
        /\ intact' => intact \/ job = "train_all"
    BY <1>13 DEF FillFile, Leave
  <2>2. step = Len(Saves(job))
    BY <1>1, <1>10, <1>13
  <2>3. /\ job = "train_all" => Saved \cup {kind} = Kinds
        /\ job = "tune_threshold" => Saved \cup {kind} = {"theta", "stats"}
    BY <1>1, <1>9, <1>10, <2>2, WhatIsSaved
  <2>4. MadeForEachOther'
    <3>1. CASE intact
      BY <1>11, <3>1 DEF MadeForEachOther
    <3>2. CASE job = "train_all"
      <4>1. \A k \in Kinds : k \in DOMAIN disk' /\ disk'[k] = memory[k] /\ MadeFromMemory(k)
        BY <1>6, <1>7, <1>8, <2>3, <3>2
      <4> QED BY <4>1 DEF MadeForEachOther, MadeFromMemory, Kinds
    <3>3. CASE ~intact'
      BY <3>3 DEF MadeForEachOther
    <3> QED BY <2>1, <3>1, <3>2, <3>3
  <2>5. TunedInv'
    <3> SUFFICES ASSUME job \in {"train_all", "tune_threshold"}
                 PROVE  TunedInv'
      BY <2>1 DEF TunedInv, Completed
    <3>1. /\ {"theta", "stats"} \subseteq Saved \cup {kind}
          /\ {"model", "scaler", "light", "heavy"} \subseteq Saved \cup {kind} \cup Reads(job)
          /\ "calibrator" \in Saved \cup {kind} \cup ReadsIfThere(job)
      BY <2>3 DEF Kinds, Reads, ReadsIfThere
    <3>2. \A k \in Kinds : /\ k \in DOMAIN disk' <=> k \in DOMAIN memory
                           /\ k \in DOMAIN disk' => disk'[k] = memory[k]
      <4>1. \A k \in Kinds : k \in Saved \cup {kind} \cup Sources(job)
        BY <3>1 DEF Kinds, Sources
      <4> QED BY <1>6, <4>1
    <3>3. {"model", "scaler", "light", "heavy", "theta", "stats"} \subseteq DOMAIN disk'
      BY <1>7, <3>1
    <3>4. RoutedOn(disk') = RoutedOn(memory)
      <4>1. "calibrator" \in Kinds /\ "model" \in Kinds /\ "model" \in DOMAIN disk'
        BY <3>3 DEF Kinds
      <4>2. /\ "calibrator" \in DOMAIN disk' <=> "calibrator" \in DOMAIN memory
            /\ "calibrator" \in DOMAIN disk' => disk'["calibrator"] = memory["calibrator"]
            /\ disk'["model"] = memory["model"]
        BY <3>2, <4>1
      <4> QED BY <4>2 DEF RoutedOn
    <3>5. /\ memory["theta"].from =
               {RoutedOn(memory), memory["scaler"], memory["light"], memory["heavy"]}
          /\ memory["stats"].from = memory["theta"].from
      BY <1>8, <3>1 DEF MadeFromMemory
    <3>6. DiskFits'
      <4>1. \A k \in {"scaler", "light", "heavy", "theta", "stats"} :
              k \in Kinds /\ k \in DOMAIN disk'
        BY <3>3 DEF Kinds
      <4>2. \A k \in {"scaler", "light", "heavy", "theta", "stats"} : disk'[k] = memory[k]
        BY <3>2, <4>1
      <4> QED BY <3>4, <3>5, <4>2 DEF DiskFits, RoutedOn
    <3>7. "calibrator" \notin torn' /\ ("calibrator" \in DOMAIN disk' => Loadable(disk'["calibrator"]))
      <4>1. CASE job = "tune_threshold"
        BY <1>7, <4>1 DEF Sources, ReadsIfThere
      <4>2. CASE job = "train_all"
        <5>1. "calibrator" \in Saved \cup {kind}
          BY <2>3, <4>2 DEF Kinds
        <5>2. "calibrator" \in DOMAIN disk' /\ disk'["calibrator"].by = "train_all"
          BY <1>6, <1>7, <1>8, <4>2, <5>1 DEF MadeFromMemory
        <5> QED BY <1>5, <5>2 DEF Loadable
      <4> QED BY <4>1, <4>2
    <3> QED BY <3>3, <3>6, <3>7 DEF TunedInv
  <2> QED BY <1>1, <1>5, <2>1, <2>4, <2>5 DEF TrainingInv
<1> QED BY <1>12, <1>13

(* Jobs that start, end or are cut off in any order keep the invariant.     *)
THEOREM TrainingInvariant == Spec => []TrainingInv
<1>1. Init => TrainingInv
  BY DEF Init, TrainingInv, MadeForEachOther, TunedInv, Completed, Nothing
<1>2. ASSUME TrainingInv, [Next]_vars PROVE TrainingInv'
  BY <1>2, StartKeeps, OpenKeeps, FillKeeps, EndingKeeps DEF Next
<1> QED BY <1>1, <1>2, PTL DEF Spec

(* Once a tuning is completed, the threshold on disk was tuned on what      *)
(* predict() will load, whatever earlier jobs left behind (train_all.py:15- *)
(* 18, tune_threshold.py:54-61).                                            *)
THEOREM ThresholdFitsFiles == Spec => []TunedAsDeployed
<1>1. TrainingInv => TunedAsDeployed
  BY DEF TrainingInv, TunedInv, TunedAsDeployed, DiskFits
<1> QED BY <1>1, TrainingInvariant, PTL

(* Calibrating and tuning leave a completed set of files one set            *)
(* (train_all.py:96-173).                                                   *)
THEOREM FilesStayASet == Spec => []MadeForEachOther
<1>1. TrainingInv => MadeForEachOther
  BY DEF TrainingInv
<1> QED BY <1>1, TrainingInvariant, PTL

------------------------------------------------------------------------------
(* The server                                                               *)

(* A server beside them changes nothing for the jobs.                       *)
LEMMA ServingTrains == ServingSpec => Spec
<1>1. ServingInit => Init
  BY DEF ServingInit
<1>2. [ServingNext]_allVars => [Next]_vars
  BY DEF ServingNext, Train, Serve, CallAndLoad, CallAgain, Load, NoCalibrator, FileNotFound,
         Unreadable, NewServer, allVars, vars
<1> QED BY <1>1, <1>2, PTL DEF ServingSpec, Spec

LEMMA LoadOrderIs ==
  /\ Len(LoadOrder) = 6
  /\ \A i \in 1 .. 6 : LoadOrder[i] \in Required \cup {"calibrator"}
  /\ LoadOrder[6] = "calibrator" /\ \A i \in 1 .. 5 : LoadOrder[i] \in Required
  /\ \A k \in Required : \E i \in 1 .. 5 : LoadOrder[i] = k
  /\ LoadOrder[1] = "model" /\ \A i \in 1 .. 6 : LoadOrder[i] = "heavy" => i = 5
  /\ \A i \in 1 .. 6 : i <= 3 <=> LoadOrder[i] \in Pickles
<1> DEFINE seq == <<"model", "scaler", "theta", "light", "heavy", "calibrator">>
<1>1. LoadOrder = seq /\ Len(seq) = 6
  BY DEF LoadOrder
<1>2. /\ seq[1] = "model" /\ seq[2] = "scaler" /\ seq[3] = "theta" /\ seq[4] = "light"
      /\ seq[5] = "heavy" /\ seq[6] = "calibrator"
  OBVIOUS
<1> HIDE DEF seq
<1>3. 1 .. 6 = {1, 2, 3, 4, 5, 6} /\ 1 .. 5 = {1, 2, 3, 4, 5}
  OBVIOUS
<1> QED BY <1>1, <1>2, <1>3 DEF Required, Pickles

LEMMA OneLoaded ==
  ASSUME NEW n \in 1 .. 6
  PROVE  { LoadOrder[i] : i \in 1 .. (n + 1) - 1 } = { LoadOrder[i] : i \in 1 .. n - 1 } \cup {LoadOrder[n]}
<1>1. 1 .. (n + 1) - 1 = (1 .. n - 1) \cup {n}
  OBVIOUS
<1> QED BY <1>1

(* What is loaded last and before is all that is loaded.                    *)
LEMMA AllLoaded ==
  { LoadOrder[i] : i \in 1 .. 6 - 1 } = Required /\ "calibrator" \notin Required
<1>1. 6 - 1 = 5
  OBVIOUS
<1>2. "calibrator" \notin Required
  BY DEF Required, Pickles
<1> QED BY <1>1, <1>2, LoadOrderIs

(* A tuned and intact set of files can be loaded and fits together.         *)
LEMMA TunedIsServable ==
  ASSUME TrainingInv, JustTuned
  PROVE  Servable
<1>1. /\ {"model", "scaler", "light", "heavy"} \subseteq DOMAIN disk
      /\ disk["light"].from = {disk["scaler"]} /\ disk["heavy"].from = {disk["scaler"]}
      /\ "calibrator" \in DOMAIN disk => disk["calibrator"].from = {disk["model"]}
  BY DEF TrainingInv, JustTuned, MadeForEachOther
<1>2. /\ "theta" \in DOMAIN disk /\ DiskFits
      /\ "calibrator" \in DOMAIN disk => Loadable(disk["calibrator"])
  BY DEF TrainingInv, JustTuned, TunedInv
<1> QED BY <1>1, <1>2 DEF Servable, Required, Pickles, Fits, DiskFits

(* What a server has loaded is what fits on disk.                           *)
LEMMA SameFits ==
  ASSUME NEW held, NEW set, Fits(set), Required \subseteq DOMAIN held,
         \A k \in Required : held[k] = set[k],
         "calibrator" \in DOMAIN held <=> "calibrator" \in DOMAIN set,
         "calibrator" \in DOMAIN held => held["calibrator"] = set["calibrator"]
  PROVE  Fits(held)
<1>1. \A k \in {"model", "scaler", "theta", "light", "heavy"} : held[k] = set[k]
  BY DEF Required, Pickles
<1>2. RoutedOn(held) = RoutedOn(set)
  BY <1>1 DEF RoutedOn
<1> QED BY <1>1, <1>2 DEF Fits

LEMMA LoadKeeps ==
  ASSUME ServerInv, Load
  PROVE  ServerInv'
<1>1. /\ at \in 1 .. 6 /\ Loaded \subseteq DOMAIN globals /\ ~answered
      /\ DOMAIN globals \subseteq Pickles \cup Loaded
      /\ File \in DOMAIN disk /\ UNCHANGED <<disk, files>>
      /\ globals' = With(globals, File, disk[File])
  BY LoadOrderIs DEF ServerInv, LoadsOnce, Load, FileLoads, vars
<1>2. PICK kind : kind = File /\ kind = LoadOrder[at]
  BY DEF File
<1>3. /\ DOMAIN globals' = DOMAIN globals \cup {kind} /\ globals'[kind] = disk[kind]
      /\ \A k \in DOMAIN globals \ {kind} : globals'[k] = globals[k]
  BY <1>1, <1>2 DEF With
<1>4. \A k \in Loaded \cup {kind} : k \in DOMAIN globals'
  BY <1>1, <1>3
<1>5. DOMAIN globals' \subseteq Pickles \cup Loaded \cup {kind}
  BY <1>1, <1>3
<1>6. files = "tuned" => Servable /\ \A k \in Loaded \cup {kind} : globals'[k] = disk[k]
  BY <1>1, <1>3 DEF ServerInv
<1>7. Servable' = Servable
  BY <1>1 DEF Servable
<1>8. CASE at < 6
  <2>1. at' = at + 1 /\ answered' = answered
    BY <1>8, LoadOrderIs DEF Load
  <2>2. Loaded' = Loaded \cup {kind}
    BY <1>1, <1>2, <2>1, OneLoaded DEF Loaded
  <2>3. at' \in 1 .. 6
    BY <1>1, <1>8, <2>1
  <2>4. LoadsOnce'
    BY <1>1, <1>4, <1>5, <2>1, <2>2, <2>3, LoadOrderIs DEF LoadsOnce
  <2> QED BY <1>1, <1>6, <1>7, <2>2, <2>3, <2>4 DEF ServerInv
<1>9. CASE at = 6
  <2>1. at' = 0 /\ answered'
    BY <1>9, LoadOrderIs DEF Load
  <2>2. Loaded = Required /\ kind = "calibrator"
    BY <1>2, <1>9, AllLoaded, LoadOrderIs DEF Loaded
  <2>3. "model" \in Required
    BY DEF Required, Pickles
  <2>4. Required \subseteq DOMAIN globals' /\ "model" \in DOMAIN globals'
    BY <1>4, <2>2, <2>3
  <2>5. LoadsOnce'
    BY <2>1, <2>4, LoadOrderIs DEF LoadsOnce
  <2>6. ASSUME files = "tuned" PROVE Fits(globals')
    <3>1. Fits(disk) /\ \A k \in Required \cup {"calibrator"} : globals'[k] = disk[k]
      BY <1>6, <2>2, <2>6 DEF Servable
    <3>2. "calibrator" \in DOMAIN globals' /\ "calibrator" \in DOMAIN disk
      BY <1>1, <1>2, <1>3, <2>2
    <3> QED BY <2>4, <3>1, <3>2, SameFits
  <2> QED BY <1>1, <2>1, <2>5, <2>6 DEF ServerInv
<1> QED BY <1>1, <1>8, <1>9

LEMMA StopKeeps ==
  ASSUME TrainingInv, ServerInv, NoCalibrator \/ FileNotFound \/ Unreadable
  PROVE  ServerInv'
<1>1. /\ at \in 1 .. 6 /\ Loaded \subseteq DOMAIN globals /\ ~answered
      /\ DOMAIN globals \subseteq Pickles \cup Loaded
      /\ UNCHANGED <<disk, files>> /\ at' = 0
  BY LoadOrderIs DEF ServerInv, LoadsOnce, NoCalibrator, FileNotFound, Unreadable, vars
<1>2. "model" \in Required /\ "calibrator" \notin Required
  BY AllLoaded DEF Required, Pickles
(* A load that has got to the calibrator, and finds none, has what is there. *)
<1>3. ASSUME at = 6, globals' = globals, "calibrator" \notin DOMAIN disk, files = "tuned"
      PROVE  Fits(globals)
  <2>1. Loaded = Required
    BY <1>3, AllLoaded DEF Loaded
  <2>2. Fits(disk) /\ \A k \in Required : globals[k] = disk[k]
    BY <1>1, <1>3, <2>1 DEF ServerInv, Servable
  <2>3. "calibrator" \notin DOMAIN globals
    BY <1>1, <1>2, <2>1 DEF Required
  <2> QED BY <1>1, <1>3, <2>1, <2>2, <2>3, SameFits
<1>4. CASE NoCalibrator
  <2>1. globals' = globals /\ answered' /\ LoadOrder[at] = "calibrator" /\ "calibrator" \notin DOMAIN disk
    BY <1>4 DEF NoCalibrator, File
  <2>2. at = 6
    <3>1. at \in 1 .. 5 => LoadOrder[at] \in Required
      BY LoadOrderIs
    <3> QED BY <1>1, <1>2, <2>1, <3>1
  <2>3. Required \subseteq DOMAIN globals
    BY <1>1, <2>2, AllLoaded DEF Loaded
  <2>4. LoadsOnce'
    BY <1>1, <1>2, <2>1, <2>3, LoadOrderIs DEF LoadsOnce
  <2> QED BY <1>1, <1>3, <2>1, <2>2, <2>4 DEF ServerInv
<1>5. CASE FileNotFound
  <2>1. /\ globals' = Only(globals, Kinds \ {"model"}) /\ answered' = answered
        /\ LoadOrder[at] \in Pickles
    BY <1>5 DEF FileNotFound, File
  <2>2. "model" \notin DOMAIN globals' /\ DOMAIN globals' \subseteq DOMAIN globals
    BY <2>1 DEF Only
  <2>3. Loaded \subseteq Pickles
    <3>1. at <= 3
      BY <1>1, <2>1, LoadOrderIs
    <3>2. \A i \in 1 .. at - 1 : i \in 1 .. 6 /\ i <= 3
      BY <1>1, <3>1
    <3> QED BY <3>2, LoadOrderIs DEF Loaded
  <2>4. LoadsOnce'
    BY <1>1, <2>1, <2>2, <2>3, LoadOrderIs DEF LoadsOnce
  <2> QED BY <1>1, <1>2, <2>2, <2>4 DEF ServerInv
<1>6. CASE Unreadable
  <2>1. /\ globals' = globals /\ answered' = answered
        /\ \/ File \in torn
           \/ File \in {"light", "heavy"} \ DOMAIN disk
           \/ File \in DOMAIN disk /\ ~Loadable(disk[File])
    BY <1>6 DEF Unreadable, FileLoads
  <2>2. "model" \notin DOMAIN globals => DOMAIN globals \subseteq Pickles
    <3>1. CASE at = 1
      <4>1. 1 .. at - 1 = {}
        BY <3>1
      <4> QED BY <1>1, <4>1 DEF Loaded
    <3>2. CASE at # 1
      <4>1. 1 \in 1 .. at - 1
        BY <1>1, <3>2
      <4>2. LoadOrder[1] \in Loaded
        BY <4>1 DEF Loaded
      <4> QED BY <1>1, <4>2, LoadOrderIs
    <3> QED BY <3>1, <3>2
  <2>3. LoadsOnce'
    BY <1>1, <2>1, <2>2, LoadOrderIs DEF LoadsOnce
  <2>4. ASSUME files = "tuned", Required \subseteq DOMAIN globals
        PROVE  Fits(globals)
    <3>1. "heavy" \in Loaded
      BY <1>1, <2>4 DEF Required, Pickles
    <3>2. PICK i \in 1 .. at - 1 : LoadOrder[i] = "heavy"
      BY <3>1 DEF Loaded
    <3>3. at = 6
      <4>1. i \in 1 .. 6
        BY <1>1, <3>2
      <4>2. i = 5
        BY <3>2, <4>1, LoadOrderIs
      <4> QED BY <1>1, <4>2
    <3>4. File = "calibrator"
      BY <3>3, LoadOrderIs DEF File
    <3>5. "calibrator" \notin DOMAIN disk
      <4>1. "calibrator" \in DOMAIN disk => Loadable(disk["calibrator"])
        BY <1>1, <2>4 DEF ServerInv, Servable
      <4>2. DOMAIN disk \cap torn = {}
        BY DEF TrainingInv
      <4> QED BY <2>1, <3>4, <4>1, <4>2
    <3> QED BY <1>3, <2>1, <2>4, <3>3, <3>5
  <2> QED BY <1>1, <2>1, <2>3, <2>4 DEF ServerInv
<1> QED BY <1>4, <1>5, <1>6

LEMMA ServerInvPreserved ==
  ASSUME TrainingInv, ServerInv, [ServingNext]_allVars
  PROVE  ServerInv'
<1>1. CASE Train
  <2>1. /\ UNCHANGED <<globals, at, answered>>
        /\ files' = IF at > 0 /\ files = "tuned" /\ disk' # disk THEN "changed" ELSE files
    BY <1>1 DEF Train
  <2>2. Loaded' = Loaded /\ LoadsOnce'
    BY <2>1 DEF Loaded, LoadsOnce, ServerInv
  <2>3. files' = "tuned" => files = "tuned" /\ (at > 0 => disk' = disk)
    BY <2>1
  <2>4. disk' = disk => Servable' = Servable
    BY DEF Servable
  <2> QED BY <2>1, <2>2, <2>3, <2>4 DEF ServerInv
<1>2. CASE CallAndLoad
  <2>1. /\ at = 0 /\ at' = 1 /\ ~answered' /\ globals' = globals /\ disk' = disk
        /\ DOMAIN globals \subseteq Pickles
        /\ files' = IF JustTuned THEN "tuned" ELSE "other"
    BY <1>2 DEF CallAndLoad, ServerInv, LoadsOnce, vars
  <2>2. 1 .. 1 - 1 = {}
    OBVIOUS
  <2>3. Loaded' = {}
    BY <2>1, <2>2 DEF Loaded
  <2>4. LoadsOnce'
    BY <2>1, <2>3, LoadOrderIs DEF LoadsOnce
  <2>5. files' = "tuned" => Servable'
    <3>1. Servable' = Servable
      BY <2>1 DEF Servable
    <3> QED BY <2>1, <3>1, TunedIsServable
  <2> QED BY <2>1, <2>3, <2>4, <2>5 DEF ServerInv
<1>3. CASE CallAgain
  <2>1. /\ at = 0 /\ UNCHANGED <<globals, at, files>>
        /\ answered' = (Required \subseteq DOMAIN globals)
    BY <1>3 DEF CallAgain
  <2>2. answered' => Required \subseteq DOMAIN globals'
    BY <2>1
  <2> QED BY <2>1, <2>2 DEF ServerInv, LoadsOnce
<1>4. CASE Load
  BY <1>4, LoadKeeps
<1>5. CASE NoCalibrator \/ FileNotFound \/ Unreadable
  BY <1>5, StopKeeps
<1>6. CASE NewServer
  <2>1. at = 0 /\ at' = 0 /\ globals' = Nothing /\ ~answered' /\ files' = "other"
    BY <1>6 DEF NewServer
  <2> QED BY <2>1, LoadOrderIs DEF ServerInv, LoadsOnce, Nothing
<1>7. CASE UNCHANGED allVars
  <2>1. UNCHANGED <<disk, globals, at, answered, files>>
    BY <1>7 DEF allVars, vars, serverVars
  <2> QED BY <2>1 DEF ServerInv, LoadsOnce, Loaded, Servable
<1> QED BY <1>1, <1>2, <1>3, <1>4, <1>5, <1>6, <1>7 DEF ServingNext, Serve

(* Whatever calls failed before and whatever jobs run afterwards, a process *)
(* that loaded while the files were complete, tuned and left alone answers  *)
(* with files made for each other (predict_interface.py:82-88).             *)
THEOREM ServerAnswersWithASet == ServingSpec => []ServedFits
<1>1. ServingInit => ServerInv
  <2> SUFFICES ASSUME ServingInit PROVE ServerInv
    OBVIOUS
  <2>1. at = 0 /\ globals = Nothing /\ ~answered /\ files = "other"
    BY DEF ServingInit
  <2> QED BY <2>1, LoadOrderIs DEF ServerInv, LoadsOnce, Nothing
<1>2. TrainingInv /\ ServerInv /\ [ServingNext]_allVars => ServerInv'
  BY ServerInvPreserved
<1>3. ServerInv => ServedFits
  <2> SUFFICES ASSUME ServerInv, answered, files = "tuned" PROVE Fits(globals)
    BY DEF ServedFits
  <2>1. at \in 0 .. 6 /\ ~(at > 0)
    BY LoadOrderIs DEF ServerInv, LoadsOnce
  <2>2. at = 0
    BY <2>1
  <2> QED BY <2>2 DEF ServerInv, LoadsOnce
<1>4. ServingSpec => []TrainingInv
  BY ServingTrains, TrainingInvariant, PTL
<1> QED BY <1>1, <1>2, <1>3, <1>4, PTL DEF ServingSpec
==============================================================================
