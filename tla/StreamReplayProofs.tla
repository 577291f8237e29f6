-------------------------- MODULE StreamReplayProofs -------------------------
(****************************************************************************)
(* The tuned threshold and the replay of a stream, for every validation     *)
(* split, set of candidates, cap, rate, time that predictions take and size *)
(* of the buffer: service does what the tuning reported, the schedule does  *)
(* not drift, and a file that was closed has every alert.                   *)
(****************************************************************************)
EXTENDS StreamReplay, FiniteSetTheorems, SequenceTheorems, TLAPS

------------------------------------------------------------------------------
(* The invariants                                                           *)

Routes == {"light", "heavy"}

(* What the choice of a threshold has established.                          *)
Chosen(t) ==
  /\ theta = {t}
  /\ t \in Candidates /\ Best(t)
  /\ summary = Reported(t)

TuningInv ==
  /\ val \in Seq(Flow) /\ served \in Seq(Routes)
  /\ Len(served) <= Len(val)
  /\ theta # {} => \E t \in Thetas : Chosen(t)
  /\ \A i \in DOMAIN served : \E t \in theta : served[i] = Route(val[i].confidence, t)

(* The schedule counts from the start, not from the last flow.              *)
PaceInv ==
  /\ interval \in Nat /\ backlogged \in Nat
  /\ delivered \in Seq(Nat) /\ latencies \in Seq(Nat)
  /\ Len(latencies) = Len(delivered)
  /\ next_due = Len(delivered) * interval
  /\ time = IF delivered = <<>> THEN 0
            ELSE delivered[Len(delivered)] + latencies[Len(delivered)]
  /\ interval > 0 =>
       /\ \A i \in DOMAIN delivered :
            delivered[i] = IF Overtaken(i) /\ i > 1
                             THEN delivered[i - 1] + latencies[i - 1] ELSE Due(i)
       /\ backlogged = Cardinality({ i \in DOMAIN delivered : Overtaken(i) })

(* An alert is in the file or in the buffer, in the order of the flows.     *)
AlertInv ==
  /\ phase \in {"running", "closed", "killed"}
  /\ alerts \in Seq(Nat) /\ buffer \in Seq(Nat) /\ out \in Seq(Nat)
  /\ phase = "running" => out \o buffer = alerts
  /\ phase = "closed" => out = alerts

------------------------------------------------------------------------------
(* The threshold                                                            *)

LEMMA FlowSets ==
  ASSUME TuningInv, NEW S \in SUBSET DOMAIN val
  PROVE  /\ IsFiniteSet(S) /\ Cardinality(S) \in Nat /\ Len(val) \in Nat
         /\ \A T \in SUBSET S : Cardinality(T) \in Nat /\ Cardinality(T) <= Cardinality(S)
<1>1. DOMAIN val = 1 .. Len(val) /\ Len(val) \in Nat
  BY DEF TuningInv
<1>2. IsFiniteSet(DOMAIN val)
  BY <1>1, FS_Interval
<1>3. IsFiniteSet(S)
  BY <1>2, FS_Subset
<1> QED BY <1>1, <1>3, FS_Subset, FS_CardinalityType

LEMMA InitTuned == Init => TuningInv
<1> SUFFICES ASSUME Init PROVE TuningInv
  OBVIOUS
<1>1. PICK n \in 1 .. MaxFlows : val \in [1 .. n -> Flow]
  BY DEF Init
<1>2. n \in Nat /\ val \in Seq(Flow)
  BY <1>1, ThresholdTuningAssumption
<1>3. served = <<>> /\ theta = {} /\ Len(val) \in Nat
  BY <1>2 DEF Init
<1>4. served \in Seq(Routes) /\ Len(served) = 0 /\ DOMAIN served = {}
  BY <1>3
<1> QED BY <1>2, <1>3, <1>4 DEF TuningInv

LEMMA SameChoice ==
  ASSUME UNCHANGED <<val, theta, summary>>, NEW t, Chosen(t)
  PROVE  Chosen(t)'
<1>1. \A u : Heavy(u)' = Heavy(u)
  BY DEF Heavy
<1>2. \A u : Right(u)' = Right(u)
  BY <1>1 DEF Right
<1>3. Feasible' = Feasible
  BY <1>1 DEF Feasible
<1>4. Candidates' = Candidates
  BY <1>3 DEF Candidates
<1>5. Best(t)'
  BY <1>2, <1>4 DEF Chosen, Best
<1> QED BY <1>1, <1>2, <1>4, <1>5 DEF Chosen, Reported

LEMMA TuningKept == TuningInv /\ [Next]_vars => TuningInv'
<1> SUFFICES ASSUME TuningInv, [Next]_vars PROVE TuningInv'
  OBVIOUS
<1> USE DEF TuningInv
<1>1. Candidates \subseteq Thetas
  BY DEF Candidates, Feasible
<1>2. CASE TuneTheta
  <2>1. PICK t \in Candidates :
          /\ Best(t) /\ theta' = {t}
          /\ summary' = Reported(t)
    BY <1>2 DEF TuneTheta
  <2>2. UNCHANGED <<val, served>> /\ theta = {}
    BY <1>2 DEF TuneTheta
  <2>3. Chosen(t)'
    <3>1. \A u : Heavy(u)' = Heavy(u)
      BY <2>2 DEF Heavy
    <3>2. \A u : Right(u)' = Right(u)
      BY <2>2, <3>1 DEF Right
    <3>3. Feasible' = Feasible
      BY <2>2, <3>1 DEF Feasible
    <3>4. Candidates' = Candidates
      BY <3>3 DEF Candidates
    <3>5. Best(t)'
      BY <2>1, <3>2, <3>4 DEF Best
    <3> QED BY <2>1, <3>1, <3>2, <3>4, <3>5 DEF Chosen, Reported
  <2>4. DOMAIN served' = {}
    BY <2>2
  <2> QED BY <1>1, <2>1, <2>2, <2>3, <2>4
<1>3. CASE Serve
  <2>1. PICK t \in theta : served' = Append(served, Route(val[Len(served) + 1].confidence, t))
    BY <1>3 DEF Serve
  <2>2. UNCHANGED <<val, theta, summary>> /\ Len(served) < Len(val)
    BY <1>3 DEF Serve
  <2>3. Route(val[Len(served) + 1].confidence, t) \in Routes
    BY DEF Route, Routes
  <2>4. /\ served' \in Seq(Routes) /\ Len(served') = Len(served) + 1
        /\ \A i \in 1 .. Len(served) : served'[i] = served[i]
        /\ served'[Len(served) + 1] = Route(val[Len(served) + 1].confidence, t)
    <3> HIDE DEF TuningInv
    <3>1. served \in Seq(Routes)
      BY DEF TuningInv
    <3> QED BY <2>1, <2>3, <3>1, AppendProperties
  <2>5. Len(served) \in Nat /\ Len(val) \in Nat /\ DOMAIN served = 1 .. Len(served)
    OBVIOUS
  <2>6. DOMAIN served' = 1 .. Len(served) + 1
    BY <2>4
  <2>7. \A i \in DOMAIN served' : \E u \in theta' : served'[i] = Route(val'[i].confidence, u)
    <3> SUFFICES ASSUME NEW i \in 1 .. Len(served) + 1
                 PROVE  \E u \in theta : served'[i] = Route(val[i].confidence, u)
      BY <2>2, <2>6
    <3>1. CASE i \in 1 .. Len(served)
      BY <2>4, <2>5, <3>1
    <3>2. CASE i = Len(served) + 1
      BY <2>4, <3>2
    <3> QED BY <2>5, <3>1, <3>2
  <2>8. theta' # {} => \E u \in Thetas : Chosen(u)'
    BY <2>2, SameChoice
  <2> QED BY <2>2, <2>4, <2>5, <2>7, <2>8
<1>4. CASE UNCHANGED vars
  <2>1. UNCHANGED <<val, theta, summary, served>>
    BY <1>4 DEF vars
  <2>2. theta' # {} => \E u \in Thetas : Chosen(u)'
    BY <2>1, SameChoice
  <2> QED BY <2>1, <2>2
<1> QED BY <1>2, <1>3, <1>4 DEF Next

(* A flow in service is on the heavy branch if the threshold put it there,  *)
(* and on the light branch its verdict is the one that tune counted.        *)
LEMMA ServedAsTuned ==
  ASSUME TuningInv, NEW t, Chosen(t)
  PROVE  /\ ServedHeavy = Heavy(t) \cap DOMAIN served
         /\ ServedRight \ ServedHeavy = (Right(t) \ Heavy(t)) \cap DOMAIN served
<1>1. /\ DOMAIN served \subseteq DOMAIN val
      /\ \A i \in DOMAIN served : served[i] = Route(val[i].confidence, t)
  BY DEF TuningInv, Chosen
<1>2. \A i \in DOMAIN served : served[i] = "heavy" <=> i \in Heavy(t)
  BY <1>1 DEF Heavy, Route
<1>3. ServedHeavy = Heavy(t) \cap DOMAIN served
  BY <1>1, <1>2 DEF ServedHeavy, Heavy
<1> QED BY <1>1, <1>3 DEF ServedRight, Right

LEMMA TuningInvariance == Spec => []TuningInv
BY InitTuned, TuningKept, PTL DEF Spec

------------------------------------------------------------------------------
(* Tuning by itself is a part of the replay                                 *)

(* Whatever the replay does beside it, the threshold is tuned and flows are *)
(* routed as in ThresholdTuning: what is proved of that holds of a replay.  *)
LEMMA ReplayTunes == ReplaySpec => Spec
<1>1. ReplayInit => Init
  BY DEF ReplayInit
<1>2. [ReplayNext]_<<vars, replayVars>> => [Next]_vars
  BY DEF ReplayNext, Tune, ReplayFlow, Close, Killed, Next
<1> QED BY <1>1, <1>2, PTL DEF ReplaySpec, Spec

(* On the flows it was tuned on, predict() sends to the heavy network as    *)
(* many as tune() reported, flows at the threshold included, and is right   *)
(* on the light branch as often as reported (tune_threshold.py:12-14,       *)
(* routing.py).                                                             *)
THEOREM ServiceRoutesAsReported == ReplaySpec => []RoutedAsReported
<1>1. ASSUME TuningInv, theta # {}, Len(served) = Len(val)
      PROVE  /\ Cardinality(ServedHeavy) = summary.heavy
             /\ Cardinality(ServedRight \ ServedHeavy) = summary.light
  <2>1. PICK t \in Thetas : Chosen(t)
    BY <1>1 DEF TuningInv
  <2>2. DOMAIN served = DOMAIN val
    BY <1>1 DEF TuningInv
  <2>3. ServedHeavy = Heavy(t) /\ ServedRight \ ServedHeavy = Right(t) \ Heavy(t)
    BY <1>1, <2>1, <2>2, ServedAsTuned DEF Heavy, Right
  <2> QED BY <2>1, <2>3 DEF Chosen, Reported
<1>2. TuningInv => RoutedAsReported
  BY <1>1 DEF RoutedAsReported
<1> QED BY <1>2, TuningInvariance, ReplayTunes, PTL

(* No candidate within the cap would have been right more often, and the    *)
(* heavy branch exceeds the cap in service only if every candidate would    *)
(* have (tune_threshold.py:15-19).                                          *)
THEOREM NoneBetterUnderCap == ReplaySpec => []BestUnderCap
<1>1. ASSUME TuningInv, theta # {} PROVE BestUnderCap
  <2>1. PICK t \in Thetas : Chosen(t)
    BY <1>1 DEF TuningInv
  <2>2. ASSUME NEW u \in Thetas
        PROVE  Below(u) = Heavy(u)
    <3>1. u \in Int /\ \A i \in DOMAIN val : val[i].confidence \in Int
      <4>1. val \in Seq(Flow)
        BY <1>1 DEF TuningInv
      <4>2. \A i \in DOMAIN val : val[i] \in Flow
        BY <4>1
      <4>3. Confidences \subseteq Int /\ Thetas \subseteq Int
        BY ThresholdTuningAssumption
      <4> QED BY <4>2, <4>3 DEF Flow
    <3> QED BY <3>1 DEF Below, Heavy
  <2>3. ASSUME NEW u \in Thetas
        PROVE  /\ u \in Feasible <=> KeepsCap(Heavy(u))
               /\ Right(u) = { i \in DOMAIN val :
                                 IF i \in Below(u) THEN val[i].heavy["raw"]
                                 ELSE val[i].light }
    BY <2>2 DEF Feasible, KeepsCap, Right
  <2>4. \A u \in Thetas : /\ Cardinality(Right(u)) \in Nat
                          /\ Cardinality(Heavy(u)) \in Nat
    BY <1>1, FlowSets DEF Right, Heavy
  <2>5. summary.right = Cardinality(Right(t))
    BY <2>1 DEF Chosen, Reported
  <2>6. ASSUME NEW u \in Thetas, KeepsCap(Below(u))
        PROVE  Cardinality(Right(u)) <= summary.right
    <3>1. u \in Candidates
      BY <2>2, <2>3, <2>6 DEF Candidates
    <3> QED BY <2>1, <2>4, <2>5, <3>1 DEF Chosen, Best
  <2>7. KeepsCap(ServedHeavy) \/ \A u \in Thetas : ~KeepsCap(Below(u))
    <3>1. CASE Feasible = {}
      BY <2>2, <2>3, <3>1
    <3>2. CASE Feasible # {}
      <4>1. KeepsCap(Heavy(t))
        BY <2>1, <2>3, <3>2 DEF Chosen, Candidates
      <4>2. ServedHeavy \in SUBSET Heavy(t)
        BY <1>1, <2>1, ServedAsTuned
      <4>3. /\ Cardinality(ServedHeavy) \in Nat
            /\ Cardinality(ServedHeavy) <= Cardinality(Heavy(t))
        BY <1>1, <4>2, FlowSets DEF Heavy
      <4>4. Len(val) \in Nat /\ MAX_HEAVY_PERCENT \in Nat
        BY <1>1, ThresholdTuningAssumption DEF TuningInv
      <4>5. MAX_HEAVY_PERCENT * Len(val) \in Int
        BY <4>4
      <4> QED BY <2>4, <4>1, <4>3, <4>5 DEF KeepsCap
    <3> QED BY <3>1, <3>2
  <2> QED BY <2>3, <2>6, <2>7 DEF BestUnderCap
<1>2. TuningInv => BestUnderCap
  BY <1>1 DEF BestUnderCap
<1> QED BY <1>2, TuningInvariance, ReplayTunes, PTL
------------------------------------------------------------------------------
(* The schedule                                                             *)

Catches == { i \in DOMAIN delivered : Overtaken(i) }

(* What a call does to the flows before it and to its own.                  *)
Handed(at, duration) ==
  /\ delivered' = Append(delivered, at) /\ latencies' = Append(latencies, duration)
  /\ time' = at + duration
  /\ UNCHANGED interval

LEMMA InitPaced == ReplayInit => PaceInv
<1> SUFFICES ASSUME ReplayInit PROVE PaceInv
  OBVIOUS
<1>1. /\ interval \in Nat /\ backlogged = 0 /\ next_due = 0 /\ time = 0
      /\ delivered = <<>> /\ latencies = <<>>
  BY StreamReplayAssumption DEF ReplayInit
<1>2. /\ delivered \in Seq(Nat) /\ latencies \in Seq(Nat)
      /\ Len(delivered) = 0 /\ Len(latencies) = 0 /\ DOMAIN delivered = {}
  BY <1>1
<1>3. Cardinality({ i \in DOMAIN delivered : Overtaken(i) }) = 0
  BY <1>2, FS_EmptySet
<1>4. next_due = Len(delivered) * interval
  BY <1>1, <1>2
<1> QED BY <1>1, <1>2, <1>3, <1>4 DEF PaceInv

LEMMA EarlierFlowsStay ==
  ASSUME PaceInv, NEW at \in Nat, NEW duration \in Nat, Handed(at, duration)
  PROVE  LET n == Len(delivered)
         IN  /\ n \in Nat /\ DOMAIN delivered = 1 .. n /\ DOMAIN delivered' = 1 .. n + 1
             /\ delivered' \in Seq(Nat) /\ latencies' \in Seq(Nat)
             /\ Len(delivered') = n + 1 /\ Len(latencies') = n + 1
             /\ delivered'[n + 1] = at /\ latencies'[n + 1] = duration
             /\ \A i \in 1 .. n : /\ delivered'[i] = delivered[i]
                                  /\ latencies'[i] = latencies[i]
             /\ \A i \in 1 .. n : Overtaken(i)' <=> Overtaken(i)
             /\ \A i \in 1 .. n + 1 : Due(i)' = Due(i)
<1> DEFINE n == Len(delivered)
<1>1. /\ delivered \in Seq(Nat) /\ latencies \in Seq(Nat) /\ Len(latencies) = n
      /\ n \in Nat /\ DOMAIN delivered = 1 .. n
  BY DEF PaceInv
<1>2. delivered' = Append(delivered, at) /\ latencies' = Append(latencies, duration)
  BY DEF Handed
<1>3. /\ delivered' \in Seq(Nat) /\ latencies' \in Seq(Nat)
      /\ Len(delivered') = n + 1 /\ Len(latencies') = n + 1
      /\ delivered'[n + 1] = at /\ latencies'[n + 1] = duration
      /\ \A i \in 1 .. n : /\ delivered'[i] = delivered[i]
                           /\ latencies'[i] = latencies[i]
  BY <1>1, <1>2, AppendProperties
<1>4. DOMAIN delivered' = 1 .. n + 1
  BY <1>3
<1> HIDE DEF n
<1>5. \A i : Due(i)' = Due(i)
  BY DEF Handed, Due
<1>6. \A i \in 1 .. n : i # 1 => i - 1 \in 1 .. n
  BY <1>1
<1>7. \A i \in 1 .. n : Overtaken(i)' <=> Overtaken(i)
  BY <1>3, <1>5, <1>6 DEF Overtaken
<1> QED BY <1>1, <1>3, <1>4, <1>5, <1>7 DEF n

(* The flow that is handed over comes on time, or when the one before it is *)
(* done; it is counted exactly in the second case.                          *)
LEMMA FlowPaced ==
  ASSUME PaceInv, NEW duration \in Durations, NEW benign \in BOOLEAN,
         ReplayFlow(duration, benign)
  PROVE  PaceInv'
<1>0. PICK n \in Nat : n = Len(delivered)
  BY DEF PaceInv
<1>at. PICK at : at = IF Sleeps THEN next_due ELSE time
  OBVIOUS
<1>1. /\ interval \in Nat /\ backlogged \in Nat
      /\ DOMAIN delivered = 1 .. n
      /\ next_due = n * interval /\ duration \in Nat
      /\ delivered \in Seq(Nat) /\ latencies \in Seq(Nat) /\ Len(latencies) = n
  BY <1>0, StreamReplayAssumption DEF PaceInv
<1>2. n * interval \in Nat /\ (n + 1) * interval = n * interval + interval
  BY <1>1
<1>3. delivered # <<>> => /\ n \in 1 .. n /\ delivered[n] \in Nat /\ latencies[n] \in Nat
                          /\ time = delivered[n] + latencies[n]
  <2>1. delivered # <<>> => n # 0
    BY <1>1
  <2>2. delivered # <<>> => n \in 1 .. n
    BY <1>1, <2>1
  <2>3. n \in 1 .. n => delivered[n] \in Nat /\ latencies[n] \in Nat
    BY <1>1
  <2> QED BY <1>0, <2>2, <2>3 DEF PaceInv
<1>4. n = 0 => delivered = <<>> /\ time = 0 /\ next_due = 0
  BY <1>1 DEF PaceInv
<1>5. time \in Nat /\ next_due \in Nat /\ at \in Nat
  <2>1. CASE delivered = <<>>
    BY <1>at, <1>1, <1>2, <2>1 DEF PaceInv
  <2>2. CASE delivered # <<>>
    BY <1>at, <1>1, <1>2, <1>3, <2>2
  <2> QED BY <2>1, <2>2
<1>6. /\ Handed(at, duration)
      /\ backlogged' = backlogged + (IF interval = 0 \/ Sleeps THEN 0 ELSE 1)
      /\ next_due' = next_due + interval
  BY <1>at DEF ReplayFlow, Pace, Handed
<1>7. /\ DOMAIN delivered = 1 .. n /\ DOMAIN delivered' = 1 .. n + 1
      /\ delivered' \in Seq(Nat) /\ latencies' \in Seq(Nat)
      /\ Len(delivered') = n + 1 /\ Len(latencies') = n + 1
      /\ delivered'[n + 1] = at /\ latencies'[n + 1] = duration
      /\ \A i \in 1 .. n : delivered'[i] = delivered[i] /\ latencies'[i] = latencies[i]
      /\ \A i \in 1 .. n : Overtaken(i)' <=> Overtaken(i)
      /\ \A i \in 1 .. n + 1 : Due(i)' = Due(i)
  BY <1>0, <1>1, <1>5, <1>6, EarlierFlowsStay
<1>8. /\ interval' = interval /\ time' = at + duration /\ delivered' # <<>>
      /\ Len(latencies') = Len(delivered')
      /\ next_due' = Len(delivered') * interval'
      /\ backlogged' \in Nat
  <2>1. interval' = interval /\ time' = at + duration
    BY <1>6 DEF Handed
  <2>2. delivered' # <<>> /\ Len(latencies') = Len(delivered')
    BY <1>0, <1>7
  <2>3. backlogged' \in Nat
    BY <1>1, <1>6
  <2> QED BY <1>1, <1>2, <1>6, <1>7, <2>1, <2>2, <2>3
<1>9. time' = delivered'[Len(delivered')] + latencies'[Len(delivered')]
  BY <1>7, <1>8
<1>10. Due(n + 1) = next_due
  BY <1>1 DEF Due
<1>11. ASSUME interval > 0
       PROVE  /\ Overtaken(n + 1)' <=> ~Sleeps
              /\ at = IF Overtaken(n + 1)' /\ n + 1 > 1 THEN delivered'[n] + latencies'[n]
                      ELSE Due(n + 1)
  <2>1. CASE n = 0
    <3>1. Overtaken(n + 1)' /\ ~Sleeps
      BY <1>4, <1>11, <2>1 DEF Overtaken, Sleeps
    <3> QED BY <1>at, <1>4, <1>10, <2>1, <3>1
  <2>2. CASE n # 0
    <3>1. /\ n \in 1 .. n /\ time = delivered[n] + latencies[n]
          /\ delivered'[n] = delivered[n] /\ latencies'[n] = latencies[n]
      <4>1. delivered # <<>>
        BY <1>0, <2>2
      <4> QED BY <1>3, <1>7, <4>1
    <3>2. (n + 1) - 1 = n /\ n + 1 # 1 /\ n + 1 > 1
      BY <1>1, <2>2
    <3>3. Overtaken(n + 1)' <=> time >= next_due
      <4>1. Due(n + 1)' = next_due
        BY <1>1, <1>7, <1>10
      <4> QED BY <3>1, <3>2, <4>1 DEF Overtaken
    <3>4. Sleeps <=> ~(time >= next_due)
      BY <1>5, <1>11 DEF Sleeps
    <3> QED BY <1>at, <1>10, <3>1, <3>2, <3>3, <3>4
  <2> QED BY <2>1, <2>2
<1>12. ASSUME interval > 0
       PROVE  \A i \in DOMAIN delivered' :
                delivered'[i] = IF Overtaken(i)' /\ i > 1
                                  THEN delivered'[i - 1] + latencies'[i - 1] ELSE Due(i)'
  <2> SUFFICES ASSUME NEW i \in 1 .. n + 1
               PROVE  delivered'[i] = IF Overtaken(i)' /\ i > 1
                                        THEN delivered'[i - 1] + latencies'[i - 1] ELSE Due(i)'
    BY <1>7
  <2>1. CASE i \in 1 .. n
    <3>1. delivered[i] = IF Overtaken(i) /\ i > 1
                           THEN delivered[i - 1] + latencies[i - 1] ELSE Due(i)
      BY <1>7, <1>12, <2>1 DEF PaceInv
    <3>2. i > 1 => i - 1 \in 1 .. n
      BY <1>1, <2>1
    <3> QED BY <1>7, <2>1, <3>1, <3>2
  <2>2. CASE i = n + 1
    <3>1. i - 1 = n
      BY <1>1, <2>2
    <3> QED BY <1>7, <1>11, <1>12, <2>2, <3>1
  <2> QED BY <1>1, <2>1, <2>2
<1>13. ASSUME interval > 0
       PROVE  backlogged' = Cardinality(Catches')
  <2>1. Catches \subseteq 1 .. n /\ IsFiniteSet(Catches) /\ n + 1 \notin Catches
    <3>1. Catches \subseteq 1 .. n /\ IsFiniteSet(1 .. n)
      BY <1>1, <1>7, FS_Interval DEF Catches
    <3>2. IsFiniteSet(Catches)
      BY <3>1, FS_Subset
    <3>3. n + 1 \notin 1 .. n
      OBVIOUS
    <3> QED BY <3>1, <3>2, <3>3
  <2>2. backlogged = Cardinality(Catches)
    BY <1>13 DEF PaceInv, Catches
  <2>3. Catches' = { i \in 1 .. n + 1 : Overtaken(i)' }
    BY <1>7 DEF Catches
  <2>4. Catches = { i \in 1 .. n : Overtaken(i)' }
    BY <1>7 DEF Catches
  <2>5. 1 .. n + 1 = (1 .. n) \cup {n + 1}
    BY <1>1
  <2>6. CASE Sleeps
    <3>1. Catches' = Catches
      BY <1>11, <1>13, <2>3, <2>4, <2>5, <2>6
    <3> QED BY <1>1, <1>6, <2>2, <2>6, <3>1
  <2>7. CASE ~Sleeps
    <3>1. Catches' = Catches \cup {n + 1}
      BY <1>11, <1>13, <2>3, <2>4, <2>5, <2>7
    <3>2. Cardinality(Catches') = Cardinality(Catches) + 1
      BY <2>1, <3>1, FS_AddElement
    <3>3. backlogged' = backlogged + 1
      BY <1>1, <1>6, <1>13, <2>7
    <3> QED BY <2>2, <3>2, <3>3
  <2> QED BY <2>6, <2>7
<1> QED BY <1>7, <1>8, <1>9, <1>12, <1>13 DEF PaceInv, Catches

LEMMA PaceKept == PaceInv /\ [ReplayNext]_<<vars, replayVars>> => PaceInv'
<1> SUFFICES ASSUME PaceInv, [ReplayNext]_<<vars, replayVars>> PROVE PaceInv'
  OBVIOUS
<1>1. ASSUME UNCHANGED <<interval, time, next_due, backlogged, latencies, delivered>>
      PROVE  PaceInv'
  BY <1>1 DEF PaceInv, Overtaken, Due
<1>2. CASE \E duration \in Durations, benign \in BOOLEAN : ReplayFlow(duration, benign)
  BY <1>2, FlowPaced
<1> QED BY <1>1, <1>2 DEF ReplayNext, Tune, Close, Killed, replayVars

(* At a given rate no flow is handed on before its time, a late one delays  *)
(* none but those that it makes wait, and every late flow is counted        *)
(* (replay_stream.py:45-49).                                                *)
THEOREM ScheduleKept == ReplaySpec => []PacedOrCounted
<1>1. ASSUME PaceInv, interval > 0
      PROVE  Cardinality(Late) <= backlogged
  <2>1. Late \in SUBSET Catches
    <3>1. \A i \in DOMAIN delivered : i \in Int /\ delivered[i] \in Int
      BY <1>1 DEF PaceInv
    <3>2. \A i \in DOMAIN delivered : ~Overtaken(i) => delivered[i] = Due(i) /\ Due(i) \in Int
      BY <1>1, <3>1 DEF PaceInv
    <3>3. \A i \in DOMAIN delivered : delivered[i] > Due(i) => Overtaken(i)
      BY <3>2
    <3> QED BY <3>3 DEF Late, Catches
  <2>2. IsFiniteSet(Catches)
    <3>1. DOMAIN delivered = 1 .. Len(delivered) /\ Len(delivered) \in Nat
      BY <1>1 DEF PaceInv
    <3>2. IsFiniteSet(DOMAIN delivered) /\ Catches \in SUBSET DOMAIN delivered
      BY <3>1, FS_Interval DEF Catches
    <3> QED BY <3>2, FS_Subset
  <2>3. backlogged = Cardinality(Catches)
    BY <1>1 DEF PaceInv, Catches
  <2> QED BY <2>1, <2>2, <2>3, FS_Subset
<1>2. PaceInv => PacedOrCounted
  BY <1>1 DEF PaceInv, PacedOrCounted
<1> QED BY <1>2, InitPaced, PaceKept, PTL DEF ReplaySpec

------------------------------------------------------------------------------
(* The alerts                                                               *)

LEMMA InitAlerts == ReplayInit => AlertInv
<1> SUFFICES ASSUME ReplayInit PROVE AlertInv
  OBVIOUS
<1>1. <<>> \in Seq(Nat) /\ <<>> \o <<>> = <<>>
  BY ConcatEmptySeq
<1> QED BY <1>1 DEF ReplayInit, AlertInv

(* An alert that is written comes after all others.                         *)
LEMMA WriteAppends ==
  ASSUME out \in Seq(Nat), buffer \in Seq(Nat), NEW alert \in Nat, Write(alert)
  PROVE  /\ out' \in Seq(Nat) /\ buffer' \in Seq(Nat)
         /\ out' \o buffer' = Append(out \o buffer, alert)
<1>1. <<alert>> \in Seq(Nat) /\ <<>> \in Seq(Nat)
  OBVIOUS
<1>2. /\ Append(buffer, alert) \in Seq(Nat)
      /\ out \o buffer \in Seq(Nat) /\ out \o Append(buffer, alert) \in Seq(Nat)
  BY AppendProperties, ConcatProperties
<1>3. out \o Append(buffer, alert) = Append(out \o buffer, alert)
  <2>1. Append(buffer, alert) = buffer \o <<alert>>
    BY AppendIsConcat
  <2>2. Append(out \o buffer, alert) = (out \o buffer) \o <<alert>>
    BY <1>2, AppendIsConcat
  <2>3. (out \o buffer) \o <<alert>> = out \o (buffer \o <<alert>>)
    BY <1>1, ConcatAssociative
  <2> QED BY <2>1, <2>2, <2>3
<1>4. CASE buffer' = Append(buffer, alert) /\ out' = out
  BY <1>2, <1>3, <1>4
<1>5. CASE buffer' = <<>> /\ out' = out \o Append(buffer, alert)
  <2>1. (out \o Append(buffer, alert)) \o <<>> = out \o Append(buffer, alert)
    BY <1>2, ConcatEmptySeq
  <2> QED BY <1>1, <1>2, <1>3, <1>5, <2>1
<1> QED BY <1>4, <1>5 DEF Write

LEMMA AlertsKept == AlertInv /\ PaceInv' /\ [ReplayNext]_<<vars, replayVars>> => AlertInv'
<1> SUFFICES ASSUME AlertInv, PaceInv', [ReplayNext]_<<vars, replayVars>> PROVE AlertInv'
  OBVIOUS
<1>1. ASSUME NEW duration \in Durations, NEW benign \in BOOLEAN, ReplayFlow(duration, benign)
      PROVE  AlertInv'
  <2>2. Len(delivered') \in Nat
    BY DEF PaceInv
  <2>3. phase = "running" /\ phase' = phase /\ out \o buffer = alerts
    BY <1>1 DEF ReplayFlow, AlertInv
  <2>4. CASE benign
    BY <1>1, <2>2, <2>3, <2>4 DEF ReplayFlow, AlertInv
  <2>5. CASE ~benign
    <3>1. alerts' = Append(alerts, Len(delivered')) /\ Write(Len(delivered'))
      BY <1>1, <2>5 DEF ReplayFlow
    <3>2. alerts' \in Seq(Nat)
      BY <2>2, <3>1, AppendProperties DEF AlertInv
    <3>3. /\ out' \in Seq(Nat) /\ buffer' \in Seq(Nat)
          /\ out' \o buffer' = Append(out \o buffer, Len(delivered'))
      BY <2>2, <3>1, WriteAppends DEF AlertInv
    <3> QED BY <2>2, <2>3, <3>1, <3>2, <3>3 DEF AlertInv
  <2> QED BY <2>4, <2>5
<1>2. CASE Close
  BY <1>2, ConcatProperties DEF Close, AlertInv
<1>3. CASE Killed
  BY <1>3 DEF Killed, AlertInv
<1>4. CASE Tune \/ UNCHANGED <<vars, replayVars>>
  BY <1>4 DEF Tune, replayVars, AlertInv
<1> QED BY <1>1, <1>2, <1>3, <1>4 DEF ReplayNext

(* However the script ends short of being killed, the file has every alert  *)
(* that was counted, once and in order, whatever the buffer holds           *)
(* (replay_stream.py:10-12, 117).                                           *)
THEOREM EveryAlertWritten == ReplaySpec => []AlertsComplete
<1>1. AlertInv => AlertsComplete
  BY DEF AlertInv, AlertsComplete
<1> QED BY <1>1, InitPaced, PaceKept, InitAlerts, AlertsKept, PTL DEF ReplaySpec
==============================================================================
