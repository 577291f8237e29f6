-------------------------- MODULE MCThresholdTuning --------------------------
(* Confidences below, at and between the candidates; calls of predict       *)
(* within the interval of two ticks, and longer.                            *)
EXTENDS StreamReplay

MCConfidences == {40, 50, 75}
MCThetas == {50, 75, 80}
MCIntervals == {0, 2}
MCDurations == {1, 3}
==============================================================================
