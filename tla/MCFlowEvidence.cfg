\* Flows of two frames: every cut of ClientHellos whose lengths agree and of some
\* whose lengths do not, DNS questions and frames that are not parsed.
CONSTANTS
  Frames <- MCFrames
  MaxFrames = 2
  Classes = {"benign", "beacon"}
  Contributions <- MCContributions
  TopK = 2
SPECIFICATION Spec
INVARIANTS NameFromHello EvidenceOfFrames
CHECK_DEADLOCK FALSE
