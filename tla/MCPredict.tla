----------------------------- MODULE MCPredict -------------------------------
EXTENDS Predict, TLC

CONSTANTS h1, h2, h3, c0, c1, c2

MCHosts == {h1, h2, h3}

Scenario(callers, installed, max_calls) ==
  [callers |-> callers, installed |-> installed, max_calls |-> max_calls]

(* One caller and a scaler that comes later; two callers, with a pickle and *)
(* a network that come later.                                               *)
OneOrTwoCallers ==
  { Scenario({c0}, Artifacts \ {"scaler"}, 6),
    Scenario({c1, c2}, Artifacts \ {"scaler", "heavy"}, 3) }

(* One caller without the networks; two callers with everything.            *)
BareOrComplete ==
  { Scenario({c0}, Pickles, 3), Scenario({c1, c2}, Artifacts, 3) }

(* Hosts are alike, and so are the two callers. *)
Alike == Permutations(MCHosts) \cup Permutations({c1, c2})
==============================================================================
