--------------------------- MODULE MCSourceHistory ---------------------------
(* Two sources, three targets that share addresses and ports, one of them   *)
(* without a port (ICMP): fan-outs and flow counts differ.                  *)
EXTENDS SourceHistorySpec

MCSources == {1, 2}
MCTargets == { <<5, 80>>, <<6, 80>>, <<6, NoPort>> }
==============================================================================
