----------------------------- MODULE MCPipeline ------------------------------
EXTENDS Pipeline

A == <<1, 10>>
B == <<2, 20>>
C == <<3, 30>>

Packet(src, dst, protocol, flags) ==
  [src |-> src, dst |-> dst, protocol |-> protocol, tcp_flags |-> flags]

(* One source with two connections, one of which can close, and a datagram. *)
MCHeaders ==
  { Packet(A, B, "TCP", {}), Packet(A, C, "TCP", {}), Packet(A, C, "TCP", {"F"}),
    Packet(A, C, "UDP", {}) }

MCTimes == 0 .. 2
==============================================================================
