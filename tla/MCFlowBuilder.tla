---------------------------- MODULE MCFlowBuilder ----------------------------
(* Three hosts.  A TCP conversation in both directions with its FIN, one    *)
(* whose first packet can come from the higher endpoint, a UDP and an ICMP  *)
(* flow: enough keys to overflow a table of two flows.                      *)
EXTENDS FlowBuilder

A == <<1, 10>>
B == <<2, 20>>
C == <<3, 30>>

Packet(src, dst, protocol, flags) ==
  [src |-> src, dst |-> dst, protocol |-> protocol, tcp_flags |-> flags]

MCHeaders ==
  { Packet(A, B, "TCP", {}), Packet(B, A, "TCP", {}), Packet(B, A, "TCP", {"F"}),
    Packet(A, C, "UDP", {}), Packet(<<3, NoPort>>, <<2, NoPort>>, "ICMP", {}) }

(* The two directions of one connection, and what can push it out. *)
ConversationHeaders ==
  { Packet(A, B, "TCP", {}), Packet(B, A, "TCP", {}), Packet(B, A, "TCP", {"F"}),
    Packet(C, A, "UDP", {}) }

ConversationTimes == {0, 2}

MCTimes == 0 .. 2
==============================================================================
