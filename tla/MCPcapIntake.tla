---------------------------- MODULE MCPcapIntake -----------------------------
(* Files of one packet stream: a connection that goes on across the     *)
(* rotation, and a datagram.                                                *)
EXTENDS PcapIntake

A == <<1, 10>>
B == <<2, 20>>

Tcp == [src |-> A, dst |-> B, protocol |-> "TCP", tcp_flags |-> {}]
Udp == [src |-> B, dst |-> A, protocol |-> "UDP", tcp_flags |-> {}]

MCHeaders == {Tcp, Udp}
MCTimes == 0 .. 4

Packet(header, ts) == [header |-> header, ts |-> ts, parses |-> TRUE]
Unparsable(ts) == [header |-> Udp, ts |-> ts, parses |-> FALSE]

File(name, first, second) ==
  [name |-> name, packets |-> << Packet(Tcp, first), Packet(Udp, second) >>]

TwoFiles == << File(1, 0, 0), File(2, 1, 2) >>
SameName == << File(1, 0, 0), File(1, 1, 2) >>

(* The third file sorts before the second; the second begins with a frame   *)
(* that is not IP.                                                          *)
ThreeFiles ==
  << File(1, 0, 0),
     [name |-> 3, packets |-> << Unparsable(1), Packet(Tcp, 1) >>],
     [name |-> 2, packets |-> << Packet(Udp, 2) >>] >>
==============================================================================
