--------------------------- MODULE MCFlowEvidence ----------------------------
EXTENDS FlowEvidence

ServerName(name, length) ==
  [type |-> "server_name", length |-> 5 + length, name |-> name, name_len |-> length]
Other(length) == [type |-> "other", length |-> length, name |-> "none", name_len |-> 0]

Hello(session, extensions) ==
  [session_id_len |-> session, cipher_suites_len |-> 2, compression_len |-> 1,
   extensions_len |-> Bytes(extensions), extensions |-> extensions]

(* A name at the end, a name at the beginning, none.                        *)
MCHellos == { Hello(0, << Other(1), ServerName("a", 3) >>),
              Hello(2, << ServerName("b", 2), Other(0) >>),
              Hello(0, << Other(2) >>) }

(* Two names; a name longer and one shorter than its extension has room     *)
(* for, and an empty one; a list that ends before the name, and one that    *)
(* ends behind the segment.                                                 *)
Inconsistent ==
  LET two == Hello(0, << ServerName("a", 1), ServerName("b", 1) >>)
      one == Hello(0, << ServerName("a", 2) >>)
  IN  { two, [two EXCEPT !.extensions_len = 3], [one EXCEPT !.extensions_len = 200] }
      \cup { [one EXCEPT !.extensions[1].name_len = n] : n \in {0, 1, 9} }

Payload(content, hello, size) == [content |-> content, hello |-> hello, size |-> size]
NoHello == Hello(0, <<>>)
Empty == Payload("data", NoHello, 0)

Frame(transport, payload, dns) ==
  [is_ip |-> TRUE, malformed |-> FALSE, transport |-> transport, payload |-> payload,
   dns |-> dns]

(* A ClientHello may end with the segment anywhere from within its header.  *)
Segments ==
  { Frame("TCP", Payload("client_hello", hello, size), NoDns) :
      hello \in MCHellos \cup Inconsistent, size \in {5, 6} \cup 42 .. 70 }

Question(length, type) == [qname_length |-> length, qtype |-> type]

MCFrames ==
  { f \in Segments : f.payload.size <= SizeAsSent(f.payload.hello) }
  \cup { Frame("TCP", Payload("data", NoHello, 60), NoDns),
         Frame("TCP", Payload("handshake", NoHello, 60), NoDns),
         Frame("UDP", Empty, Question(4, "A")), Frame("UDP", Empty, Question(2, "OTHER")),
         Frame("ICMP", Empty, NoDns),
         [Frame("TCP", Empty, Question(4, "A")) EXCEPT !.is_ip = FALSE],
         [Frame("UDP", Empty, Question(4, "A")) EXCEPT !.malformed = TRUE] }

MCContributions ==
  { [c \in Column |-> CASE c = "has_dns" -> -3 [] c = "dns_is_A" -> 2 [] OTHER -> 1],
    [c \in Column |-> CASE c = "has_tls" -> 2 [] c = "tls_sni_length" -> -2 [] OTHER -> 0],
    [c \in Column |-> CASE c = "dns_query_length" -> 1 [] OTHER -> 0] }
==============================================================================
