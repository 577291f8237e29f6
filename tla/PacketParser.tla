---------------------------- MODULE PacketParser -----------------------------
(****************************************************************************)
(* parse_packet of ingest/packet_parser.py: what a captured frame says, and *)
(* the walk through a TLS ClientHello to the name of the server.            *)
(*                                                                          *)
(* A payload is the first part, "size" bytes long, of what its sender       *)
(* wrote; a ClientHello is the lengths it declares for its sections, which  *)
(* need not agree, and the extensions that its bytes read as, also behind   *)
(* the declared end of the list.  Names are ASCII; the name a walk finds is *)
(* a name with the number of its characters that were read.                 *)
(****************************************************************************)
EXTENDS Integers, Sequences, SequencesExt

NoName == [name |-> "none", length |-> 0]
NoDns == [qname_length |-> 0, qtype |-> "none"]

RecordHeader == 5           \* type(1), version(2), length(2)
HelloHeader == 4 + 2 + 32   \* type and length, client_version, random

Lesser(a, b) == IF a < b THEN a ELSE b

(* Bytes of a list of extensions: type(2) and length(2) before each. *)
Bytes(extensions) ==
  FoldLeft(LAMBDA sum, extension : sum + 4 + extension.length, 0, extensions)

(* Where the sections begin that the walk tests for. *)
CiphersAt(hello) == HelloHeader + 1 + hello.session_id_len
CompressionAt(hello) == CiphersAt(hello) + 2 + hello.cipher_suites_len
ExtensionsAt(hello) == CompressionAt(hello) + 1 + hello.compression_len
ExtensionAt(hello, i) == ExtensionsAt(hello) + 2 + Bytes(SubSeq(hello.extensions, 1, i - 1))
ExtensionsEnd(hello) == ExtensionsAt(hello) + 2 + hello.extensions_len

(* The bytes of an extension's body that are in the segment. *)
BodySize(hello, i, available) ==
  Lesser(hello.extensions[i].length, available - ExtensionAt(hello, i) - 4)

(* A server_name extension with more than list length(2), type(1) and name  *)
(* length(2).                                                               *)
HasName(hello, i, available) ==
  /\ hello.extensions[i].type = "server_name"
  /\ ExtensionAt(hello, i) + 4 <= Lesser(ExtensionsEnd(hello), available)
  /\ BodySize(hello, i, available) > 5

(* _extract_tls_sni: a section that does not begin within the segment ends  *)
(* the walk; a name is read as far as its length, its extension and the     *)
(* segment allow.                                                           *)
ExtractTlsSni(payload) ==
  LET hello == payload.hello
      available == payload.size - RecordHeader
      named == { i \in DOMAIN hello.extensions : HasName(hello, i, available) }
      i == CHOOSE j \in named : \A k \in named : j <= k
  IN  IF /\ payload.size >= 6
         /\ payload.content = "client_hello"
         /\ available > HelloHeader
         /\ available >= CiphersAt(hello) + 2
         /\ available > CompressionAt(hello)
         /\ available >= ExtensionsAt(hello) + 2
         /\ named # {}
        THEN [name |-> hello.extensions[i].name,
              length |-> Lesser(hello.extensions[i].name_len,
                                BodySize(hello, i, available) - 5)]
        ELSE NoName

(* What parse_packet answers for a frame that is not IP, or that it fails   *)
(* on: None, here a packet with no protocol.                                *)
Skipped == [protocol |-> "none", dns |-> NoDns, tls_handshake |-> FALSE, tls_sni |-> NoName]

(* Fields of DNS are read whatever carries them; a question that cannot be  *)
(* read is left out.  A ClientHello counts if a name was found in it.       *)
ParsePacket(frame) ==
  IF ~frame.is_ip \/ frame.malformed
    THEN Skipped
    ELSE LET sni == IF frame.transport = "TCP" THEN ExtractTlsSni(frame.payload) ELSE NoName
         IN  [protocol |-> frame.transport,
              dns |-> frame.dns,
              tls_handshake |-> sni.length > 0,
              tls_sni |-> IF sni.length > 0 THEN sni ELSE NoName]
==============================================================================
