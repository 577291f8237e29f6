---------------------------- MODULE FlowEvidence -----------------------------
(****************************************************************************)
(* From the frames of one flow to the alert on it: the DNS and TLS fields   *)
(* that parser, flow builder and feature extractor hand on, the features    *)
(* predict() derives from them, and the evidence that build_alert shows.    *)
(*                                                                          *)
(* What the models answer is open: any verdict and any contributions of the *)
(* features.                                                                *)
(****************************************************************************)
EXTENDS PacketParser, FiniteSets

CONSTANTS
  Frames,          \* frames a flow may consist of
  MaxFrames,       \* bound: frames of the flow
  Classes,         \* verdicts, "benign" among them
  Contributions,   \* SHAP values: functions from Columns to integers
  TopK             \* k of top_features

Columns == << "dns_query_length", "has_dns", "dns_is_A", "has_tls", "tls_sni_length" >>
Column == { Columns[i] : i \in DOMAIN Columns }

ASSUME FlowEvidenceAssumption ==
  /\ MaxFrames \in Nat /\ TopK \in 1 .. Len(Columns)
  /\ "benign" \in Classes
  /\ Contributions \subseteq [Column -> Int]

VARIABLES
  stage,      \* how far the flow is
  frames,     \* history: the frames of the flow, in order
  flow,       \* DNS and TLS fields of its FlowState
  features,   \* what extract returned
  prediction, \* what predict returned
  record      \* what the scripts write: the result and its alert

vars == <<stage, frames, flow, features, prediction, record>>

Init ==
  /\ stage = "open"
  /\ frames = <<>>
  /\ flow = [dns |-> <<>>, tls_seen |-> FALSE, tls_sni |-> NoName]
  /\ features = <<>> /\ prediction = <<>> /\ record = <<>>

(* Mutant: the latest name replaces the first. *)
WithLatestMetadata(f, packet) ==
  [dns |-> IF packet.dns = NoDns THEN f.dns ELSE Append(f.dns, packet.dns),
   tls_seen |-> f.tls_seen \/ packet.tls_handshake,
   tls_sni |-> IF packet.tls_handshake THEN packet.tls_sni ELSE f.tls_sni]

(* The end of _apply_packet. *)
WithMetadata(f, packet) ==
  [dns |-> IF packet.dns = NoDns THEN f.dns ELSE Append(f.dns, packet.dns),
   tls_seen |-> f.tls_seen \/ packet.tls_handshake,
   tls_sni |-> IF packet.tls_handshake /\ f.tls_sni = NoName THEN packet.tls_sni
               ELSE f.tls_sni]

(* A frame of the flow is captured; None is not handed on. *)
Capture(frame) ==
  /\ stage = "open" /\ Len(frames) < MaxFrames
  /\ frames' = Append(frames, frame)
  /\ flow' = IF ParsePacket(frame) = Skipped THEN flow
             ELSE WithMetadata(flow, ParsePacket(frame))
  /\ UNCHANGED <<stage, features, prediction, record>>

(* The mean length of the names, rounded down. *)
MeanLength(dns) ==
  IF dns = <<>> THEN 0
  ELSE FoldLeft(LAMBDA sum, d : sum + d.qname_length, 0, dns) \div Len(dns)

(* Mutant: the record type is that of the first question. *)
ColumnsOfFirst(f) ==
  [dns_query_length |-> MeanLength(f.dns),
   dns_record_type |-> IF f.dns = <<>> THEN "" ELSE Head(f.dns).qtype,
   tls_ja3 |-> IF f.tls_seen THEN "observed" ELSE "",
   tls_sni |-> f.tls_sni]

(* The DNS and TLS columns of a finished flow. *)
RawColumns(f) ==
  [dns_query_length |-> MeanLength(f.dns),
   dns_record_type |-> IF f.dns = <<>> THEN "" ELSE Last(f.dns).qtype,
   tls_ja3 |-> IF f.tls_seen THEN "observed" ELSE "",
   tls_sni |-> f.tls_sni]

Extract ==
  /\ stage = "open" /\ frames # <<>>
  /\ stage' = "extracted"
  /\ features' = RawColumns(flow)
  /\ UNCHANGED <<frames, flow, prediction, record>>

Flag(b) == IF b THEN 1 ELSE 0

(* add_engineered_features of a row that has the raw columns of the schema. *)
AddEngineeredFeatures(row) ==
  [dns_query_length |-> row.dns_query_length,
   has_dns |-> Flag(row.dns_record_type # ""),
   dns_is_A |-> Flag(row.dns_record_type = "A"),
   has_tls |-> Flag(row.tls_ja3 # ""),
   tls_sni_length |-> row.tls_sni.length]

Size(n) == IF n < 0 THEN -n ELSE n
Place(column) == CHOOSE i \in DOMAIN Columns : Columns[i] = column

(* sorted(..., reverse=True) keeps the order of the columns among equals.   *)
RanksBefore(shap, a, b) ==
  Size(shap[a]) > Size(shap[b]) \/ (Size(shap[a]) = Size(shap[b]) /\ Place(a) < Place(b))

TopFeatures(shap) ==
  LET rank(c) == 1 + Cardinality({ d \in Column : RanksBefore(shap, d, c) })
      at(i) == CHOOSE c \in Column : rank(c) = i
  IN  [i \in 1 .. TopK |-> [feature |-> at(i), value |-> shap[at(i)]]]

Predict(verdict, shap) ==
  /\ stage = "extracted"
  /\ stage' = "predicted"
  /\ prediction' = [dl_verdict |-> verdict, shap_evidence |-> TopFeatures(shap)]
  /\ UNCHANGED <<frames, flow, features, record>>

Evidence(row, p) ==
  LET engineered == AddEngineeredFeatures(row)
  IN  [i \in DOMAIN p.shap_evidence |->
         [feature |-> p.shap_evidence[i].feature,
          value |-> engineered[p.shap_evidence[i].feature],
          contribution |-> p.shap_evidence[i].value]]

BuildAlert(row, p) == [threat_class |-> p.dl_verdict, evidence |-> Evidence(row, p)]

(* _result_to_record: an alert, unless the final verdict is benign. *)
WriteRecord ==
  /\ stage = "predicted"
  /\ stage' = "recorded"
  /\ record' = [prediction |-> prediction,
                alerts |-> IF prediction.dl_verdict = "benign" THEN <<>>
                           ELSE << BuildAlert(features, prediction) >>]
  /\ UNCHANGED <<frames, flow, features, prediction>>

Next ==
  \/ \E frame \in Frames : Capture(frame)
  \/ Extract
  \/ \E verdict \in Classes, shap \in Contributions : Predict(verdict, shap)
  \/ WriteRecord

Spec == Init /\ [][Next]_vars

------------------------------------------------------------------------------

(* What the sender of a ClientHello wrote, from the layout of RFC 8446: its *)
(* size, whether its lengths agree, and the name of the server in it.       *)
SizeAsSent(hello) ==
  FoldLeft(LAMBDA a, b : a + b, 0,
    << 1, 2, 2, 1, 3, 2, 32, 1, hello.session_id_len, 2, hello.cipher_suites_len,
       1, hello.compression_len, 2 >>
    \o [j \in DOMAIN hello.extensions |-> 2 + 2 + hello.extensions[j].length])

ServerNames(hello) ==
  { hello.extensions[i] : i \in { j \in DOMAIN hello.extensions :
                                    hello.extensions[j].type = "server_name" } }

WellFormed(hello) ==
  /\ hello.extensions_len = FoldLeft(LAMBDA sum, e : sum + 2 + 2 + e.length, 0, hello.extensions)
  /\ \A e \in ServerNames(hello) : e.name_len > 0 /\ e.length = 2 + 1 + 2 + e.name_len
  /\ \A i, j \in DOMAIN hello.extensions :
       hello.extensions[i].type = hello.extensions[j].type => i = j

Parsed == { k \in DOMAIN frames : frames[k].is_ip /\ ~frames[k].malformed }
Hellos == { k \in Parsed : frames[k].transport = "TCP"
                            /\ frames[k].payload.content = "client_hello" }
Whole(k) ==
  LET payload == frames[k].payload
  IN  WellFormed(payload.hello) /\ payload.size = SizeAsSent(payload.hello)

(* The name that the flow's first segment with one gives in full.           *)
FirstName ==
  LET named == { k \in Hellos : ServerNames(frames[k].payload.hello) # {} }
  IN  IF named = {} THEN NoName
      ELSE LET k == CHOOSE j \in named : \A l \in named : j <= l
               e == CHOOSE x \in ServerNames(frames[k].payload.hello) : TRUE
           IN  [name |-> e.name, length |-> e.name_len]

(* packet_parser.py:45-50, flow_builder.py:228-230: whatever its segments   *)
(* declare and wherever they are cut, a flow is never given a name that no  *)
(* ClientHello of its own begins with, and one without a ClientHello is     *)
(* reported without TLS; when all that are there are whole and well-formed, *)
(* the name reported is the first one sent, in full.                        *)
NameFromHello ==
  stage = "extracted" =>
    /\ features.tls_sni # NoName =>
         \E k \in Hellos : \E e \in ServerNames(frames[k].payload.hello) :
           /\ features.tls_sni.name = e.name
           /\ features.tls_sni.length \in 1 .. Lesser(e.name_len, e.length - 5)
    /\ Hellos = {} => features.tls_ja3 = ""
    /\ (\A k \in Hellos : Whole(k)) =>
         /\ features.tls_sni = FirstName
         /\ FirstName # NoName => features.tls_ja3 = "observed"

(* What the frames of the flow say of each column, by themselves.           *)
Questions == { k \in Parsed : frames[k].dns # NoDns }
Sent ==
  [dns_query_length |-> IF Questions = {} THEN 0
                        ELSE MapThenSumSet(LAMBDA k : frames[k].dns.qname_length, Questions)
                               \div Cardinality(Questions),
   has_dns |-> Flag(Questions # {}),
   dns_is_A |-> Flag(\E k \in Questions : /\ frames[k].dns.qtype = "A"
                                          /\ \A l \in Questions : l <= k),
   has_tls |-> Flag(Hellos # {}),
   tls_sni_length |-> FirstName.length]

(* alerts.py:37-42 and 46-47, evidence with "the flow's actual feature      *)
(* value": for every feature an alert shows, the value is what the frames   *)
(* of the flow say, from parser to alert; of TLS, when its ClientHellos are *)
(* whole and well-formed and one of them names a server.                    *)
EvidenceOfFrames ==
  stage = "recorded" => \A a \in DOMAIN record.alerts : \A i \in DOMAIN record.alerts[a].evidence :
    LET shown == record.alerts[a].evidence[i]
        of_tls == shown.feature \in {"has_tls", "tls_sni_length"}
    IN  (of_tls /\ Hellos # {} => FirstName # NoName /\ \A k \in Hellos : Whole(k))
          => shown.value = Sent[shown.feature]

(* packet_parser.py:48-49, "Returns None for anything that isn't a          *)
(* well-formed ClientHello": a name that is reported stands in full in a    *)
(* whole one.  The walk takes what is there, from a cut segment and from    *)
(* one whose lengths disagree: MCEvidenceName.cfg refutes it.               *)
NameIsWhole ==
  flow.tls_sni # NoName =>
    \E k \in Hellos : /\ Whole(k)
                      /\ \E e \in ServerNames(frames[k].payload.hello) :
                           flow.tls_sni = [name |-> e.name, length |-> e.name_len]

(* ingest/README.md:158-160, "only handshake *presence* is captured, which  *)
(* is what ... has_tls signal uses": a flow with a whole ClientHello is a   *)
(* TLS flow.  One without a server name is not: MCEvidenceHandshake.cfg     *)
(* refutes it.                                                              *)
HandshakeNoticed ==
  stage # "open" => ((\E k \in Hellos : Whole(k)) => features.tls_ja3 = "observed")
==============================================================================
