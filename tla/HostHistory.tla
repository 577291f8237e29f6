----------------------------- MODULE HostHistory -----------------------------
(****************************************************************************)
(* The rows of recent flows that the heavy model sees for a host: class     *)
(* _HostHistory of ml_dl/host_history.py, the padding of predict_interface  *)
(* and the batch construction of the same sequences in ml_dl/data_utils.py. *)
(*                                                                          *)
(* The OrderedDict is the sequence of its items, the least recently touched *)
(* host first.  An item refers to the host's deque by its number in the     *)
(* order of creation: a caller can hold a deque that another has replaced.  *)
(* A row is the number of the flow it was computed from.                    *)
(****************************************************************************)
EXTENDS Integers, Sequences, FiniteSets

CONSTANTS max_hosts, seq_len

(* popitem on an empty dict and deque(maxlen=0) are not usable settings. *)
ASSUME HostHistoryAssumption == max_hosts \in Nat \ {0} /\ seq_len \in Nat \ {0}

Capped(rows) ==
  IF Len(rows) > seq_len THEN SubSeq(rows, Len(rows) - seq_len + 1, Len(rows)) ELSE rows

Holds(data, host) == \E i \in DOMAIN data : data[i].host = host

(* Mutant: the dict keeps its insertion order. *)
MoveNowhere(data, host) == data

(* move_to_end, of a host that has rows. *)
MoveToEnd(data, host) ==
  LET p == CHOOSE i \in DOMAIN data : data[i].host = host
  IN  [i \in DOMAIN data |->
         IF i < p THEN data[i] ELSE IF i < Len(data) THEN data[i + 1] ELSE data[p]]

(* data[host] = deque: in the place the host has, or at the end. *)
Insert(data, host, deque) ==
  IF Holds(data, host)
    THEN [i \in DOMAIN data |-> IF data[i].host = host THEN [host |-> host, deque |-> deque]
                                                       ELSE data[i]]
    ELSE Append(data, [host |-> host, deque |-> deque])

(* Mutant: the deque of the most recent host, whoever that is by now. *)
LastDeque(data, host) == data[Len(data)].deque

(* data[host], of a host that has one. *)
DequeOf(data, host) ==
  (CHOOSE item \in { data[i] : i \in DOMAIN data } : item.host = host).deque

(* _sequence_for: a short window is filled up with its first row, in front. *)
Padded(window) ==
  LET missing == seq_len - Len(window)
  IN  [i \in 1 .. seq_len |-> window[IF i <= missing THEN 1 ELSE i - missing]]

(* build_sequences: the sequence of every row of a whole table at once.     *)
BuildSequences(table) ==
  LET buffers[n \in 0 .. Len(table)] ==
        IF n = 0 THEN [h \in { table[i].host : i \in DOMAIN table } |-> <<>>]
        ELSE [buffers[n - 1] EXCEPT ![table[n].host] = Capped(Append(@, table[n].row))]
  IN  [n \in DOMAIN table |-> Padded(buffers[n][table[n].host])]
==============================================================================
