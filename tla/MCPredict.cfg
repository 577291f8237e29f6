\* One caller and more hosts than the history holds, or two callers; missing
\* artifacts appear at any time.
CONSTANTS
  h1 = h1
  h2 = h2
  h3 = h3
  c0 = c0
  c1 = c1
  c2 = c2
  Hosts <- MCHosts
  Scenarios <- OneOrTwoCallers
  max_hosts = 2
  seq_len = 2
SPECIFICATION Spec
SYMMETRY Alike
INVARIANTS RetrySucceeds MostRecentKept SequenceAsTrained  SequencesInOrder
CHECK_DEADLOCK FALSE
