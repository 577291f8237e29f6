----------------------------- MODULE FlowLedger ------------------------------
(****************************************************************************)
(* What the flow table promises, without keys, packets or capacity: flows   *)
(* get the ids 1, 2, 3, ..., and a call returns flows exactly when they     *)
(* stop being open.  One call opens at most one flow and returns any number *)
(* of open ones, the flow it has just opened included.                      *)
(****************************************************************************)
EXTENDS Integers

VARIABLES
  opened,     \* how many flows were opened
  open,       \* the ids of those that are still open
  returned    \* the ids that the latest call returned

Init == opened = 0 /\ open = {} /\ returned = {}

(* A call opens the flows in `new` and returns those in `done`. *)
Call(new, done) ==
  /\ done \subseteq open \cup new
  /\ opened' = IF new = {} THEN opened ELSE opened + 1
  /\ open' = (open \cup new) \ done
  /\ returned' = done

Next ==
  \E new \in {{}, {opened + 1}} :
    \E done \in SUBSET (open \cup new) : Call(new, done)

Spec == Init /\ [][Next]_<<opened, open, returned>>
==============================================================================
