-------------------------------- MODULE Outbox --------------------------------
(***************************************************************************)
(* What sender.py and retry_queue.py promise together, with no threads, no *)
(* queue and no network: the life of each payload given to the sender.     *)
(***************************************************************************)
CONSTANTS
  Payloads,
  Unencodable   \* payloads that JSON cannot express

VARIABLES
  status,       \* what has become of each payload
  up            \* does the process run?

Init ==
  /\ status = [p \in Payloads |-> "new"]
  /\ up = TRUE

Become(P, s) == status' = [p \in Payloads |-> IF p \in P THEN s ELSE status[p]]

\* A thread of the agent hands the payload to the sender.
Submit(p) == status[p] = "new" /\ Become({p}, "pending")

\* The backend takes it; it may do so after a copy of it was evicted.
Deliver(p) ==
  /\ p \notin Unencodable
  /\ status[p] \in {"pending", "discarded"}
  /\ Become({p}, "delivered")

\* A full queue evicts it.
Discard(p) == p \notin Unencodable /\ status[p] = "pending" /\ Become({p}, "discarded")

\* It cannot be sent at all, and its sender gets an exception.
Refuse(p) == p \in Unencodable /\ status[p] = "pending" /\ Become({p}, "refused")

\* The process dies; what it had not saved is lost, and nothing else ever is.
Die ==
  /\ up /\ up' = FALSE
  /\ \E P \in SUBSET { p \in Payloads : status[p] = "pending" } : Become(P, "lost")

Revive == ~up /\ up' = TRUE /\ UNCHANGED status

Next ==
  \/ up /\ UNCHANGED up /\ \E p \in Payloads : Submit(p) \/ Deliver(p) \/ Discard(p) \/ Refuse(p)
  \/ Die
  \/ Revive

Spec == Init /\ [][Next]_<<status, up>>
===============================================================================
