---------------------------- MODULE MCTriggerEngine ----------------------------
(* Configurations of the trigger engine for TLC.                            *)
EXTENDS TriggerEngine

Of(name, op, threshold, recovery, hold) ==
  [name |-> name, keyed |-> TRUE, op |-> op, threshold |-> threshold, recovery |-> recovery,
   hold |-> hold, wellFormatted |-> TRUE]

\* Two triggers of one name: the first cannot format its message and has a null
\* recovery threshold, the other has a null hold time and recovers the first.
\* Then one with a null threshold, which no alert before it survives, and at the
\* end a sound one with a hold time.
Raising ==
  << [Of("disk", ">=", 1, Null, 0) EXCEPT !.wellFormatted = FALSE],
     Of("disk", ">=", 1, 1, Null),
     Of("net", ">", Null, Null, 0),
     Of("cpu", ">", 1, 0, 2) >>
===============================================================================
