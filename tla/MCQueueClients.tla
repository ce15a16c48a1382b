---------------------------- MODULE MCQueueClients ----------------------------
(* Small instances of QueueClients.  The consumers are interchangeable.    *)
EXTENDS QueueClients, TLC

ConsumerSymmetry == Permutations(Consumers)
===============================================================================
