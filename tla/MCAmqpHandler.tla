---------------------------- MODULE MCAmqpHandler ----------------------------
(* Small instances of AmqpHandler for TLC. *)
EXTENDS AmqpHandler, TLC

\* Workers are interchangeable.
WorkerSymmetry == Permutations(Workers)
=============================================================================
