----------------------------- MODULE MCBatchRun -----------------------------
(* The sentinel of a disconnected sensor is a number. *)
EXTENDS BatchRun

MCNumber == [type |-> "num", of |-> 9]

=============================================================================
