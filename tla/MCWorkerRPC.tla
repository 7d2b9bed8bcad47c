---------------------------- MODULE MCWorkerRPC -----------------------------
(***************************************************************************)
(* Small instances of WorkerRPC: two workers and a few engine steps.       *)
(***************************************************************************)
EXTENDS WorkerRPC

=============================================================================
