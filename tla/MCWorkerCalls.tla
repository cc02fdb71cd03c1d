--------------------------- MODULE MCWorkerCalls ---------------------------
(* WorkerCalls with one worker and two jobs, so that a job waits behind    *)
(* one whose services do not answer.                                       *)
EXTENDS WorkerCalls
=============================================================================
