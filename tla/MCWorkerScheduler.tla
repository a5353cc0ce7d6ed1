------------------------- MODULE MCWorkerScheduler --------------------------
(* WorkerScheduler on small instances. *)
EXTENDS WorkerScheduler

\* One queue keeps an item behind after a batch, the other does not.
MCUnevenQueues == [embedding |-> 2, reranking |-> 1]

MCShortQueues == [embedding |-> 1, reranking |-> 1]

=============================================================================
