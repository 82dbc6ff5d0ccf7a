---------------------------- MODULE MCWorkerPool ----------------------------
(* Two workers, two client threads and three tasks over a queue of depth two: *)
(* the queue fills, workers overtake each other and shutdown meets queued,    *)
(* held and settled tasks at once.                                            *)
EXTENDS WorkerPool
=============================================================================
