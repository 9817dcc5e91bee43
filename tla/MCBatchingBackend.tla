-------------------------- MODULE MCBatchingBackend --------------------------
(* Instances of BatchingBackend for TLC. *)
EXTENDS BatchingBackend, TLC

CONSTANTS g1, g2, t1, t2, t3

\* Worker g1 gathers with two task threads, g2 with one.
TwoWorkers == {g1, g2}
ThreeThreads == {t1, t2, t3}
WorkerOf == [t \in ThreeThreads |-> IF t = t3 THEN g2 ELSE g1]
=============================================================================
