------------------------------ MODULE MCTaskPool ------------------------------
(* TaskPool with two task threads; the .cfg files say beside which backend.   *)
EXTENDS TaskPool

CONSTANTS t1, t2

MCThreads == {t1, t2}
=============================================================================
