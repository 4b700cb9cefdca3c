---------------------------- MODULE MCStreamTable ----------------------------
(* Four places in two threads, a table of three entries, a minimum size of  *)
(* two for the pool of buffers: the table fills up, the threads meet at its *)
(* limit and at an entry being closed, and the pool of buffers passes its   *)
(* minimum size, runs dry, grows and reuses in every order.                 *)
EXTENDS StreamTable
CONSTANTS t1, t2, c1, c2, c3, c4
TwoThreads == {t1, t2}
MCCallers == {c1, c2, c3, c4}
=============================================================================
