----------------------------- MODULE MCWorkerIO -----------------------------
(***************************************************************************)
(* Model checking of WorkerIO: limits of reads, and all programs of a few  *)
(* reads and writes.                                                       *)
(***************************************************************************)
EXTENDS WorkerIO

Limits == {-1, 2}

MCPrograms == SeqOf({"in", "out", "err"}, 4)
=============================================================================
