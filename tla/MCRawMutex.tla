----------------------------- MODULE MCRawMutex -----------------------------
(* An instance of RawMutex with threads as model values. *)
EXTENDS RawMutex
CONSTANTS t1, t2, t3
ThreeThreads == {t1, t2, t3}
=============================================================================
