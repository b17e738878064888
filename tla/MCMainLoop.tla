----------------------------- MODULE MCMainLoop -----------------------------
(* An instance of MainLoop with the timings of set_main_loop_timing as names. *)
EXTENDS MainLoop
=============================================================================
