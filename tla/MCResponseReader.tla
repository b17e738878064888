-------------------------- MODULE MCResponseReader --------------------------
(* An instance of ResponseReader: every body of a few short chunks. *)
EXTENDS ResponseReader
=============================================================================
