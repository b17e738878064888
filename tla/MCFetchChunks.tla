--------------------------- MODULE MCFetchChunks ----------------------------
(* An instance of FetchChunks: every body of a few chunks. *)
EXTENDS FetchChunks
=============================================================================
