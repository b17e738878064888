----------------------------- MODULE MCBlockOn ------------------------------
(***************************************************************************)
(* Instances of BlockOn.  In BlockOnSingle calls follow one another, in    *)
(* BlockOnNested they are made inside the polls and callbacks of others.   *)
(***************************************************************************)
EXTENDS BlockOn
=============================================================================
