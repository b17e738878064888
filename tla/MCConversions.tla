--------------------------- MODULE MCConversions ---------------------------
(* An instance of Conversions around every boundary of its conditions. *)
EXTENDS Conversions
UpToFourPieces == 0..(4 * UintMax + 1)
ThreeCycles == -1150..550
=============================================================================
