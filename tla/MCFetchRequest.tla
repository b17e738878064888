--------------------------- MODULE MCFetchRequest ---------------------------
(* An instance of FetchRequest: half a millisecond is the unit, and delays of
   more than two milliseconds are too long. *)
EXTENDS FetchRequest
CONSTANTS r1, r2
TwoRequests == {r1, r2}
TwoHandles == {1, 2}
SomeDurations == {0, 1, 2, 9}
=============================================================================
