--------------------------- MODULE MCLocalRuntime ---------------------------
(* An instance of LocalRuntime with tasks as model values. *)
EXTENDS LocalRuntime
CONSTANTS t1, t2
TwoTasks == {t1, t2}
=============================================================================
