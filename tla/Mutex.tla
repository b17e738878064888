------------------------------- MODULE Mutex -------------------------------
(***************************************************************************)
(* What a lock promises: at any time at most one thread is inside, and a   *)
(* thread enters only when the one before it has left.                     *)
(***************************************************************************)
CONSTANT Threads
VARIABLE inside   \* the threads that hold the lock

Init == inside = {}

Enter(t) == inside = {} /\ inside' = {t}
Leave(t) == inside = {t} /\ inside' = {}

Next == \E t \in Threads : Enter(t) \/ Leave(t)

Spec == Init /\ [][Next]_inside
=============================================================================
