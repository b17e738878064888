------------------------------- MODULE Parker -------------------------------
(***************************************************************************)
(* What one call of future::block_on promises to the future it drives,     *)
(* without events, promises or queues: a thread that polls, parks, and     *)
(* holds one permit for every wake that was delivered and not yet answered *)
(* by a poll.  BlockOn shows that the chain of promises of the code        *)
(* implements it.                                                          *)
(***************************************************************************)
EXTENDS Naturals

VARIABLES
  phase,    \* what the thread is doing
  permits   \* delivered wakes that no poll has answered yet

vars == <<phase, permits>>

Phase == {"idle", "polling", "parked"}

TypeOK == phase \in Phase /\ permits \in Nat

Init == phase = "idle" /\ permits = 0

(* A call starts with a poll, and with no permit from an earlier call. *)
Enter == phase = "idle" /\ phase' = "polling" /\ permits' = 0

Park == phase = "polling" /\ phase' = "parked" /\ UNCHANGED permits

(* A wake that finds a call adds a permit; one that comes late is lost. *)
Unpark == phase = "parked" /\ permits' = permits + 1 /\ UNCHANGED phase

Wakeup ==
  /\ phase = "parked"
  /\ permits > 0
  /\ phase' = "polling"
  /\ permits' = permits - 1

Leave == phase = "polling" /\ phase' = "idle" /\ permits' = 0

Next == Enter \/ Park \/ Unpark \/ Wakeup \/ Leave

Spec == Init /\ [][Next]_vars /\ WF_vars(Wakeup)
=============================================================================
