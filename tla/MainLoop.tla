------------------------------ MODULE MainLoop ------------------------------
(***************************************************************************)
(* The main loops of src/src/lib.rs on one thread: set_finite_main_loop,   *)
(* which suspends its caller until the loop ends, set_async_main_loop,     *)
(* which hands a function to emscripten, push_main_loop_blocker, which     *)
(* queues closures that emscripten runs in its place, one in each call,    *)
(* set_main_loop_timing, and cancel_main_loop, which stops both loops      *)
(* through one call.  set_infinite_main_loop does what set_async_main_loop *)
(* does and never returns.                                                 *)
(*                                                                         *)
(* set_finite_main_loop holds the same code four times.  Timing::Raf(n)    *)
(* runs the user's function at every n-th frame; Raf(1), SetTimeout and    *)
(* SetImmediate run it every time the browser calls, and are delay 1 here. *)
(* Frames and callbacks are serialised by the event loop.  Asyncify        *)
(* suspends a thread once, so there is one finite loop at a time.          *)
(***************************************************************************)
EXTENDS Naturals

CONSTANTS
  MaxDelay,     \* bound: the largest swap interval asked for
  MaxBlockers,  \* bound: the blockers queued at a time
  Timings       \* timings asked of the loop that emscripten drives

ASSUME MainLoopAssumption == MaxDelay \in Nat \ {0} /\ MaxBlockers \in Nat

VARIABLES
  call,       \* the caller of set_finite_main_loop
  continue,   \* CONTINUE_MAIN_LOOP
  frame,      \* the browser will call FiniteMainLoop's callback again
  delay,      \* FiniteMainLoop.delay
  remaining,  \* FiniteMainLoop.remaining
  fulfilled,  \* FiniteMainLoop.event was fulfilled
  panic,      \* FiniteMainLoop.panic holds a payload
  emLoop,     \* emscripten has a main loop function
  blockers,   \* the boxed blockers in emscripten's queue
  pending,    \* the timing the first call of that function will set
  inForce,    \* the timing emscripten uses
  sinceRun,   \* history: frames since the function last ran
  asked,      \* history: the loop was cancelled while it ran
  wanted      \* history: the timing set last, once the function has run

finiteVars == <<call, frame, delay, remaining, fulfilled, panic>>
asyncVars == <<emLoop, blockers, pending, inForce, wanted>>
vars == <<finiteVars, continue, asyncVars, sinceRun, asked>>

NoTiming == "none"
Raf1 == "raf1"

TypeOK ==
  /\ call \in {"none", "waiting", "returned", "unwound"}
  /\ continue \in BOOLEAN /\ frame \in BOOLEAN
  /\ fulfilled \in BOOLEAN /\ panic \in BOOLEAN
  /\ delay \in 1..MaxDelay
  /\ remaining \in 1..delay
  /\ emLoop \in BOOLEAN
  /\ blockers \in 0..MaxBlockers
  /\ pending \in Timings \union {NoTiming}
  /\ inForce \in Timings \union {Raf1}
  /\ wanted \in Timings \union {Raf1, NoTiming}
  /\ sinceRun \in 0..MaxDelay
  /\ asked \in BOOLEAN

(* What the user's function does when it is called. *)
Outcome == {"continues", "cancels", "panics", "cancels and panics"}
Cancels(o) == o \in {"cancels", "cancels and panics"}
Panics(o) == o \in {"panics", "cancels and panics"}

-----------------------------------------------------------------------------
(* A definition placed before another with the same parameter is a faulty
   variant of it, kept to show that the properties depend on it. *)

(* CONTINUE_MAIN_LOOP.set(true) at the start of a finite loop. *)
KeepFlag(n) == UNCHANGED continue
RaiseFlag(n) == continue' = TRUE

(* info.remaining after a frame that ran the function. *)
NotRestarted(n) == remaining
RestartedShort(n) == n - 1
Restarted(n) == n

(* Whether the callback asks to be called again, the function having done o:
   not after a panic, and not when CONTINUE_MAIN_LOOP is found cleared. *)
GoesOnUncancelled(o) == ~Panics(o)
GoesOn(o) == ~Panics(o) /\ ~Cancels(o) /\ continue

(* EM_TRUE or EM_FALSE, what the callback returns to the browser. *)
ReturnsTrue(o) == TRUE
ReturnsGoesOn(o) == GoesOn(o)

(* CONTINUE_MAIN_LOOP after the frame: a panic returns before the replace. *)
FlagAfter(o) == IF Panics(o) THEN continue /\ ~Cancels(o) ELSE TRUE

(* info.panic, which the caller resumes. *)
PanicLost(o) == FALSE
PanicAfter(o) == Panics(o)

(* std::mem::take on the timing that set_async_main_loop was given. *)
TimingKept(t) == t
TimingTaken(t) == NoTiming

(* emscripten_cancel_main_loop. *)
StopEmLoop == emLoop' = FALSE /\ UNCHANGED <<blockers, pending, inForce, wanted>>

-----------------------------------------------------------------------------
Init ==
  /\ call = "none" /\ continue = TRUE
  /\ frame = FALSE /\ delay = 1 /\ remaining = 1
  /\ fulfilled = FALSE /\ panic = FALSE
  /\ emLoop = FALSE /\ blockers = 0
  /\ pending = NoTiming /\ inForce = Raf1 /\ wanted = NoTiming
  /\ sinceRun = 0 /\ asked = FALSE

(* set_finite_main_loop: requests the frames and suspends the caller. *)
StartFinite(n) ==
  /\ call # "waiting"
  /\ call' = "waiting"
  /\ RaiseFlag(n)
  /\ frame' = TRUE
  /\ delay' = n /\ remaining' = n
  /\ fulfilled' = FALSE /\ panic' = FALSE
  /\ sinceRun' = 0 /\ asked' = FALSE
  /\ UNCHANGED asyncVars

(* A frame that Raf(n) skips. *)
SkipFrame ==
  /\ frame
  /\ remaining > 1
  /\ remaining' = remaining - 1
  /\ sinceRun' = sinceRun + 1
  /\ UNCHANGED <<call, continue, frame, delay, fulfilled, panic, asyncVars, asked>>

(* A frame in which the user's function runs and does o. *)
RunFrame(o) ==
  /\ frame
  /\ remaining = 1
  /\ remaining' = Restarted(delay)
  /\ frame' = ReturnsGoesOn(o)
  /\ continue' = FlagAfter(o)
  /\ fulfilled' = ~GoesOn(o)
  /\ panic' = PanicAfter(o)
  /\ IF Cancels(o) THEN StopEmLoop ELSE UNCHANGED asyncVars
  /\ sinceRun' = 0
  /\ asked' = (asked \/ Cancels(o))
  /\ UNCHANGED <<call, delay>>

(* promise.block_on() returns in the caller, which resumes the panic. *)
ReturnFinite ==
  /\ call = "waiting"
  /\ fulfilled
  /\ call' = IF panic THEN "unwound" ELSE "returned"
  /\ UNCHANGED <<continue, frame, delay, remaining, fulfilled, panic, asyncVars,
                 sinceRun, asked>>

(* cancel_main_loop, called by another callback or between two loops. *)
Cancel ==
  /\ continue' = FALSE
  /\ StopEmLoop
  /\ asked' = (asked \/ frame)
  /\ UNCHANGED <<finiteVars, sinceRun>>

(* set_async_main_loop; emscripten accepts one function and starts at Raf(1). *)
StartAsync(t) ==
  /\ ~emLoop
  /\ emLoop' = TRUE
  /\ pending' = t
  /\ inForce' = Raf1
  /\ wanted' = NoTiming
  /\ UNCHANGED <<blockers, finiteVars, continue, sinceRun, asked>>

(* The function that emscripten drives: the first call sets the timing. *)
TickAsync ==
  /\ emLoop
  /\ blockers = 0
  /\ inForce' = IF pending = NoTiming THEN inForce ELSE pending
  /\ wanted' = IF wanted = NoTiming THEN inForce' ELSE wanted
  /\ pending' = TimingTaken(pending)
  /\ UNCHANGED <<emLoop, blockers, finiteVars, continue, sinceRun, asked>>

(* push_main_loop_blocker, and the call of emscripten that runs a blocker and
   frees its box.  The queue outlives the loop; a finite loop does not run it. *)
PushBlocker ==
  /\ blockers < MaxBlockers
  /\ blockers' = blockers + 1
  /\ UNCHANGED <<emLoop, pending, inForce, wanted, finiteVars, continue, sinceRun, asked>>

RunBlocker ==
  /\ emLoop
  /\ blockers > 0
  /\ blockers' = blockers - 1
  /\ UNCHANGED <<emLoop, pending, inForce, wanted, finiteVars, continue, sinceRun, asked>>

(* set_main_loop_timing. *)
SetTiming(t) ==
  /\ inForce' = t
  /\ wanted' = IF wanted = NoTiming THEN NoTiming ELSE t
  /\ UNCHANGED <<emLoop, blockers, pending, finiteVars, continue, sinceRun, asked>>

Frame == SkipFrame \/ \E o \in Outcome : RunFrame(o)

Next ==
  \/ Frame \/ ReturnFinite \/ Cancel \/ TickAsync \/ PushBlocker \/ RunBlocker
  \/ \E n \in 1..MaxDelay : StartFinite(n)
  \/ \E t \in Timings : SetTiming(t)
  \/ \E t \in Timings \union {NoTiming} : StartAsync(t)

(* The browser goes on drawing frames, and a fulfilled promise resumes. *)
Fairness == WF_vars(Frame) /\ WF_vars(ReturnFinite)

Spec == Init /\ [][Next]_vars /\ Fairness

-----------------------------------------------------------------------------
(* Timing::Raf(n) updates "at every n'th vsync" (lib.rs, line 71): the count
   of skipped frames and the countdown always add up to the interval. *)
EveryNthFrame == frame => sinceRun + remaining = delay

(* The callback borrows the caller's FiniteMainLoop: no frame comes once the
   promise was fulfilled, after which the caller may free it. *)
FramesWhileAlive == frame => call = "waiting" /\ ~fulfilled

(* A finite loop ends for a reason of its own: its caller unwinds exactly
   when the function panicked, and otherwise the loop was cancelled. *)
EndsForAReason ==
  [][ReturnFinite => (panic => call' = "unwound") /\ (~panic => asked)]_vars

(* A cancelled finite loop returns to its caller, at any interval. *)
CancelledReturns == (call = "waiting" /\ asked) ~> (call # "waiting")

(* The timing given to set_async_main_loop is set once, before the function
   first runs; it never comes back over a later set_main_loop_timing. *)
TimingSetOnce == (emLoop /\ wanted # NoTiming) => inForce = wanted
=============================================================================
