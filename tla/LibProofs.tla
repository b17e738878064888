----------------------------- MODULE LibProofs -----------------------------
(***************************************************************************)
(* Proofs about src/src/lib.rs and what it shares with chrono.rs: MainLoop *)
(* for any swap interval, any timings and any number of blockers, then     *)
(* Conversions for any width of a C integer.                               *)
(***************************************************************************)
EXTENDS MainLoop, Conversions, TLAPS

(* A cancel that was not seen yet, and an end that was not a panic, have been
   asked for while the loop ran. *)
CancelIsAsked ==
  /\ frame /\ ~continue => asked
  /\ fulfilled /\ ~panic => asked

(* The timing is taken before the function first runs, and nothing sets wanted
   earlier. *)
TakenBeforeWanted == wanted # NoTiming => pending = NoTiming

(* TypeOK in parts that are proved one by one. *)
FlagsOK ==
  /\ continue \in BOOLEAN /\ frame \in BOOLEAN /\ fulfilled \in BOOLEAN
  /\ panic \in BOOLEAN /\ emLoop \in BOOLEAN /\ asked \in BOOLEAN
CountsOK ==
  /\ delay \in 1..MaxDelay /\ remaining \in 1..delay /\ sinceRun \in 0..MaxDelay
  /\ blockers \in 0..MaxBlockers
NamesOK ==
  /\ call \in {"none", "waiting", "returned", "unwound"}
  /\ pending \in Timings \union {NoTiming}
  /\ inForce \in Timings \union {Raf1}
  /\ wanted \in Timings \union {Raf1, NoTiming}

IInv ==
  /\ TypeOK
  /\ EveryNthFrame
  /\ FramesWhileAlive
  /\ CancelIsAsked
  /\ TakenBeforeWanted
  /\ TimingSetOnce

-----------------------------------------------------------------------------
LEMMA TypeParts == TypeOK <=> FlagsOK /\ CountsOK /\ NamesOK
  BY DEF TypeOK, FlagsOK, CountsOK, NamesOK

LEMMA InitInv == Init => IInv
<1> SUFFICES ASSUME Init PROVE IInv
  OBVIOUS
<1>1. FlagsOK
  BY DEF Init, FlagsOK
<1>2. CountsOK
  <2>1. MaxDelay \in Nat /\ 1 <= MaxDelay /\ MaxBlockers \in Nat
    BY MainLoopAssumption
  <2> QED BY <2>1 DEF Init, CountsOK
<1>3. NamesOK
  BY DEF Init, NamesOK
<1>4. EveryNthFrame /\ FramesWhileAlive /\ CancelIsAsked
  BY DEF Init, EveryNthFrame, FramesWhileAlive, CancelIsAsked
<1>5. TakenBeforeWanted /\ TimingSetOnce
  BY DEF Init, TakenBeforeWanted, TimingSetOnce
<1> QED BY <1>1, <1>2, <1>3, <1>4, <1>5, TypeParts DEF IInv

LEMMA FlagsStep == IInv /\ [Next]_vars => FlagsOK'
<1> SUFFICES ASSUME IInv, [Next]_vars PROVE FlagsOK'
  OBVIOUS
<1> USE DEF FlagsOK
<1>0. FlagsOK
  BY TypeParts DEF IInv
<1>1. CASE UNCHANGED vars
  BY <1>0, <1>1 DEF vars, finiteVars, asyncVars
<1>2. ASSUME NEW n \in 1..MaxDelay, StartFinite(n) PROVE FlagsOK'
  BY <1>0, <1>2 DEF StartFinite, RaiseFlag, asyncVars
<1>3. CASE SkipFrame \/ ReturnFinite
  BY <1>0, <1>3 DEF SkipFrame, ReturnFinite, asyncVars
<1>4. ASSUME NEW o \in Outcome, RunFrame(o) PROVE FlagsOK'
  <2>1. emLoop' \in BOOLEAN
    BY <1>0, <1>4 DEF RunFrame, StopEmLoop, asyncVars
  <2>2. continue' \in BOOLEAN
    BY <1>0, <1>4 DEF RunFrame, FlagAfter
  <2>3. frame' \in BOOLEAN /\ fulfilled' \in BOOLEAN
    BY <1>4 DEF RunFrame, ReturnsGoesOn, GoesOn
  <2>4. panic' \in BOOLEAN
    <3>1. panic' = Panics(o)
      BY <1>4 DEF RunFrame, PanicAfter
    <3>2. Panics(o) \in BOOLEAN
      BY DEF Panics
    <3> QED BY <3>1, <3>2
  <2>5. asked' \in BOOLEAN
    <3>1. asked' = (asked \/ Cancels(o))
      BY <1>4 DEF RunFrame
    <3> QED BY <3>1
  <2> QED BY <2>1, <2>2, <2>3, <2>4, <2>5
<1>5. CASE Cancel
  BY <1>0, <1>5 DEF Cancel, StopEmLoop, finiteVars
<1>6. CASE TickAsync \/ PushBlocker \/ RunBlocker
  BY <1>0, <1>6 DEF TickAsync, PushBlocker, RunBlocker, finiteVars
<1>7. ASSUME NEW t \in Timings \union {NoTiming}, StartAsync(t) PROVE FlagsOK'
  BY <1>0, <1>7 DEF StartAsync, finiteVars
<1>8. ASSUME NEW t \in Timings, SetTiming(t) PROVE FlagsOK'
  BY <1>0, <1>8 DEF SetTiming, finiteVars
<1> QED
  BY <1>1, <1>2, <1>3, <1>4, <1>5, <1>6, <1>7, <1>8 DEF Next, Frame

LEMMA CountsStep == IInv /\ [Next]_vars => CountsOK'
<1> SUFFICES ASSUME IInv, [Next]_vars PROVE CountsOK'
  OBVIOUS
<1> USE DEF CountsOK
<1>0. CountsOK /\ EveryNthFrame /\ MaxDelay \in Nat /\ MaxBlockers \in Nat
  BY MainLoopAssumption, TypeParts DEF IInv
<1>1. CASE \/ UNCHANGED vars \/ ReturnFinite \/ Cancel \/ TickAsync
           \/ \E t \in Timings : SetTiming(t)
           \/ \E t \in Timings \union {NoTiming} : StartAsync(t)
  <2>1. UNCHANGED <<delay, remaining, sinceRun, blockers>>
    BY <1>1 DEF vars, finiteVars, asyncVars, ReturnFinite, Cancel, StopEmLoop,
                TickAsync, SetTiming, StartAsync
  <2> QED BY <1>0, <2>1
<1>2. ASSUME NEW n \in 1..MaxDelay, StartFinite(n) PROVE CountsOK'
  BY <1>0, <1>2 DEF StartFinite, asyncVars
<1>3. CASE SkipFrame
  BY <1>0, <1>3 DEF SkipFrame, EveryNthFrame, asyncVars
<1>4. ASSUME NEW o \in Outcome, RunFrame(o) PROVE CountsOK'
  <2>1. /\ blockers' = blockers /\ delay' = delay
        /\ remaining' = delay /\ sinceRun' = 0
    BY <1>4 DEF RunFrame, Restarted, StopEmLoop, asyncVars
  <2> QED BY <1>0, <2>1
<1>5. CASE PushBlocker \/ RunBlocker
  BY <1>0, <1>5 DEF PushBlocker, RunBlocker, finiteVars
<1> QED
  BY <1>1, <1>2, <1>3, <1>4, <1>5 DEF Next, Frame

LEMMA NamesStep == IInv /\ [Next]_vars => NamesOK'
<1> SUFFICES ASSUME IInv, [Next]_vars PROVE NamesOK'
  OBVIOUS
<1> USE DEF NamesOK
<1>0. NamesOK
  BY TypeParts DEF IInv
<1>1. CASE \/ UNCHANGED vars \/ Frame \/ Cancel \/ PushBlocker \/ RunBlocker
  <2>1. UNCHANGED <<call, pending, inForce, wanted>>
    BY <1>1 DEF vars, finiteVars, asyncVars, Frame, SkipFrame, RunFrame,
                StopEmLoop, Cancel, PushBlocker, RunBlocker
  <2> QED BY <1>0, <2>1
<1>2. CASE ReturnFinite \/ \E n \in 1..MaxDelay : StartFinite(n)
  BY <1>0, <1>2 DEF ReturnFinite, StartFinite, asyncVars
<1>3. CASE TickAsync
  BY <1>0, <1>3 DEF TickAsync, TimingTaken, finiteVars
<1>4. ASSUME NEW t \in Timings, SetTiming(t) PROVE NamesOK'
  BY <1>0, <1>4 DEF SetTiming, finiteVars
<1>5. ASSUME NEW t \in Timings \union {NoTiming}, StartAsync(t) PROVE NamesOK'
  BY <1>0, <1>5 DEF StartAsync, finiteVars
<1> QED
  BY <1>1, <1>2, <1>3, <1>4, <1>5 DEF Next

(* The finite loop: countdown, life of the box, reasons to end. *)
LEMMA FiniteStep ==
  IInv /\ [Next]_vars => (EveryNthFrame /\ FramesWhileAlive /\ CancelIsAsked)'
<1> SUFFICES ASSUME IInv, [Next]_vars
             PROVE  (EveryNthFrame /\ FramesWhileAlive /\ CancelIsAsked)'
  OBVIOUS
<1> USE DEF EveryNthFrame, FramesWhileAlive, CancelIsAsked
<1>0. TypeOK /\ EveryNthFrame /\ FramesWhileAlive /\ CancelIsAsked
  BY DEF IInv
<1>1. CASE \/ UNCHANGED vars
           \/ TickAsync \/ PushBlocker \/ RunBlocker
           \/ \E t \in Timings : SetTiming(t)
           \/ \E t \in Timings \union {NoTiming} : StartAsync(t)
  <2>1. UNCHANGED <<finiteVars, continue, sinceRun, asked>>
    BY <1>1 DEF vars, TickAsync, PushBlocker, RunBlocker, SetTiming, StartAsync
  <2> QED BY <1>0, <2>1 DEF finiteVars
<1>2. ASSUME NEW n \in 1..MaxDelay, StartFinite(n)
      PROVE  (EveryNthFrame /\ FramesWhileAlive /\ CancelIsAsked)'
  <2>1. n \in Nat
    BY MainLoopAssumption
  <2> QED BY <1>2, <2>1 DEF StartFinite, RaiseFlag
<1>3. CASE SkipFrame
  <2>1. remaining \in Nat /\ sinceRun \in Nat
    BY <1>0, MainLoopAssumption DEF TypeOK
  <2> QED BY <1>0, <1>3, <2>1 DEF SkipFrame
<1>4. ASSUME NEW o \in Outcome, RunFrame(o)
      PROVE  (EveryNthFrame /\ FramesWhileAlive /\ CancelIsAsked)'
  <2>1. /\ frame /\ frame' = GoesOn(o) /\ fulfilled' = ~GoesOn(o)
        /\ call' = call /\ panic' = Panics(o) /\ asked' = (asked \/ Cancels(o))
        /\ delay' = delay /\ remaining' = delay /\ sinceRun' = 0 /\ delay \in Nat
        /\ continue' = FlagAfter(o)
    BY <1>0, <1>4, MainLoopAssumption
       DEF TypeOK, RunFrame, ReturnsGoesOn, PanicAfter, Restarted
  <2>2. GoesOn(o) => continue'
    BY <2>1 DEF GoesOn, FlagAfter
  <2>3. ~GoesOn(o) /\ ~Panics(o) => asked'
    BY <1>0, <2>1 DEF GoesOn
  <2>4. EveryNthFrame'
    BY <2>1
  <2>5. FramesWhileAlive'
    BY <1>0, <2>1
  <2>6. CancelIsAsked'
    BY <2>1, <2>2, <2>3
  <2> QED BY <2>4, <2>5, <2>6
<1>5. CASE ReturnFinite
  BY <1>0, <1>5 DEF ReturnFinite
<1>6. CASE Cancel
  BY <1>0, <1>6 DEF Cancel, finiteVars
<1> QED
  BY <1>1, <1>2, <1>3, <1>4, <1>5, <1>6 DEF Next, Frame

(* The loop of emscripten. *)
LEMMA TimingStep == IInv /\ [Next]_vars => (TakenBeforeWanted /\ TimingSetOnce)'
<1> SUFFICES ASSUME IInv, [Next]_vars
             PROVE  (TakenBeforeWanted /\ TimingSetOnce)'
  OBVIOUS
<1> USE DEF TakenBeforeWanted, TimingSetOnce
<1>0. TypeOK /\ TakenBeforeWanted /\ TimingSetOnce
  BY DEF IInv
<1>1. CASE \/ UNCHANGED vars
           \/ Frame \/ ReturnFinite \/ Cancel \/ PushBlocker \/ RunBlocker
           \/ \E n \in 1..MaxDelay : StartFinite(n)
  <2>1. UNCHANGED <<pending, inForce, wanted>> /\ (emLoop' => emLoop)
    BY <1>1 DEF vars, asyncVars, Frame, SkipFrame, RunFrame, StopEmLoop,
                ReturnFinite, Cancel, PushBlocker, RunBlocker, StartFinite
  <2> QED BY <1>0, <2>1
<1>2. CASE TickAsync
  BY <1>0, <1>2 DEF TickAsync, TimingTaken
<1>3. ASSUME NEW t \in Timings, SetTiming(t)
      PROVE  (TakenBeforeWanted /\ TimingSetOnce)'
  BY <1>0, <1>3 DEF SetTiming
<1>4. ASSUME NEW t \in Timings \union {NoTiming}, StartAsync(t)
      PROVE  (TakenBeforeWanted /\ TimingSetOnce)'
  BY <1>0, <1>4 DEF StartAsync
<1> QED
  BY <1>1, <1>2, <1>3, <1>4 DEF Next

(* Every reachable state satisfies the inductive invariant. *)
THEOREM Invariance == Spec => []IInv
<1>1. IInv /\ [Next]_vars => TypeOK'
  <2>1. TypeOK' <=> (FlagsOK /\ CountsOK /\ NamesOK)'
    BY DEF TypeOK, FlagsOK, CountsOK, NamesOK
  <2> QED BY <2>1, FlagsStep, CountsStep, NamesStep
<1>2. IInv /\ [Next]_vars => IInv'
  BY <1>1, FiniteStep, TimingStep DEF IInv
<1> QED BY <1>2, InitInv, PTL DEF Spec

-----------------------------------------------------------------------------
(* The variables keep their types; no countdown underflows. *)
THEOREM TypeCorrect == Spec => []TypeOK
  BY Invariance, PTL DEF IInv

(* Raf(n) runs the function at every n-th frame, for any n. *)
THEOREM RunsEveryNthFrame == Spec => []EveryNthFrame
  BY Invariance, PTL DEF IInv

(* No frame reaches the box of a caller that may have returned. *)
THEOREM FramesOnlyWhileAlive == Spec => []FramesWhileAlive
  BY Invariance, PTL DEF IInv

(* The timing given to set_async_main_loop never comes back. *)
THEOREM TimingIsSetOnce == Spec => []TimingSetOnce
  BY Invariance, PTL DEF IInv

(* A finite loop returns because it was cancelled while it ran, and unwinds
   exactly when its function panicked. *)
THEOREM LoopEndsForAReason == Spec => EndsForAReason
<1>1. IInv /\ ReturnFinite => (panic => call' = "unwound") /\ (~panic => asked)
  BY DEF IInv, CancelIsAsked, ReturnFinite
<1>2. IInv /\ [Next]_vars =>
        [ReturnFinite => (panic => call' = "unwound") /\ (~panic => asked)]_vars
  BY <1>1
<1> QED BY <1>2, Invariance, PTL DEF Spec, EndsForAReason

(* The caller of a finite loop waits for frames that still come or for a
   promise that is fulfilled, and a loop that goes on has seen no cancel. *)
FiniteServed ==
  /\ call = "waiting" => frame \/ fulfilled
  /\ frame /\ asked => ~continue

(* The frames that separate a cancelled loop from its end. *)
FramesLeft == IF fulfilled THEN 0 ELSE remaining
EndNearer ==
  (call = "waiting" /\ asked) =>
    /\ FramesLeft' <= FramesLeft
    /\ Frame => FramesLeft' < FramesLeft
    /\ asked' \/ call' # "waiting"

LEMMA FiniteServedStep == IInv /\ FiniteServed /\ [Next]_vars => FiniteServed'
<1> SUFFICES ASSUME IInv, FiniteServed, [Next]_vars PROVE FiniteServed'
  OBVIOUS
<1> USE DEF FiniteServed
<1>0. FramesWhileAlive /\ continue \in BOOLEAN /\ asked \in BOOLEAN
  BY DEF IInv, TypeOK
<1>1. CASE \/ UNCHANGED vars
           \/ TickAsync \/ PushBlocker \/ RunBlocker
           \/ \E t \in Timings : SetTiming(t)
           \/ \E t \in Timings \union {NoTiming} : StartAsync(t)
  <2>1. UNCHANGED <<finiteVars, continue, sinceRun, asked>>
    BY <1>1 DEF vars, TickAsync, PushBlocker, RunBlocker, SetTiming, StartAsync
  <2> QED BY <2>1 DEF finiteVars
<1>2. CASE \E n \in 1..MaxDelay : StartFinite(n)
  BY <1>2 DEF StartFinite
<1>3. CASE SkipFrame
  BY <1>3 DEF SkipFrame
<1>4. ASSUME NEW o \in Outcome, RunFrame(o) PROVE FiniteServed'
  <2>1. frame' = GoesOn(o) /\ fulfilled' = ~GoesOn(o) /\ asked' = (asked \/ Cancels(o))
    BY <1>4 DEF RunFrame, ReturnsGoesOn
  <2>2. GoesOn(o) => ~asked'
    BY <1>0, <1>4, <2>1 DEF GoesOn, RunFrame
  <2> QED BY <2>1, <2>2
<1>5. CASE ReturnFinite
  BY <1>5 DEF ReturnFinite
<1>6. CASE Cancel
  BY <1>6 DEF Cancel, finiteVars
<1> QED
  BY <1>1, <1>2, <1>3, <1>4, <1>5, <1>6 DEF Next, Frame

LEMMA EndComesNearer == IInv /\ FiniteServed /\ [Next]_vars => EndNearer
<1> SUFFICES ASSUME IInv, FiniteServed, [Next]_vars, call = "waiting", asked
             PROVE  /\ FramesLeft' <= FramesLeft
                    /\ Frame => FramesLeft' < FramesLeft
                    /\ asked' \/ call' # "waiting"
  BY DEF EndNearer
<1> USE DEF FramesLeft
<1>0. /\ FramesWhileAlive /\ remaining \in Nat /\ remaining > 0
      /\ frame => ~continue /\ ~fulfilled
  BY MainLoopAssumption DEF IInv, TypeOK, FramesWhileAlive, FiniteServed
<1>1. CASE \/ UNCHANGED vars \/ ReturnFinite \/ Cancel
           \/ TickAsync \/ PushBlocker \/ RunBlocker
           \/ \E t \in Timings : SetTiming(t)
           \/ \E t \in Timings \union {NoTiming} : StartAsync(t)
  <2>1. UNCHANGED <<remaining, fulfilled>> /\ asked'
    BY <1>1 DEF vars, finiteVars, ReturnFinite, Cancel, TickAsync, PushBlocker,
                RunBlocker, SetTiming, StartAsync
  <2>2. ~Frame
    <3>1. SUFFICES ASSUME Frame PROVE FALSE
      OBVIOUS
    <3>2. CASE SkipFrame
      BY <1>0, <2>1, <3>2 DEF SkipFrame
    <3>3. ASSUME NEW o \in Outcome, RunFrame(o) PROVE FALSE
      BY <1>0, <2>1, <3>3 DEF RunFrame, GoesOn
    <3> QED BY <3>1, <3>2, <3>3 DEF Frame
  <2> QED BY <1>0, <2>1, <2>2
<1>2. ~ \E n \in 1..MaxDelay : StartFinite(n)
  BY DEF StartFinite
<1>3. CASE SkipFrame
  BY <1>0, <1>3 DEF SkipFrame
<1>4. ASSUME NEW o \in Outcome, RunFrame(o)
      PROVE  FramesLeft' = 0 /\ FramesLeft > 0 /\ asked'
  <2>1. ~GoesOn(o) /\ fulfilled' = ~GoesOn(o) /\ asked' /\ ~fulfilled
    BY <1>0, <1>4 DEF RunFrame, GoesOn
  <2> QED BY <1>0, <2>1
<1>5. CASE \E o \in Outcome : RunFrame(o)
  <2>1. FramesLeft' = 0 /\ FramesLeft > 0 /\ asked' /\ FramesLeft \in Nat
    BY <1>0, <1>4, <1>5
  <2> HIDE DEF FramesLeft
  <2> QED BY <2>1
<1> QED
  BY <1>1, <1>2, <1>3, <1>5 DEF Next, Frame

(* A cancelled finite loop is never stuck: until its caller is resumed a frame
   is still to come, each frame brings the end nearer, and nothing undoes the
   cancel or puts the end off, whatever the interval. *)
THEOREM CancelledLoopEnds ==
  Spec => [](call = "waiting" => frame \/ fulfilled) /\ [][EndNearer]_vars
<1>1. Init => FiniteServed
  BY DEF Init, FiniteServed
<1>2. IInv /\ FiniteServed /\ [Next]_vars => FiniteServed'
  BY FiniteServedStep
<1>3. IInv /\ FiniteServed /\ [Next]_vars => [EndNearer]_vars
  BY EndComesNearer
<1>4. FiniteServed => (call = "waiting" => frame \/ fulfilled)
  BY DEF FiniteServed
<1> QED BY <1>1, <1>2, <1>3, <1>4, Invariance, PTL DEF Spec

-----------------------------------------------------------------------------
(* The parts and the rest of a division give back what was divided. *)
LEMMA DivMod ==
  ASSUME NEW a \in Int, NEW n \in Nat \ {0}
  PROVE  /\ a \div n \in Int
         /\ a % n \in 0..(n - 1)
         /\ a = n * (a \div n) + (a % n)
  OBVIOUS

(* One part less, and that part. *)
LEMMA OnePartLess ==
  ASSUME NEW k \in Int, NEW n \in Int PROVE n + (k - 1) * n = k * n
  OBVIOUS

(* Some parts are at least one. *)
LEMMA SomeParts ==
  ASSUME NEW k \in Nat \ {0}, NEW n \in Nat PROVE k * n >= n
  OBVIOUS

LEMMA NoParts == ASSUME NEW n \in Int PROVE 0 * n = 0
  OBVIOUS

(* Whole cycles of the calendar do not change the place in the cycle. *)
LEMMA SameCalendar ==
  ASSUME NEW y \in Int, NEW k \in Int PROVE (y - k * 400) % 400 = y % 400
  OBVIOUS

(* Where sleep is between its pieces: what was handed over is a number, and
   pieces are only left of what is longer than JavaScript can wait for. *)
SleepShape ==
  /\ pieces \in Nat
  /\ pieces > 0 => op = "sleep"
  /\ op \in {"sleep", "timeout"} => argument \in Nat /\ got \in Nat
  /\ op = "sleep" => given \in Nat
  /\ op = "sleep" /\ pieces > 0 => argument > IntMax

ConversionsInv == SleepShape /\ JsGetsWhatWasAsked

LEMMA SleepStep ==
  ASSUME NEW ms \in Nat, Sleep(ms) PROVE ConversionsInv'
<1>1. UintMax \in Nat \ {0} /\ IntMax \in Nat /\ UintMax > IntMax
  BY ConversionsAssumption DEF UintMax
<1> DEFINE p == ms \div UintMax
           r == ms % UintMax
<1>2. p \in Int /\ r \in 0..(UintMax - 1) /\ ms = UintMax * p + r
  BY <1>1, DivMod
<1>3. op' = "sleep" /\ argument' = ms /\ given' = r /\ pieces' = p
      /\ got' = IF r <= IntMax THEN r ELSE 0
  BY DEF Sleep, Rest, Pieces, Waits
<1> HIDE DEF p, r
<1>4. p * UintMax = UintMax * p
  BY <1>1, <1>2
<1>5. p \in Nat
  <2> SUFFICES ASSUME p < 0 PROVE FALSE
    BY <1>2
  <2>1. (-p) \in Nat \ {0}
    BY <1>2
  <2>2. (-p) * UintMax >= UintMax
    BY <1>1, <2>1, SomeParts
  <2>3. (-p) * UintMax = -(p * UintMax)
    BY <1>1, <1>2
  <2> QED BY <1>1, <1>2, <1>4, <2>2, <2>3
<1>6. p * UintMax \in Nat /\ (p # 0 => p * UintMax >= UintMax) /\ (p = 0 => p * UintMax = 0)
  <2>1. CASE p = 0
    BY <1>1, <2>1, NoParts
  <2>2. CASE p # 0
    BY <1>1, <1>2, <1>5, <2>2, SomeParts
  <2> QED BY <2>1, <2>2
<1>7. SleepShape'
  BY <1>1, <1>2, <1>3, <1>4, <1>5, <1>6 DEF SleepShape
<1>8. JsGetsWhatWasAsked'
  BY <1>1, <1>2, <1>3, <1>4, <1>5, <1>6 DEF JsGetsWhatWasAsked, UintMax
<1> QED BY <1>7, <1>8 DEF ConversionsInv

LEMMA SleepOnStep == ConversionsInv /\ SleepOn => ConversionsInv'
<1> SUFFICES ASSUME ConversionsInv, SleepOn PROVE ConversionsInv'
  OBVIOUS
<1>1. UintMax \in Nat \ {0} /\ IntMax \in Nat /\ UintMax > IntMax
  BY ConversionsAssumption DEF UintMax
<1>2. /\ pieces \in Nat \ {0} /\ op = "sleep" /\ argument \in Nat /\ got \in Nat
      /\ given \in Nat /\ argument > IntMax /\ got <= argument
      /\ given + pieces * UintMax = argument
  BY DEF ConversionsInv, SleepShape, JsGetsWhatWasAsked, SleepOn
<1>3. /\ given' = given + UintMax /\ got' = got /\ pieces' = pieces - 1
      /\ op' = op /\ argument' = argument
  BY <1>1, <1>2 DEF SleepOn, Waits
<1>4. given' + pieces' * UintMax' = argument
  <2>1. UintMax + (pieces - 1) * UintMax = pieces * UintMax
    BY <1>1, <1>2, OnePartLess
  <2>2. pieces * UintMax \in Int /\ (pieces - 1) * UintMax \in Int
    BY <1>1, <1>2
  <2>3. UintMax' = UintMax
    BY DEF UintMax
  <2> QED BY <1>1, <1>2, <1>3, <2>1, <2>2, <2>3
<1>5. SleepShape'
  BY <1>1, <1>2, <1>3 DEF SleepShape
<1>6. JsGetsWhatWasAsked'
  BY <1>1, <1>2, <1>3, <1>4 DEF JsGetsWhatWasAsked
<1> QED BY <1>5, <1>6 DEF ConversionsInv

LEMMA SetTimeoutStep ==
  ASSUME NEW ms \in Nat, ConversionsInv, SetTimeout(ms) PROVE ConversionsInv'
  BY ConversionsAssumption
     DEF ConversionsInv, SleepShape, JsGetsWhatWasAsked, SetTimeout, Clamped, Waits

LEMMA LocalOffsetStep ==
  ASSUME NEW year \in Int, ConversionsInv, LocalOffset(year) PROVE ConversionsInv'
<1>1. /\ op' = "offset" /\ argument' = year /\ pieces' = pieces /\ pieces = 0
      /\ got' = DateYear(Shifted(year))
  BY DEF LocalOffset
<1>2. SleepShape'
  BY <1>1 DEF SleepShape, ConversionsInv
<1>3. Shifted(year) \in Int \ 0..99 /\ Shifted(year) % 400 = year % 400
      /\ (year >= 100 => Shifted(year) = year)
  <2>1. CASE year >= 100
    BY <2>1 DEF Shifted
  <2>2. CASE year < 100
    <3> DEFINE k == (year - 100) \div 400
    <3>1. k \in Int /\ year - 100 = 400 * k + ((year - 100) % 400)
          /\ (year - 100) % 400 \in 0..399
      OBVIOUS
    <3>2. Shifted(year) = year - k * 400
      BY <2>2 DEF Shifted
    <3> HIDE DEF k
    <3>3. (year - k * 400) % 400 = year % 400
      BY <3>1, SameCalendar
    <3>4. year - k * 400 >= 100
      BY <3>1
    <3> QED BY <2>2, <3>1, <3>2, <3>3, <3>4
  <2> QED BY <2>1, <2>2
<1>4. got' = Shifted(year)
  BY <1>1, <1>3 DEF DateYear
<1>5. JsGetsWhatWasAsked'
  BY <1>1, <1>3, <1>4 DEF JsGetsWhatWasAsked
<1> QED BY <1>2, <1>5 DEF ConversionsInv

(* For any c_int::MAX, any durations and any years: sleep hands over the whole
   duration, nobody waits longer than asked, and a Date has the calendar of
   the year asked for. *)
THEOREM NothingIsLostOnTheWay == ConversionsSpec => []JsGetsWhatWasAsked
<1>1. ConversionsInit => ConversionsInv
  <2> SUFFICES ASSUME ConversionsInit PROVE ConversionsInv
    OBVIOUS
  <2> QED BY DEF ConversionsInit, ConversionsInv, SleepShape, JsGetsWhatWasAsked
<1>2. ConversionsInv /\ [ConversionsNext]_conversionVars => ConversionsInv'
  <2> SUFFICES ASSUME ConversionsInv, [ConversionsNext]_conversionVars
               PROVE  ConversionsInv'
    OBVIOUS
  <2>1. ASSUME NEW ms \in Durations, Sleep(ms) \/ SetTimeout(ms) PROVE ConversionsInv'
    BY <2>1, ConversionsAssumption, SleepStep, SetTimeoutStep
  <2>2. ASSUME NEW year \in Years, LocalOffset(year) PROVE ConversionsInv'
    BY <2>2, ConversionsAssumption, LocalOffsetStep
  <2>3. CASE UNCHANGED conversionVars
    <3>1. UintMax' = UintMax
      BY DEF UintMax
    <3> QED BY <2>3, <3>1 DEF conversionVars, ConversionsInv, SleepShape, JsGetsWhatWasAsked
  <2> QED BY <2>1, <2>2, <2>3, SleepOnStep DEF ConversionsNext
<1>3. ConversionsInv => JsGetsWhatWasAsked
  BY DEF ConversionsInv
<1> QED BY <1>1, <1>2, <1>3, PTL DEF ConversionsSpec
=============================================================================
