------------------------- MODULE LocalRuntimeProofs -------------------------
(***************************************************************************)
(* Proofs about LocalRuntime for any set of tasks and any bounds: typing,  *)
(* the exactness of is_running, that the pool is never borrowed twice,     *)
(* that neither a ready task nor a wake is forgotten, and that a task of   *)
(* the pool gets closer to its first poll with each closure that is run.   *)
(***************************************************************************)
EXTENDS LocalRuntime, SequenceTheorems, TLAPS

Polls(q) == {i \in DOMAIN q : q[i] = "poll"}
Enqueues(q) == {i \in DOMAIN q : q[i] = "enqueue"}

(* Posting a closure. *)
LEMMA PostedClosure ==
  ASSUME NEW q \in Seq(Closure), NEW c \in Closure
  PROVE  /\ Append(q, c) \in Seq(Closure)
         /\ Polls(Append(q, c)) = IF c = "poll" THEN Polls(q) \union {Len(q) + 1} ELSE Polls(q)
         /\ Enqueues(q) # {} => Enqueues(Append(q, c)) # {}
         /\ c = "enqueue" => Enqueues(Append(q, c)) # {}
<1> DEFINE w == Append(q, c)
<1>1. /\ w \in Seq(Closure)
      /\ Len(q) \in Nat
      /\ DOMAIN q = 1..Len(q)
      /\ DOMAIN w = 1..(Len(q) + 1)
      /\ w[Len(q) + 1] = c
      /\ \A i \in 1..Len(q) : w[i] = q[i]
  BY AppendProperties, LenProperties
<1> HIDE DEF w
<1>2. Polls(w) = IF c = "poll" THEN Polls(q) \union {Len(q) + 1} ELSE Polls(q)
  BY <1>1 DEF Polls
<1>3. Enqueues(q) # {} \/ c = "enqueue" => Enqueues(w) # {}
  BY <1>1 DEF Enqueues
<1> QED BY <1>1, <1>2, <1>3 DEF w

(* Taking the oldest closure from a queue that holds one poll at most. *)
LEMMA TakenClosure ==
  ASSUME NEW q \in Seq(Closure), q # <<>>, \A i, j \in Polls(q) : i = j
  PROVE  /\ Tail(q) \in Seq(Closure)
         /\ \A i, j \in Polls(Tail(q)) : i = j
         /\ Head(q) = "poll" => Polls(q) # {} /\ Polls(Tail(q)) = {}
         /\ Head(q) = "enqueue" => (Polls(Tail(q)) = {} <=> Polls(q) = {})
         /\ Head(q) = "poll" /\ Enqueues(q) # {} => Enqueues(Tail(q)) # {}
<1> DEFINE w == Tail(q)
<1>1. /\ w \in Seq(Closure)
      /\ Len(q) \in Nat \ {0}
      /\ DOMAIN q = 1..Len(q)
      /\ DOMAIN w = 1..(Len(q) - 1)
      /\ \A i \in 1..(Len(q) - 1) : w[i] = q[i + 1]
      /\ Head(q) = q[1]
  BY HeadTailProperties, LenProperties, EmptySeq
<1> HIDE DEF w
<1>2. \A i \in DOMAIN w : i + 1 \in DOMAIN q /\ w[i] = q[i + 1]
  BY <1>1
<1>3. \A i \in DOMAIN q : i = 1 \/ (i - 1 \in DOMAIN w /\ w[i - 1] = q[i])
  BY <1>1
<1>4. \A i, j \in Polls(w) : i = j
  <2> SUFFICES ASSUME NEW i \in Polls(w), NEW j \in Polls(w) PROVE i = j
    OBVIOUS
  <2>1. i + 1 \in Polls(q) /\ j + 1 \in Polls(q)
    BY <1>2 DEF Polls
  <2>2. i + 1 = j + 1 /\ i \in Nat /\ j \in Nat
    BY <1>1, <2>1 DEF Polls
  <2> QED BY <2>2
<1>5. ASSUME Head(q) = "poll"
      PROVE  Polls(q) # {} /\ Polls(w) = {}
  <2>1. 1 \in Polls(q)
    BY <1>1, <1>5 DEF Polls
  <2>2. ASSUME NEW i \in Polls(w) PROVE FALSE
    <3>1. i + 1 \in Polls(q) /\ i \in 1..(Len(q) - 1)
      BY <1>1, <1>2 DEF Polls
    <3>2. i + 1 = 1
      BY <2>1, <3>1
    <3> QED BY <1>1, <3>1, <3>2
  <2> QED BY <2>1, <2>2
<1>6. ASSUME Head(q) = "enqueue"
      PROVE  Polls(w) = {} <=> Polls(q) = {}
  <2>1. ASSUME NEW i \in Polls(q) PROVE i - 1 \in Polls(w)
    BY <1>1, <1>3, <1>6 DEF Polls
  <2>2. ASSUME NEW i \in Polls(w) PROVE i + 1 \in Polls(q)
    BY <1>2 DEF Polls
  <2> QED BY <2>1, <2>2
<1>7. ASSUME Head(q) = "poll", NEW i \in Enqueues(q)
      PROVE  i - 1 \in Enqueues(w)
  BY <1>1, <1>3, <1>7 DEF Enqueues
<1> QED BY <1>1, <1>4, <1>5, <1>6, <1>7 DEF w

-----------------------------------------------------------------------------
Inv == TypeOK /\ OnePoll /\ NoDoubleBorrow /\ NoForgottenTask /\ WakeUnderway

(* Runtime::enqueue keeps is_running exact, from any queue q for which it is. *)
LEMMA EnqueueIsExact ==
  ASSUME TypeOK, NEW q \in Seq(Closure),
         \A i, j \in Polls(q) : i = j,
         isRunning <=> (Borrowed \/ Polls(q) # {}),
         Borrowed => Polls(q) = {},
         Enqueue(q), mode' = mode
  PROVE  /\ queue' \in Seq(Closure)
         /\ isRunning' = TRUE
         /\ OnePoll'
<1>1. isRunning' = TRUE /\ "poll" \in Closure
  BY DEF Enqueue, Closure
<1>2. Borrowed' <=> Borrowed
  BY DEF Borrowed
<1>3. CASE isRunning
  <2>1. queue' = q
    BY <1>3 DEF Enqueue
  <2> QED BY <1>1, <1>2, <1>3, <2>1 DEF OnePoll, PollAt, Polls
<1>4. CASE ~isRunning
  <2>1. queue' = Append(q, "poll")
    BY <1>4 DEF Enqueue
  <2>2. queue' \in Seq(Closure) /\ Polls(queue') = Polls(q) \union {Len(q) + 1}
    BY <1>1, <2>1, PostedClosure
  <2>3. Polls(q) = {} /\ ~Borrowed
    BY <1>4
  <2>4. Polls(queue') = {Len(q) + 1}
    BY <2>2, <2>3
  <2> QED BY <1>1, <1>2, <2>2, <2>3, <2>4 DEF OnePoll, PollAt, Polls
<1> QED BY <1>3, <1>4

LEMMA InitInv == Init => Inv
<1> SUFFICES ASSUME Init PROVE Inv
  OBVIOUS
<1> USE LocalRuntimeAssumption DEF Init
<1>1. /\ <<>> \in Seq(Tasks) /\ <<>> \in Seq(Closure)
      /\ DOMAIN backlog = {} /\ DOMAIN queue = {}
  BY EmptySeq, LenProperties
<1>2. TypeOK
  <2>1. BacklogOK
    BY <1>1 DEF BacklogOK
  <2>2. PoolOK
    BY DEF PoolOK, Place
  <2>3. LoopOK
    <3>1. mode \in Mode /\ suspends \in 0..MaxSuspends
      BY DEF Mode
    <3>2. queue \in Seq(Closure) /\ active = {} /\ isRunning = FALSE
      BY <1>1
    <3> HIDE DEF Init
    <3> QED BY <3>1, <3>2 DEF LoopOK
  <2>4. SourceOK
    BY DEF SourceOK
  <2> QED BY <2>1, <2>2, <2>3, <2>4 DEF TypeOK
<1>3. OnePoll
  BY <1>1 DEF OnePoll, PollAt, Borrowed
<1>4. NoDoubleBorrow /\ NoForgottenTask /\ WakeUnderway
  BY DEF NoDoubleBorrow, NoForgottenTask, WakeUnderway
<1> QED BY <1>2, <1>3, <1>4 DEF Inv

LEMMA SpawnStep ==
  ASSUME Inv, NEW t \in Tasks, Spawn(t)
  PROVE  Inv'
<1>0. /\ BacklogOK /\ PoolOK /\ LoopOK /\ SourceOK /\ TypeOK
      /\ OnePoll /\ NoDoubleBorrow /\ NoForgottenTask /\ WakeUnderway
  BY DEF Inv, TypeOK
<1>1. /\ place[t] = "unspawned" /\ Push(t) /\ Enqueue(queue)
      /\ UNCHANGED <<mode, active, suspends, fired, registered, calls, told,
                     spurious, seen, polled>>
  BY DEF Spawn, sourceVars
<1>2. queue' \in Seq(Closure) /\ isRunning' = TRUE /\ OnePoll'
  BY <1>0, <1>1, EnqueueIsExact DEF OnePoll, PollAt, Polls, LoopOK
<1>3. LoopOK'
  BY <1>0, <1>1, <1>2 DEF LoopOK
<1>4. SourceOK'
  BY <1>0, <1>1 DEF SourceOK
<1>5. BacklogOK' /\ PoolOK'
  <2>1. CASE Borrowed
    <3>1. /\ place' = [place EXCEPT ![t] = "backlog"]
          /\ backlog' = Append(backlog, t)
          /\ late' = late \union {t} /\ ready' = ready
      BY <1>1, <2>1 DEF Push
    <3>2. /\ backlog \in Seq(Tasks) /\ backlog' \in Seq(Tasks)
          /\ DOMAIN backlog = 1..Len(backlog) /\ Len(backlog) \in Nat
          /\ DOMAIN backlog' = 1..(Len(backlog) + 1)
          /\ backlog'[Len(backlog) + 1] = t
          /\ \A i \in 1..Len(backlog) : backlog'[i] = backlog[i]
      BY <1>0, <3>1, AppendProperties, LenProperties DEF BacklogOK
    <3>3. ASSUME NEW u \in Tasks
          PROVE  place'[u] = "backlog" <=> \E i \in DOMAIN backlog' : backlog'[i] = u
      <4>1. CASE u = t
        <5>1. place'[u] = "backlog"
          BY <1>0, <3>1, <4>1 DEF PoolOK
        <5>2. backlog'[Len(backlog) + 1] = u /\ Len(backlog) + 1 \in DOMAIN backlog'
          BY <3>2, <4>1
        <5> QED BY <5>1, <5>2
      <4>2. CASE u # t
        <5>1. place'[u] = place[u]
          BY <1>0, <3>1, <4>2 DEF PoolOK
        <5>2. (\E i \in DOMAIN backlog' : backlog'[i] = u)
                <=> (\E i \in DOMAIN backlog : backlog[i] = u)
          BY <3>2, <4>2
        <5> QED BY <1>0, <5>1, <5>2 DEF BacklogOK
      <4> QED BY <4>1, <4>2
    <3>4. BacklogOK'
      BY <3>2, <3>3 DEF BacklogOK
    <3>5. PoolOK'
      BY <1>0, <1>1, <3>1 DEF PoolOK, Place
    <3> QED BY <3>4, <3>5
  <2>2. CASE ~Borrowed
    <3>1. /\ place' = [place EXCEPT ![t] = "pool"]
          /\ ready' = ready \union {t}
          /\ backlog' = backlog /\ late' = late
      BY <1>1, <2>2 DEF Push
    <3>2. \A u \in Tasks : place'[u] = "backlog" <=> place[u] = "backlog"
      BY <1>0, <1>1, <3>1 DEF PoolOK
    <3>3. BacklogOK'
      BY <1>0, <3>1, <3>2 DEF BacklogOK
    <3>4. PoolOK'
      BY <1>0, <1>1, <3>1, <3>2 DEF PoolOK, Place
    <3> QED BY <3>3, <3>4
  <2> QED BY <2>1, <2>2
<1>6. NoDoubleBorrow' /\ NoForgottenTask'
  BY <1>0, <1>1, <1>2 DEF NoDoubleBorrow, NoForgottenTask
<1>7. WakeUnderway'
  <2>1. t \notin polled /\ \A u \in Tasks \ {t} : place'[u] = place[u]
    BY <1>0, <1>1 DEF Push, PoolOK
  <2>2. ready \subseteq ready'
    BY <1>1 DEF Push
  <2> QED BY <1>0, <1>1, <2>1, <2>2 DEF WakeUnderway
<1> QED BY <1>2, <1>3, <1>4, <1>5, <1>6, <1>7 DEF Inv, TypeOK

LEMMA RunEnqueueStep ==
  ASSUME Inv, RunEnqueue
  PROVE  Inv'
<1>0. /\ BacklogOK /\ PoolOK /\ LoopOK /\ SourceOK /\ TypeOK
      /\ OnePoll /\ NoDoubleBorrow /\ NoForgottenTask /\ WakeUnderway
  BY DEF Inv, TypeOK
<1>1. /\ queue # <<>> /\ Head(queue) = "enqueue" /\ Enqueue(Tail(queue))
      /\ UNCHANGED <<place, backlog, ready, late, mode, active, suspends, fired,
                     registered, calls, told, spurious, seen, polled>>
  BY DEF RunEnqueue, poolVars, sourceVars
<1>2. /\ Tail(queue) \in Seq(Closure)
      /\ \A i, j \in Polls(Tail(queue)) : i = j
      /\ Polls(Tail(queue)) = {} <=> Polls(queue) = {}
  BY <1>0, <1>1, TakenClosure DEF LoopOK, OnePoll, PollAt, Polls
<1>3. queue' \in Seq(Closure) /\ isRunning' = TRUE /\ OnePoll'
  BY <1>0, <1>1, <1>2, EnqueueIsExact DEF OnePoll, PollAt, Polls
<1>4. TypeOK'
  <2>1. BacklogOK'
    BY <1>0, <1>1, <1>3 DEF BacklogOK
  <2>2. PoolOK'
    BY <1>0, <1>1, <1>3 DEF PoolOK
  <2>3. LoopOK'
    BY <1>0, <1>1, <1>3 DEF LoopOK
  <2>4. SourceOK'
    BY <1>0, <1>1, <1>3 DEF SourceOK
  <2> QED BY <2>1, <2>2, <2>3, <2>4 DEF TypeOK
<1>5. NoDoubleBorrow' /\ NoForgottenTask' /\ WakeUnderway'
  BY <1>0, <1>1, <1>3 DEF NoDoubleBorrow, NoForgottenTask, WakeUnderway
<1> QED BY <1>3, <1>4, <1>5 DEF Inv

LEMMA RunPollStep ==
  ASSUME Inv, RunPoll
  PROVE  Inv'
<1>0. /\ BacklogOK /\ PoolOK /\ LoopOK /\ SourceOK /\ TypeOK
      /\ OnePoll /\ NoDoubleBorrow /\ NoForgottenTask /\ WakeUnderway
  BY DEF Inv, TypeOK
<1>1. /\ queue # <<>> /\ Head(queue) = "poll" /\ queue' = Tail(queue)
      /\ UNCHANGED <<place, backlog, ready, late, isRunning, active, suspends,
                     fired, registered, calls, told, spurious, seen, polled>>
  BY DEF RunPoll, poolVars, sourceVars
<1>2. /\ queue' \in Seq(Closure)
      /\ Polls(queue) # {} /\ Polls(queue') = {}
  BY <1>0, <1>1, TakenClosure DEF LoopOK, OnePoll, PollAt, Polls
<1>3. ~Borrowed /\ isRunning
  BY <1>0, <1>2 DEF OnePoll, PollAt, Polls
<1>4. mode' = "polling" /\ active = {}
  BY <1>0, <1>3 DEF RunPoll, Borrowed, LoopOK
<1>5. OnePoll'
  BY <1>1, <1>2, <1>3, <1>4 DEF OnePoll, PollAt, Polls, Borrowed
<1>6. TypeOK'
  <2>1. BacklogOK'
    BY <1>0, <1>1, <1>2, <1>4 DEF BacklogOK
  <2>2. PoolOK'
    BY <1>0, <1>1, <1>2, <1>4 DEF PoolOK, Mode
  <2>3. LoopOK'
    BY <1>0, <1>1, <1>2, <1>4 DEF LoopOK, Mode
  <2>4. SourceOK'
    BY <1>0, <1>1, <1>2, <1>4 DEF SourceOK
  <2> QED BY <2>1, <2>2, <2>3, <2>4 DEF TypeOK
<1>7. NoDoubleBorrow' /\ NoForgottenTask' /\ WakeUnderway'
  BY <1>0, <1>1, <1>3, <1>4 DEF NoDoubleBorrow, NoForgottenTask, WakeUnderway
<1> QED BY <1>5, <1>6, <1>7 DEF Inv

(* The steps of a running poll: the queue and is_running stay as they are. *)
LEMMA PollingStep ==
  ASSUME Inv,
         \/ Suspend \/ Resume \/ Stall
         \/ \E t \in Tasks : StartTask(t) \/ EndPending(t) \/ EndReady(t)
  PROVE  Inv'
<1>0. /\ BacklogOK /\ PoolOK /\ LoopOK /\ SourceOK /\ TypeOK
      /\ OnePoll /\ NoDoubleBorrow /\ NoForgottenTask /\ WakeUnderway
  BY DEF Inv, TypeOK
<1>1. /\ UNCHANGED <<isRunning, queue, backlog, late>>
      /\ mode' \in {"running", "suspended", "polling", "stalled"}
      /\ mode \in {"running", "suspended", "polling"}
  BY DEF StartTask, Suspend, Resume, Stall, EndPending, EndReady, poolVars
<1>2. OnePoll' /\ isRunning
  BY <1>0, <1>1 DEF OnePoll, PollAt, Borrowed, LoopOK
<1>3. NoDoubleBorrow' /\ NoForgottenTask'
  BY <1>1, <1>2 DEF NoDoubleBorrow, NoForgottenTask
<1>4. ASSUME NEW t \in Tasks, StartTask(t) PROVE Inv'
  <2>1. /\ t \in ready /\ mode = "polling" /\ mode' = "running"
        /\ active' = {t} /\ ready' = ready \ {t} /\ polled' = polled \union {t}
        /\ UNCHANGED <<place, backlog, late, isRunning, queue, suspends, fired,
                       registered, calls, told, spurious, seen>>
    BY <1>4 DEF StartTask, sourceVars
  <2>2. TypeOK'
    <3>1. BacklogOK'
      BY <1>0, <2>1 DEF BacklogOK
    <3>2. PoolOK'
      BY <1>0, <2>1 DEF PoolOK, Mode
    <3>3. LoopOK'
      BY <1>0, <2>1 DEF LoopOK, Mode
    <3>4. SourceOK'
      BY <1>0, <2>1 DEF SourceOK
    <3> QED BY <3>1, <3>2, <3>3, <3>4 DEF TypeOK
  <2>3. active = {}
    BY <1>0, <2>1 DEF PoolOK, LoopOK
  <2>4. WakeUnderway'
    BY <1>0, <2>1, <2>3 DEF WakeUnderway
  <2> QED BY <1>2, <1>3, <2>2, <2>4 DEF Inv
<1>5. CASE Suspend \/ Resume \/ Stall
  <2>1. UNCHANGED <<place, backlog, ready, late, isRunning, queue, active, fired,
                    registered, calls, told, spurious, seen, polled>>
    BY <1>5 DEF Suspend, Resume, Stall, poolVars, sourceVars
  <2>2. /\ mode' \in {"running", "suspended", "stalled"} /\ suspends' \in 0..MaxSuspends
        /\ mode' = "stalled" => active = {}
    BY <1>0, <1>5, LocalRuntimeAssumption DEF Suspend, Resume, Stall, LoopOK, SourceOK
  <2>3. TypeOK'
    <3>1. BacklogOK'
      BY <1>0, <2>1, <2>2 DEF BacklogOK
    <3>2. PoolOK'
      BY <1>0, <2>1, <2>2 DEF PoolOK, Mode
    <3>3. LoopOK'
      BY <1>0, <2>1, <2>2 DEF LoopOK, Mode
    <3>4. SourceOK'
      BY <1>0, <2>1, <2>2 DEF SourceOK
    <3> QED BY <3>1, <3>2, <3>3, <3>4 DEF TypeOK
  <2>4. WakeUnderway'
    BY <1>0, <2>1 DEF WakeUnderway
  <2> QED BY <1>2, <1>3, <2>3, <2>4 DEF Inv
<1>6. ASSUME NEW t \in Tasks, EndPending(t) PROVE Inv'
  <2>1. /\ mode' = "polling" /\ active = {t} /\ active' = {}
        /\ seen' = [seen EXCEPT ![t] = fired[t]]
        /\ registered' = [registered EXCEPT ![t] = TRUE]
        /\ UNCHANGED <<place, backlog, ready, late, isRunning, queue, suspends,
                       fired, calls, told, spurious, polled>>
    BY <1>6 DEF EndPending, poolVars
  <2>2. TypeOK'
    <3>1. BacklogOK'
      BY <1>0, <2>1 DEF BacklogOK
    <3>2. PoolOK'
      BY <1>0, <2>1 DEF PoolOK, Mode
    <3>3. LoopOK'
      BY <1>0, <2>1 DEF LoopOK, Mode
    <3>4. SourceOK'
      BY <1>0, <2>1 DEF SourceOK
    <3> QED BY <3>1, <3>2, <3>3, <3>4 DEF TypeOK
  <2>3. WakeUnderway'
    BY <1>0, <2>1 DEF WakeUnderway, PoolOK, SourceOK
  <2> QED BY <1>2, <1>3, <2>2, <2>3 DEF Inv
<1>7. ASSUME NEW t \in Tasks, EndReady(t) PROVE Inv'
  <2>1. /\ mode' = "polling" /\ active = {t} /\ active' = {}
        /\ seen' = [seen EXCEPT ![t] = fired[t]]
        /\ place' = [place EXCEPT ![t] = "done"]
        /\ ready' = ready \ {t}
        /\ UNCHANGED <<backlog, late, isRunning, queue, suspends, fired,
                       registered, calls, told, spurious, polled>>
    BY <1>7 DEF EndReady, sourceVars
  <2>2. place[t] \in {"pool", "done"}
    BY <1>0, <2>1 DEF PoolOK, LoopOK
  <2>3. TypeOK'
    <3>1. BacklogOK'
      BY <1>0, <2>1, <2>2 DEF BacklogOK
    <3>2. PoolOK'
      BY <1>0, <2>1, <2>2 DEF PoolOK, Mode, Place
    <3>3. LoopOK'
      BY <1>0, <2>1, <2>2 DEF LoopOK, Mode, Place
    <3>4. SourceOK'
      BY <1>0, <2>1, <2>2 DEF SourceOK
    <3> QED BY <3>1, <3>2, <3>3, <3>4 DEF TypeOK
  <2>4. WakeUnderway'
    BY <1>0, <2>1 DEF WakeUnderway, PoolOK, SourceOK
  <2> QED BY <1>2, <1>3, <2>3, <2>4 DEF Inv
<1> QED BY <1>4, <1>5, <1>6, <1>7

LEMMA FinishPollStep ==
  ASSUME Inv, StalledIsWoken, FinishPoll
  PROVE  Inv'
<1>0. /\ BacklogOK /\ PoolOK /\ LoopOK /\ SourceOK /\ TypeOK
      /\ OnePoll /\ NoDoubleBorrow /\ NoForgottenTask /\ WakeUnderway
  BY DEF Inv, TypeOK
<1>1. /\ mode = "stalled" /\ mode' = "idle" /\ isRunning' = FALSE
      /\ \A t \in ready : told[t] > 0 \/ EnqueuePosted
      /\ place' = [t \in Tasks |-> IF t \in InBacklog THEN "pool" ELSE place[t]]
      /\ ready' = ready \union InBacklog
      /\ backlog' = <<>>
      /\ UNCHANGED <<late, queue, active, suspends, fired, registered, calls,
                     told, spurious, seen, polled>>
  BY DEF FinishPoll, Drain, ClearRunning, sourceVars, StalledIsWoken
<1>2. OnePoll' /\ NoDoubleBorrow'
  BY <1>0, <1>1 DEF OnePoll, PollAt, Borrowed, NoDoubleBorrow
<1>3. InBacklog \subseteq late \ polled
  BY <1>0 DEF InBacklog, PoolOK
<1>4. NoForgottenTask'
  BY <1>1, <1>3 DEF NoForgottenTask, EnqueuePosted
<1>5. TypeOK'
  <2>1. BacklogOK'
    <3>1. backlog' \in Seq(Tasks) /\ DOMAIN backlog' = {}
      BY <1>1, EmptySeq, LenProperties
    <3>2. \A t \in Tasks : place'[t] # "backlog"
      BY <1>1 DEF InBacklog
    <3> QED BY <3>1, <3>2 DEF BacklogOK
  <2>2. PoolOK'
    BY <1>0, <1>1 DEF PoolOK, LoopOK, Place, InBacklog
  <2>3. LoopOK'
    BY <1>0, <1>1 DEF LoopOK, Mode
  <2>4. SourceOK'
    BY <1>0, <1>1 DEF SourceOK
  <2> QED BY <2>1, <2>2, <2>3, <2>4 DEF TypeOK
<1>6. WakeUnderway'
  <2>1. \A t \in polled : place'[t] = place[t]
    BY <1>0, <1>1 DEF PoolOK, InBacklog
  <2> QED BY <1>0, <1>1, <2>1 DEF WakeUnderway
<1> QED BY <1>2, <1>4, <1>5, <1>6 DEF Inv

(* The steps of others: they touch neither the pool's borrow nor is_running. *)
LEMMA SourceStep ==
  ASSUME Inv, NEW t \in Tasks,
         Fire(t) \/ SpuriousWake(t) \/ WakeParent(t) \/ WakeProxy(t)
  PROVE  Inv'
<1>0. /\ BacklogOK /\ PoolOK /\ LoopOK /\ SourceOK /\ TypeOK
      /\ OnePoll /\ NoDoubleBorrow /\ NoForgottenTask /\ WakeUnderway
  BY DEF Inv, TypeOK
<1>1. UNCHANGED <<place, backlog, late, isRunning, mode, active, suspends, seen, polled>>
  BY DEF Fire, SpuriousWake, WakeParent, WakeProxy, poolVars, loopVars
<1>2. NoDoubleBorrow'
  BY <1>0, <1>1 DEF NoDoubleBorrow
<1>3. CASE Fire(t)
  <2>1. /\ fired' = [fired EXCEPT ![t] = @ + 1]
        /\ registered' = [registered EXCEPT ![t] = FALSE]
        /\ calls' = [calls EXCEPT ![t] = IF registered[t] THEN @ + 1 ELSE @]
        /\ UNCHANGED <<ready, queue, told, spurious>>
    BY <1>3 DEF Fire, poolVars, loopVars
  <2>2. fired[t] + 1 \in 0..Events
    BY <1>0, <1>3, LocalRuntimeAssumption DEF Fire, LoopOK, SourceOK
  <2>3. TypeOK'
    <3>1. BacklogOK'
      BY <1>0, <1>1, <2>1, <2>2 DEF BacklogOK
    <3>2. PoolOK'
      BY <1>0, <1>1, <2>1, <2>2 DEF PoolOK
    <3>3. LoopOK'
      BY <1>0, <1>1, <2>1, <2>2 DEF LoopOK
    <3>4. SourceOK'
      BY <1>0, <1>1, <2>1, <2>2 DEF SourceOK
    <3> QED BY <3>1, <3>2, <3>3, <3>4 DEF TypeOK
  <2>4. OnePoll' /\ NoForgottenTask'
    BY <1>0, <1>1, <2>1
       DEF OnePoll, PollAt, Borrowed, NoForgottenTask, EnqueuePosted
  <2>5. WakeUnderway'
    BY <1>0, <1>1, <2>1 DEF WakeUnderway, PoolOK, SourceOK
  <2> QED BY <1>2, <2>3, <2>4, <2>5 DEF Inv
<1>4. CASE SpuriousWake(t)
  <2>1. /\ spurious < MaxSpurious /\ spurious' = spurious + 1
        /\ calls' = [calls EXCEPT ![t] = @ + 1]
        /\ UNCHANGED <<ready, queue, fired, registered, told>>
    BY <1>4 DEF SpuriousWake, poolVars, loopVars
  <2>2. spurious' \in 0..MaxSpurious
    BY <1>0, <2>1, LocalRuntimeAssumption DEF LoopOK, SourceOK
  <2>3. TypeOK'
    <3>1. BacklogOK'
      BY <1>0, <1>1, <2>1, <2>2 DEF BacklogOK
    <3>2. PoolOK'
      BY <1>0, <1>1, <2>1, <2>2 DEF PoolOK
    <3>3. LoopOK'
      BY <1>0, <1>1, <2>1, <2>2 DEF LoopOK
    <3>4. SourceOK'
      BY <1>0, <1>1, <2>1, <2>2 DEF SourceOK
    <3> QED BY <3>1, <3>2, <3>3, <3>4 DEF TypeOK
  <2>4. OnePoll' /\ NoForgottenTask'
    BY <1>0, <1>1, <2>1
       DEF OnePoll, PollAt, Borrowed, NoForgottenTask, EnqueuePosted
  <2>5. WakeUnderway'
    BY <1>0, <1>1, <2>1 DEF WakeUnderway, PoolOK, SourceOK
  <2> QED BY <1>2, <2>3, <2>4, <2>5 DEF Inv
<1>5. CASE WakeParent(t)
  <2>1. /\ calls[t] > 0
        /\ calls' = [calls EXCEPT ![t] = @ - 1]
        /\ told' = [told EXCEPT ![t] = @ + 1]
        /\ ready' = IF place[t] = "pool" THEN ready \union {t} ELSE ready
        /\ UNCHANGED <<queue, fired, registered, spurious>>
    BY <1>5 DEF WakeParent, MarkReady, loopVars
  <2>2. TypeOK'
    <3>1. BacklogOK'
      BY <1>0, <1>1, <2>1 DEF BacklogOK
    <3>2. PoolOK'
      BY <1>0, <1>1, <2>1 DEF PoolOK
    <3>3. LoopOK'
      BY <1>0, <1>1, <2>1 DEF LoopOK
    <3>4. SourceOK'
      BY <1>0, <1>1, <2>1 DEF SourceOK
    <3> QED BY <3>1, <3>2, <3>3, <3>4 DEF TypeOK
  <2>3. OnePoll'
    BY <1>0, <1>1, <2>1 DEF OnePoll, PollAt, Borrowed
  <2>4. NoForgottenTask'
    BY <1>0, <1>1, <2>1 DEF NoForgottenTask, EnqueuePosted, PoolOK, SourceOK
  <2>5. WakeUnderway'
    BY <1>0, <1>1, <2>1 DEF WakeUnderway, PoolOK, SourceOK
  <2> QED BY <1>2, <2>2, <2>3, <2>4, <2>5 DEF Inv
<1>6. CASE WakeProxy(t)
  <2>1. /\ told[t] > 0
        /\ told' = [told EXCEPT ![t] = @ - 1]
        /\ queue' = Append(queue, "enqueue")
        /\ UNCHANGED <<ready, fired, registered, calls, spurious>>
    BY <1>6 DEF WakeProxy, ProxyEnqueue, poolVars
  <2>2. /\ queue' \in Seq(Closure)
        /\ Polls(queue') = Polls(queue)
        /\ Enqueues(queue') # {}
    BY <1>0, <2>1, PostedClosure DEF LoopOK, Closure
  <2>3. TypeOK'
    <3>1. BacklogOK'
      BY <1>0, <1>1, <2>1, <2>2 DEF BacklogOK
    <3>2. PoolOK'
      BY <1>0, <1>1, <2>1, <2>2 DEF PoolOK
    <3>3. LoopOK'
      BY <1>0, <1>1, <2>1, <2>2 DEF LoopOK
    <3>4. SourceOK'
      BY <1>0, <1>1, <2>1, <2>2 DEF SourceOK
    <3> QED BY <3>1, <3>2, <3>3, <3>4 DEF TypeOK
  <2>4. OnePoll'
    BY <1>0, <1>1, <2>2 DEF OnePoll, PollAt, Polls, Borrowed
  <2>5. NoForgottenTask'
    BY <2>2 DEF NoForgottenTask, EnqueuePosted, Enqueues
  <2>6. WakeUnderway'
    BY <1>0, <1>1, <2>1 DEF WakeUnderway
  <2> QED BY <1>2, <2>3, <2>4, <2>5, <2>6 DEF Inv
<1> QED BY <1>3, <1>4, <1>5, <1>6

LEMMA NextInv == Inv /\ StalledIsWoken /\ [Next]_vars => Inv'
<1> SUFFICES ASSUME Inv, StalledIsWoken, [Next]_vars PROVE Inv'
  OBVIOUS
<1>1. CASE RunEnqueue \/ RunPoll \/ FinishPoll
  BY <1>1, RunEnqueueStep, RunPollStep, FinishPollStep
<1>2. CASE Suspend \/ Resume \/ Stall
  BY <1>2, PollingStep
<1>3. ASSUME NEW t \in Tasks,
             \/ Spawn(t) \/ StartTask(t) \/ EndPending(t) \/ EndReady(t)
             \/ Fire(t) \/ SpuriousWake(t) \/ WakeParent(t) \/ WakeProxy(t)
      PROVE  Inv'
  BY <1>3, SpawnStep, PollingStep, SourceStep
<1>4. CASE UNCHANGED vars
  <2> USE <1>4 DEF vars, poolVars, loopVars, sourceVars
  <2>1. TypeOK'
    BY DEF Inv, TypeOK, BacklogOK, PoolOK, LoopOK, SourceOK
  <2>2. OnePoll' /\ NoDoubleBorrow'
    BY DEF Inv, OnePoll, NoDoubleBorrow, PollAt, Borrowed
  <2>3. NoForgottenTask' /\ WakeUnderway'
    BY DEF Inv, NoForgottenTask, EnqueuePosted, WakeUnderway
  <2> QED BY <2>1, <2>2, <2>3 DEF Inv
<1> QED BY <1>1, <1>2, <1>3, <1>4 DEF Next

(* Between the pool's stall and the end of the poll the event loop runs nothing:
   what becomes ready is told by a wake that posts, or has posted, an enqueue. *)
LEMMA NextStalled == Inv /\ StalledIsWoken /\ [Next]_vars => StalledIsWoken'
<1> SUFFICES ASSUME Inv, StalledIsWoken, [Next]_vars, mode' = "stalled"
             PROVE  \A u \in ready' : told'[u] > 0 \/ EnqueuePosted'
  BY DEF StalledIsWoken
<1>0. LoopOK /\ PoolOK /\ SourceOK
  BY DEF Inv, TypeOK
<1>1. CASE Stall
  BY <1>1 DEF Stall, poolVars
<1>2. CASE mode = "stalled" /\ UNCHANGED <<ready, told, queue>>
  BY <1>2 DEF StalledIsWoken, EnqueuePosted
<1>3. ASSUME NEW t \in Tasks, WakeParent(t), mode = "stalled"
      PROVE  \A u \in ready' : told'[u] > 0 \/ EnqueuePosted'
  <2>1. /\ told' = [told EXCEPT ![t] = @ + 1] /\ queue' = queue
        /\ ready' \subseteq ready \union {t}
    BY <1>3 DEF WakeParent, MarkReady, loopVars
  <2>2. ready \subseteq Tasks /\ told \in [Tasks -> Nat]
    BY <1>0 DEF PoolOK, SourceOK
  <2>3. \A u \in ready : told[u] > 0 \/ EnqueuePosted
    BY <1>3 DEF StalledIsWoken
  <2> QED BY <2>1, <2>2, <2>3 DEF EnqueuePosted
<1>4. ASSUME NEW t \in Tasks, WakeProxy(t)
      PROVE  EnqueuePosted'
  <2>1. queue' = Append(queue, "enqueue")
    BY <1>4 DEF WakeProxy, ProxyEnqueue
  <2>2. Enqueues(queue') # {}
    BY <1>0, <2>1, PostedClosure DEF LoopOK, Closure
  <2> QED BY <2>2 DEF EnqueuePosted, Enqueues
<1>5. ASSUME NEW t \in Tasks, Fire(t) \/ SpuriousWake(t)
      PROVE  mode = "stalled" /\ UNCHANGED <<ready, told, queue>>
  BY <1>5 DEF Fire, SpuriousWake, poolVars, loopVars
<1>6. ASSUME NEW t \in Tasks, WakeParent(t)
      PROVE  mode = "stalled"
  BY <1>6 DEF WakeParent, loopVars
<1>7. ASSUME NEW t \in Tasks, Spawn(t) \/ StartTask(t) \/ EndPending(t) \/ EndReady(t)
      PROVE  FALSE
  BY <1>7 DEF Spawn, StartTask, EndPending, EndReady
<1>8. ~(RunEnqueue \/ RunPoll \/ Suspend \/ Resume \/ FinishPoll)
  BY DEF RunEnqueue, RunPoll, Suspend, Resume, FinishPoll, AtEventLoop
<1>9. CASE UNCHANGED vars
  BY <1>2, <1>9 DEF vars, poolVars, loopVars, sourceVars
<1> QED BY <1>1, <1>2, <1>3, <1>4, <1>5, <1>6, <1>7, <1>8, <1>9 DEF Next

-----------------------------------------------------------------------------
(* The inductive invariant holds in every reachable state. *)
THEOREM Invariance == Spec => [](Inv /\ StalledIsWoken)
<1>1. Init => StalledIsWoken
  BY DEF Init, StalledIsWoken
<1> QED BY <1>1, InitInv, NextInv, NextStalled, PTL DEF Spec

(* In every state of the runtime the variables have their types. *)
THEOREM TypeCorrect == Spec => []TypeOK
<1>1. Inv => TypeOK
  BY DEF Inv
<1> QED BY <1>1, Invariance, PTL

(* Runtime::is_running says exactly whether a poll is posted or running, and
   the pool's RefCell is never borrowed a second time. *)
THEOREM IsRunningIsExact == Spec => [](OnePoll /\ NoDoubleBorrow)
<1>1. Inv => OnePoll /\ NoDoubleBorrow
  BY DEF Inv
<1> QED BY <1>1, Invariance, PTL

(* A ready task that did not go through the backlog has a poll coming. *)
THEOREM NoTaskIsForgotten == Spec => []NoForgottenTask
<1>1. Inv => NoForgottenTask
  BY DEF Inv
<1> QED BY <1>1, Invariance, PTL

(* A task that missed an event is ready, or being woken. *)
THEOREM NoWakeIsLost == Spec => []NoLostWake
<1>1. Inv => NoLostWake
  BY DEF Inv, WakeUnderway, NoLostWake
<1> QED BY <1>1, Invariance, PTL
-----------------------------------------------------------------------------
(***************************************************************************)
(* What PooledIsPolled needs of the queue and of is_running: a task in the *)
(* pool is ready until it is polled, a posted poll is not dropped, and a   *)
(* poll that runs leaves no task of the pool unpolled.                     *)
(***************************************************************************)

(* A task of the pool that was never polled is ready. *)
FreshIsReady == \A t \in Tasks : place[t] = "pool" /\ t \notin polled => t \in ready

(* Every task of the pool was polled at least once. *)
NoneFresh == \A t \in Tasks : place[t] = "pool" => t \in polled

(* is_running is only cleared when the pool holds no unpolled task. *)
ClearedWhenPolled == isRunning /\ ~isRunning' => NoneFresh

(* A posted poll keeps its place in the queue, moves up by one place with
   each closure the event loop runs, and is run when it is the first. *)
PollComesUp ==
  \A i \in PollAt :
    \/ i \in PollAt' /\ ~RunEnqueue
    \/ i > 1 /\ i - 1 \in PollAt' /\ RunEnqueue
    \/ i = 1 /\ RunPoll /\ mode' = "polling"

FreshInv == FreshIsReady /\ (mode = "stalled" => NoneFresh)

LEMMA NextFresh == Inv /\ FreshInv /\ [Next]_vars => FreshInv'
<1> SUFFICES ASSUME Inv, FreshInv, [Next]_vars PROVE FreshInv'
  OBVIOUS
<1> USE DEF FreshInv, FreshIsReady, NoneFresh
<1>0. PoolOK
  BY DEF Inv, TypeOK
<1>1. CASE UNCHANGED <<place, ready, polled, mode>>
  BY <1>1
<1>2. CASE RunEnqueue \/ RunPoll \/ Suspend \/ Resume
  <2>1. UNCHANGED <<place, ready, polled>> /\ (mode' = "stalled" => mode = "stalled")
    BY <1>2 DEF RunEnqueue, RunPoll, Suspend, Resume, poolVars
  <2> QED BY <2>1
<1>3. CASE Stall
  <2>1. UNCHANGED <<place, ready, polled>> /\ ready = {}
    BY <1>3 DEF Stall, poolVars
  <2> QED BY <2>1
<1>4. CASE FinishPoll
  <2>1. /\ place' = [t \in Tasks |-> IF t \in InBacklog THEN "pool" ELSE place[t]]
        /\ ready' = ready \union InBacklog /\ polled' = polled /\ mode' = "idle"
    BY <1>4 DEF FinishPoll, Drain
  <2> QED BY <2>1
<1>5. ASSUME NEW t \in Tasks, Spawn(t) PROVE FreshInv'
  <2>1. mode' # "stalled" /\ polled' = polled /\ Push(t)
    BY <1>5 DEF Spawn
  <2>2. \/ place' = [place EXCEPT ![t] = "backlog"] /\ ready' = ready
        \/ place' = [place EXCEPT ![t] = "pool"] /\ ready' = ready \union {t}
    BY <2>1 DEF Push
  <2> QED BY <1>0, <2>1, <2>2 DEF PoolOK
<1>6. ASSUME NEW t \in Tasks, StartTask(t) PROVE FreshInv'
  <2>1. /\ ready' = ready \ {t} /\ polled' = polled \union {t}
        /\ place' = place /\ mode' = "running"
    BY <1>6 DEF StartTask
  <2> QED BY <2>1
<1>7. ASSUME NEW t \in Tasks, EndPending(t) \/ EndReady(t) PROVE FreshInv'
  <2>1. \/ place' = place /\ ready' = ready
        \/ place' = [place EXCEPT ![t] = "done"] /\ ready' = ready \ {t}
    BY <1>7 DEF EndPending, EndReady, poolVars
  <2>2. mode' = "polling" /\ polled' = polled
    BY <1>7 DEF EndPending, EndReady
  <2> QED BY <1>0, <2>1, <2>2 DEF PoolOK
<1>8. ASSUME NEW t \in Tasks,
             Fire(t) \/ SpuriousWake(t) \/ WakeParent(t) \/ WakeProxy(t)
      PROVE  FreshInv'
  <2>1. UNCHANGED <<place, polled, mode>> /\ ready \subseteq ready'
    BY <1>8 DEF Fire, SpuriousWake, WakeParent, WakeProxy, MarkReady, poolVars, loopVars
  <2> QED BY <2>1
<1>9. CASE UNCHANGED vars
  BY <1>1, <1>9 DEF vars, poolVars, loopVars
<1> QED BY <1>2, <1>3, <1>4, <1>5, <1>6, <1>7, <1>8, <1>9 DEF Next

LEMMA ClearingStep == Inv /\ FreshInv /\ Next => ClearedWhenPolled
<1> SUFFICES ASSUME FreshInv, Next, isRunning, ~isRunning' PROVE mode = "stalled"
  BY DEF ClearedWhenPolled, FreshInv
<1>1. CASE FinishPoll
  BY <1>1 DEF FinishPoll
<1>2. ~RunEnqueue /\ \A t \in Tasks : ~Spawn(t)
  BY DEF RunEnqueue, Spawn, Enqueue
<1>3. ~(RunPoll \/ Suspend \/ Resume \/ Stall)
  BY DEF RunPoll, Suspend, Resume, Stall
<1>4. \A t \in Tasks : ~(StartTask(t) \/ EndPending(t) \/ EndReady(t))
  BY DEF StartTask, EndPending, EndReady
<1>5. \A t \in Tasks : ~(Fire(t) \/ SpuriousWake(t) \/ WakeParent(t) \/ WakeProxy(t))
  BY DEF Fire, SpuriousWake, WakeParent, WakeProxy, loopVars
<1> QED BY <1>1, <1>2, <1>3, <1>4, <1>5 DEF Next

LEMMA PollStep == Inv /\ Next => PollComesUp
<1> SUFFICES ASSUME Inv, Next, NEW i \in PollAt
             PROVE  \/ i \in PollAt' /\ ~RunEnqueue
                    \/ i > 1 /\ i - 1 \in PollAt' /\ RunEnqueue
                    \/ i = 1 /\ RunPoll /\ mode' = "polling"
  BY DEF PollComesUp
<1>0. queue \in Seq(Closure) /\ OnePoll
  BY DEF Inv, TypeOK, LoopOK
<1>1. isRunning /\ ~Borrowed
  BY <1>0 DEF OnePoll
<1>2. i \in 1..Len(queue) /\ queue[i] = "poll" /\ Len(queue) \in Nat
  BY <1>0, LenProperties DEF PollAt
<1>3. CASE RunEnqueue
  <2>1. queue # <<>> /\ queue[1] = "enqueue" /\ queue' = Tail(queue)
    BY <1>0, <1>1, <1>3, HeadTailProperties DEF RunEnqueue, Enqueue
  <2>2. i > 1
    BY <1>2, <2>1
  <2>3. /\ queue' \in Seq(Closure) /\ Len(queue') = Len(queue) - 1
        /\ \A j \in 1..(Len(queue) - 1) : queue'[j] = queue[j + 1]
    BY <1>0, <2>1, HeadTailProperties
  <2>4. i - 1 \in 1..(Len(queue) - 1) /\ (i - 1) + 1 = i
    BY <1>2, <2>2
  <2>5. i - 1 \in DOMAIN queue' /\ queue'[i - 1] = "poll"
    BY <1>2, <2>3, <2>4, LenProperties
  <2> QED BY <1>3, <2>2, <2>5 DEF PollAt
<1>4. CASE RunPoll
  <2>1. queue # <<>> /\ queue[1] = "poll" /\ mode' = "polling"
    BY <1>0, <1>1, <1>4, HeadTailProperties DEF RunPoll
  <2>2. 1 \in PollAt
    BY <1>0, <1>2, <2>1, LenProperties DEF PollAt
  <2>3. i = 1
    BY <1>0, <2>2 DEF OnePoll
  <2> QED BY <1>4, <2>1, <2>3
<1>5. CASE ~RunEnqueue /\ ~RunPoll
  <2>1. queue' = queue \/ \E c \in Closure : queue' = Append(queue, c)
    <3>1. CASE Suspend \/ Resume \/ Stall \/ FinishPoll
      BY <3>1 DEF Suspend, Resume, Stall, FinishPoll
    <3>2. ASSUME NEW t \in Tasks, Spawn(t) PROVE queue' = queue
      BY <1>1, <3>2 DEF Spawn, Enqueue
    <3>3. ASSUME NEW t \in Tasks, StartTask(t) \/ EndPending(t) \/ EndReady(t)
          PROVE  queue' = queue
      BY <3>3 DEF StartTask, EndPending, EndReady
    <3>4. ASSUME NEW t \in Tasks, Fire(t) \/ SpuriousWake(t) \/ WakeParent(t)
          PROVE  queue' = queue
      BY <3>4 DEF Fire, SpuriousWake, WakeParent, loopVars
    <3>5. ASSUME NEW t \in Tasks, WakeProxy(t)
          PROVE  queue' = Append(queue, "enqueue") /\ "enqueue" \in Closure
      BY <3>5 DEF WakeProxy, ProxyEnqueue, Closure
    <3> QED BY <1>5, <3>1, <3>2, <3>3, <3>4, <3>5 DEF Next
  <2>2. PollAt \subseteq PollAt'
    BY <1>0, <2>1, PostedClosure DEF PollAt, Polls
  <2> QED BY <1>5, <2>2
<1> QED BY <1>3, <1>4, <1>5

(* spawn_local: a task that is in the pool and was never polled is ready, so
   the pool cannot stall before it; Runtime::poll clears is_running only when
   no such task is left; and a poll that was posted is neither dropped nor
   overtaken, but comes up with each closure the event loop runs. *)
THEOREM PooledTasksComeUp ==
  Spec => []FreshIsReady /\ [][ClearedWhenPolled /\ PollComesUp]_vars
<1>1. Init => FreshInv
  BY DEF Init, FreshInv, FreshIsReady, NoneFresh
<1>2. Spec => []FreshInv
  BY <1>1, NextFresh, Invariance, PTL DEF Spec
<1>3. FreshInv => FreshIsReady
  BY DEF FreshInv
<1>4. Inv /\ FreshInv /\ [Next]_vars => [ClearedWhenPolled /\ PollComesUp]_vars
  BY ClearingStep, PollStep
<1> QED BY <1>2, <1>3, <1>4, Invariance, PTL DEF Spec
=============================================================================
