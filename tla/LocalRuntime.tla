---------------------------- MODULE LocalRuntime ----------------------------
(***************************************************************************)
(* future::spawn_local: the runtime that polls the local tasks of one      *)
(* thread (src/src/future.rs).                                             *)
(*                                                                         *)
(* The runtime owns a LocalPool, a backlog of tasks that were spawned      *)
(* while the pool was borrowed, and a proxying queue of its own.  A spawn  *)
(* or a wake calls Runtime::enqueue, which posts Runtime::poll to the      *)
(* queue unless is_running says that one is posted or running.  A wake     *)
(* first tells the pool that the task is ready and then proxies a call of  *)
(* enqueue; it comes from any thread, and other steps may fall between.    *)
(* The poll of a task may itself spawn tasks, and may suspend the thread   *)
(* (block_on): the pool is still borrowed while the event loop goes on.    *)
(***************************************************************************)
EXTENDS Naturals, Sequences, FiniteSets

CONSTANTS
  Tasks,        \* the futures handed to spawn_local
  Events,       \* outside events a task waits for before it is ready
  MaxSpurious,  \* bound: wakes that carry no event
  MaxSuspends   \* bound: times a task suspends the thread inside its poll

ASSUME LocalRuntimeAssumption ==
  /\ Events \in Nat
  /\ MaxSpurious \in Nat
  /\ MaxSuspends \in Nat

VARIABLES
  place,      \* place[t]: where the task is
  backlog,    \* Pool::backlog
  ready,      \* the pool's ready-to-run tasks
  isRunning,  \* Runtime::is_running
  queue,      \* closures in the runtime's queue: calls of enqueue or poll
  mode,       \* what the thread does; the pool is borrowed unless "idle"
  active,     \* the task whose poll is on the stack, as a set
  fired,      \* fired[t]: events of t that have happened
  seen,       \* seen[t]: events the last poll of t observed
  registered, \* registered[t]: t holds a waker it has not called yet
  calls,      \* calls[t]: wakes begun that have not told the pool yet
  told,       \* told[t]: wakes that told the pool and have not proxied yet
  spurious,   \* wakes without an event so far
  suspends,   \* suspensions so far
  polled,     \* history: tasks that were polled at least once
  late        \* history: tasks that went through the backlog

poolVars == <<place, backlog, ready, late>>
loopVars == <<isRunning, queue, mode, active, suspends>>
sourceVars == <<fired, registered, calls, told, spurious>>
vars == <<poolVars, loopVars, sourceVars, seen, polled>>

Place == {"unspawned", "backlog", "pool", "done"}
Mode == {"idle", "polling", "running", "suspended", "stalled", "panicked"}
Closure == {"enqueue", "poll"}

BacklogOK ==
  /\ backlog \in Seq(Tasks)
  /\ \A t \in Tasks :
       place[t] = "backlog" <=> \E i \in DOMAIN backlog : backlog[i] = t

PoolOK ==
  /\ place \in [Tasks -> Place]
  /\ ready \subseteq {t \in Tasks : place[t] = "pool"}
  /\ active \subseteq {t \in Tasks : place[t] = "pool"}
  /\ polled \subseteq {t \in Tasks : place[t] \in {"pool", "done"}}
  /\ late \subseteq Tasks
  /\ \A t \in Tasks : place[t] = "backlog" => t \in late

LoopOK ==
  /\ isRunning \in BOOLEAN
  /\ queue \in Seq(Closure)
  /\ mode \in Mode
  /\ mode \in {"idle", "polling", "stalled"} => active = {}
  /\ suspends \in 0..MaxSuspends

SourceOK ==
  /\ fired \in [Tasks -> 0..Events]
  /\ seen \in [Tasks -> 0..Events]
  /\ registered \in [Tasks -> BOOLEAN]
  /\ calls \in [Tasks -> Nat]
  /\ told \in [Tasks -> Nat]
  /\ spurious \in 0..MaxSpurious

TypeOK == BacklogOK /\ PoolOK /\ LoopOK /\ SourceOK

-----------------------------------------------------------------------------
Borrowed == mode # "idle"

(* Proxied closures run when no Rust frame of this thread is executing. *)
AtEventLoop == mode \in {"idle", "suspended"}

Ready(t) == fired[t] = Events

(***************************************************************************)
(* The pieces the actions are made of.  A definition placed right before   *)
(* one of them with the same parameter is a faulty variant of it, kept to  *)
(* show that the properties below depend on it.                            *)
(***************************************************************************)

(* Runtime::enqueue, on the closures q. *)
EnqueueAlways(q) == isRunning' = TRUE /\ queue' = Append(q, "poll")
EnqueueNever(q) == isRunning' = TRUE /\ queue' = q
Enqueue(q) ==
  /\ isRunning' = TRUE
  /\ queue' = IF isRunning THEN q ELSE Append(q, "poll")

(* Pool::push. *)
Push(t) ==
  IF Borrowed
  THEN /\ place' = [place EXCEPT ![t] = "backlog"]
       /\ backlog' = Append(backlog, t)
       /\ late' = late \union {t}
       /\ UNCHANGED ready
  ELSE /\ place' = [place EXCEPT ![t] = "pool"]
       /\ ready' = ready \union {t}
       /\ UNCHANGED <<backlog, late>>

(* The end of Runtime::poll: is_running is cleared, the backlog goes to the
   pool.  No poll is posted for it. *)
ClearRunningNever == UNCHANGED isRunning
ClearRunning == isRunning' = FALSE

InBacklog == {t \in Tasks : place[t] = "backlog"}

DrainCopies ==
  /\ place' = [t \in Tasks |-> IF t \in InBacklog THEN "pool" ELSE place[t]]
  /\ ready' = ready \union InBacklog
  /\ UNCHANGED backlog
Drain ==
  /\ place' = [t \in Tasks |-> IF t \in InBacklog THEN "pool" ELSE place[t]]
  /\ ready' = ready \union InBacklog
  /\ backlog' = <<>>

(* The first half of a wake: the pool's waker makes the task ready. *)
MarkNothing(t) == UNCHANGED ready
MarkReady(t) == ready' = IF place[t] = "pool" THEN ready \union {t} ELSE ready

(* The second half of a wake: enqueue is proxied to the task's thread. *)
ProxyFails(t) == UNCHANGED queue
ProxyEnqueue(t) == queue' = Append(queue, "enqueue")

-----------------------------------------------------------------------------
Init ==
  /\ place = [t \in Tasks |-> "unspawned"]
  /\ backlog = <<>>
  /\ ready = {}
  /\ isRunning = FALSE
  /\ queue = <<>>
  /\ mode = "idle"
  /\ active = {}
  /\ fired = [t \in Tasks |-> 0]
  /\ seen = [t \in Tasks |-> 0]
  /\ registered = [t \in Tasks |-> FALSE]
  /\ calls = [t \in Tasks |-> 0]
  /\ told = [t \in Tasks |-> 0]
  /\ spurious = 0
  /\ suspends = 0
  /\ polled = {}
  /\ late = {}

(* Runtime::spawn, called by the thread's own code, by the task that is
   being polled, or by a callback while that task is suspended. *)
Spawn(t) ==
  /\ place[t] = "unspawned"
  /\ mode \in {"idle", "running", "suspended"}
  /\ Push(t)
  /\ Enqueue(queue)
  /\ UNCHANGED <<mode, active, suspends, sourceVars, seen, polled>>

(* The event loop runs the oldest closure of the queue. *)
RunEnqueue ==
  /\ AtEventLoop
  /\ queue # <<>> /\ Head(queue) = "enqueue"
  /\ Enqueue(Tail(queue))
  /\ UNCHANGED <<poolVars, mode, active, suspends, sourceVars, seen, polled>>

(* Runtime::poll begins; borrow_mut panics when the pool is borrowed. *)
RunPoll ==
  /\ AtEventLoop
  /\ queue # <<>> /\ Head(queue) = "poll"
  /\ queue' = Tail(queue)
  /\ mode' = IF Borrowed THEN "panicked" ELSE "polling"
  /\ UNCHANGED <<poolVars, isRunning, active, suspends, sourceVars, seen, polled>>

(* run_until_stalled takes a ready task and polls it. *)
StartTask(t) ==
  /\ mode = "polling"
  /\ t \in ready
  /\ mode' = "running"
  /\ active' = {t}
  /\ ready' = ready \ {t}
  /\ polled' = polled \union {t}
  /\ UNCHANGED <<place, backlog, late, isRunning, queue, suspends, sourceVars, seen>>

(* The task being polled calls block_on and suspends the thread. *)
Suspend ==
  /\ mode = "running"
  /\ suspends < MaxSuspends
  /\ suspends' = suspends + 1
  /\ mode' = "suspended"
  /\ UNCHANGED <<poolVars, isRunning, queue, active, sourceVars, seen, polled>>

Resume ==
  /\ mode = "suspended"
  /\ mode' = "running"
  /\ UNCHANGED <<poolVars, isRunning, queue, active, suspends, sourceVars, seen, polled>>

(* The poll of t returns: Pending, with the waker stored, or Ready. *)
EndPending(t) ==
  /\ mode = "running" /\ active = {t}
  /\ ~Ready(t)
  /\ seen' = [seen EXCEPT ![t] = fired[t]]
  /\ registered' = [registered EXCEPT ![t] = TRUE]
  /\ mode' = "polling"
  /\ active' = {}
  /\ UNCHANGED <<poolVars, isRunning, queue, suspends, fired, calls, told, spurious, polled>>

EndReady(t) ==
  /\ mode = "running" /\ active = {t}
  /\ Ready(t)
  /\ seen' = [seen EXCEPT ![t] = fired[t]]
  /\ place' = [place EXCEPT ![t] = "done"]
  /\ ready' = ready \ {t}
  /\ mode' = "polling"
  /\ active' = {}
  /\ UNCHANGED <<backlog, late, isRunning, queue, suspends, sourceVars, polled>>

(* run_until_stalled finds no ready task and returns. *)
Stall ==
  /\ mode = "polling"
  /\ ready = {}
  /\ mode' = "stalled"
  /\ UNCHANGED <<poolVars, isRunning, queue, active, suspends, sourceVars, seen, polled>>

(* The rest of Runtime::poll; tasks may have become ready meanwhile. *)
FinishPoll ==
  /\ mode = "stalled"
  /\ ClearRunning
  /\ Drain
  /\ mode' = "idle"
  /\ UNCHANGED <<late, queue, active, suspends, sourceVars, seen, polled>>

(* An event of t happens, and calls the waker t has stored. *)
Fire(t) ==
  /\ fired[t] < Events
  /\ fired' = [fired EXCEPT ![t] = @ + 1]
  /\ registered' = [registered EXCEPT ![t] = FALSE]
  /\ calls' = [calls EXCEPT ![t] = IF registered[t] THEN @ + 1 ELSE @]
  /\ UNCHANGED <<poolVars, loopVars, told, spurious, seen, polled>>

(* A clone of the waker is called without reason, even by the task's own
   poll or after its end. *)
SpuriousWake(t) ==
  /\ t \in polled
  /\ spurious < MaxSpurious
  /\ spurious' = spurious + 1
  /\ calls' = [calls EXCEPT ![t] = @ + 1]
  /\ UNCHANGED <<poolVars, loopVars, fired, registered, told, seen, polled>>

(* Wake::wake_by_ref: first the pool's own waker, then the proxied call. *)
WakeParent(t) ==
  /\ calls[t] > 0
  /\ calls' = [calls EXCEPT ![t] = @ - 1]
  /\ told' = [told EXCEPT ![t] = @ + 1]
  /\ MarkReady(t)
  /\ UNCHANGED <<place, backlog, late, loopVars, fired, registered, spurious, seen, polled>>

WakeProxy(t) ==
  /\ told[t] > 0
  /\ told' = [told EXCEPT ![t] = @ - 1]
  /\ ProxyEnqueue(t)
  /\ UNCHANGED <<poolVars, isRunning, mode, active, suspends, fired, registered,
                 calls, spurious, seen, polled>>

Next ==
  \/ RunEnqueue \/ RunPoll \/ Suspend \/ Resume \/ Stall \/ FinishPoll
  \/ \E t \in Tasks :
       \/ Spawn(t) \/ StartTask(t) \/ EndPending(t) \/ EndReady(t)
       \/ Fire(t) \/ SpuriousWake(t) \/ WakeParent(t) \/ WakeProxy(t)

(***************************************************************************)
(* The event loop runs what is posted, a poll runs to its end, and a waker *)
(* that was called finishes.  Nothing makes a task spawn, an event happen  *)
(* or a suspension end.                                                    *)
(***************************************************************************)
Fairness ==
  /\ WF_vars(RunEnqueue) /\ WF_vars(RunPoll) /\ WF_vars(Stall) /\ WF_vars(FinishPoll)
  /\ \A t \in Tasks :
       /\ WF_vars(StartTask(t)) /\ WF_vars(EndPending(t)) /\ WF_vars(EndReady(t))
       /\ WF_vars(WakeParent(t)) /\ WF_vars(WakeProxy(t))

Spec == Init /\ [][Next]_vars /\ Fairness

-----------------------------------------------------------------------------
PollAt == {i \in DOMAIN queue : queue[i] = "poll"}

EnqueuePosted == \E i \in DOMAIN queue : queue[i] = "enqueue"

(* is_running is exact: while it is set one poll is posted or the pool is
   being polled, never both and never two; while it is clear, neither. *)
OnePoll ==
  /\ \A i, j \in PollAt : i = j
  /\ isRunning <=> (Borrowed \/ PollAt # {})
  /\ Borrowed => PollAt = {}

(* RefCell::borrow_mut in Runtime::poll (line 207) never finds the pool
   borrowed, though closures run while a task has the thread suspended. *)
NoDoubleBorrow == mode # "panicked"

(* A ready task is never forgotten: a poll is posted or running, or the wake
   that made the task ready is about to post one.  The exception are tasks
   that were spawned while the pool was polled: Runtime::poll moves them to
   the pool when is_running is already clear and posts nothing. *)
NoForgottenTask ==
  \A t \in ready :
    isRunning \/ EnqueuePosted \/ told[t] > 0 \/ t \in late \ polled

(* A task that missed an event is ready, or being woken, or being polled. *)
NoLostWake ==
  \A t \in Tasks :
    (place[t] = "pool" /\ t \in polled /\ t \notin active /\ seen[t] < fired[t])
      => t \in ready \/ calls[t] > 0

(* Why it holds: a polled task is registered for its next event, or else it
   is ready or being woken. *)
WakeUnderway ==
  \A t \in Tasks :
    (place[t] = "pool" /\ t \in polled /\ t \notin active) =>
      /\ seen[t] < fired[t] => ~registered[t]
      /\ registered[t] \/ t \in ready \/ calls[t] > 0

(* And at the end of a poll: who became ready after the pool had stalled. *)
StalledIsWoken ==
  mode = "stalled" => \A t \in ready : told[t] > 0 \/ EnqueuePosted

(* The properties below ask that suspended polls are resumed. *)
SuspensionsEnd == []<>(mode # "suspended")

(* A task that is in the pool when a poll is posted or running is polled, so
   a task spawned outside of a poll always is.  A task left by the backlog
   needs somebody else to post a poll. *)
PooledIsPolled ==
  SuspensionsEnd =>
    \A t \in Tasks : (place[t] = "pool" /\ isRunning) ~> (t \in polled)

(* A task that was polled once sees every later event. *)
WokenIsPolled ==
  SuspensionsEnd =>
    \A t \in Tasks :
      (place[t] = "pool" /\ t \in polled /\ seen[t] < fired[t])
        ~> (seen[t] = fired[t])
=============================================================================
