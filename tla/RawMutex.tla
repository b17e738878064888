------------------------------ MODULE RawMutex ------------------------------
(***************************************************************************)
(* sync::Mutex (src/src/sync/mutex.rs): a flag that is taken with a        *)
(* compare-exchange, and a queue of the flags of those who found it taken. *)
(* The queue is guarded by a spin lock of its own.  A waiter sleeps in     *)
(* future::block_on until its flag is marked and then tries again, so that *)
(* others may take the mutex before it.                                    *)
(*                                                                         *)
(* A thread is in one call at a time.  block_on promises what Parker says: *)
(* it returns once the flag is marked.  The store of line 100 is taken as  *)
(* a release; the crate leaves the module out and never compiles it.       *)
(***************************************************************************)
EXTENDS Naturals, Sequences

CONSTANT Threads

VARIABLES
  pc,       \* pc[t]: where t is in lock and unlock
  locked,   \* RawMutex.locked
  busy,     \* Waiters.busy
  waiters,  \* Waiters.waiters, each flag as the thread that waits for it
  marked,   \* the threads whose last flag is marked
  popped,   \* popped[t]: the threads whose flag t has taken out of the queue
  missed    \* history: who found the mutex locked and was not in the queue
            \* yet when an unlock looked there and left it empty

vars == <<pc, locked, busy, waiters, marked, popped, missed>>

Place == {"idle", "locking", "queueing", "pushing", "asleep",
          "holding", "unlocking", "popping", "marking"}

TypeOK ==
  /\ pc \in [Threads -> Place]
  /\ locked \in BOOLEAN /\ busy \in BOOLEAN
  /\ waiters \in Seq(Threads)
  /\ marked \subseteq Threads /\ missed \subseteq Threads
  /\ popped \in [Threads -> SUBSET Threads]

Goto(t, place) == pc' = [pc EXCEPT ![t] = place]

-----------------------------------------------------------------------------
(* A definition placed before another with the same parameters is a faulty
   variant of it, kept to show that the properties depend on it. *)

(* RawMutex::try_lock, by a thread that goes on to hold the mutex. *)
TakeUnchecked(t) == locked' = TRUE /\ Goto(t, "holding")
Take(t) == ~locked /\ locked' = TRUE /\ Goto(t, "holding")

(* Waiters::wait: takes the spin lock. *)
SpinUnchecked(t) == busy' = TRUE
Spin(t) == ~busy /\ busy' = TRUE

(* VecDeque::push_back and pop_front. *)
PushFront(t) == waiters' = <<t>> \o waiters
PushBack(t) == waiters' = Append(waiters, t)

(* What unlock does with the flag it popped. *)
MarkIfFree(t) == marked' = IF locked THEN marked ELSE marked \union popped[t]
MarkWaiter(t) == marked' = marked \union popped[t]

-----------------------------------------------------------------------------
Init ==
  /\ pc = [t \in Threads |-> "idle"]
  /\ locked = FALSE /\ busy = FALSE
  /\ waiters = <<>>
  /\ marked = {} /\ missed = {}
  /\ popped = [t \in Threads |-> {}]

(* Mutex::try_lock; when it fails nothing has changed. *)
TryLock(t) ==
  /\ pc[t] = "idle"
  /\ Take(t)
  /\ UNCHANGED <<busy, waiters, marked, popped, missed>>

(* Mutex::lock. *)
Lock(t) ==
  /\ pc[t] = "idle"
  /\ Goto(t, "locking")
  /\ UNCHANGED <<locked, busy, waiters, marked, popped, missed>>

(* The loop of RawMutex::lock: the mutex is taken, or a new flag is made. *)
Acquire(t) ==
  /\ pc[t] = "locking"
  /\ Take(t)
  /\ UNCHANGED <<busy, waiters, marked, popped, missed>>

FindLocked(t) ==
  /\ pc[t] = "locking"
  /\ locked
  /\ Goto(t, "queueing")
  /\ marked' = marked \ {t}
  /\ missed' = missed \ {t}
  /\ UNCHANGED <<locked, busy, waiters, popped>>

(* Waiters::push, and the call of block_on. *)
StartPush(t) ==
  /\ pc[t] = "queueing"
  /\ Spin(t)
  /\ Goto(t, "pushing")
  /\ UNCHANGED <<locked, waiters, marked, popped, missed>>

Push(t) ==
  /\ pc[t] = "pushing"
  /\ PushBack(t)
  /\ busy' = FALSE
  /\ Goto(t, "asleep")
  /\ UNCHANGED <<locked, marked, popped, missed>>

(* block_on returns. *)
Wake(t) ==
  /\ pc[t] = "asleep"
  /\ t \in marked
  /\ Goto(t, "locking")
  /\ UNCHANGED <<locked, busy, waiters, marked, popped, missed>>

(* RawMutex::unlock, from the drop of the MutexGuard. *)
Unlock(t) ==
  /\ pc[t] = "holding"
  /\ locked' = FALSE
  /\ Goto(t, "unlocking")
  /\ UNCHANGED <<busy, waiters, marked, popped, missed>>

(* Waiters::pop. *)
StartPop(t) ==
  /\ pc[t] = "unlocking"
  /\ Spin(t)
  /\ Goto(t, "popping")
  /\ UNCHANGED <<locked, waiters, marked, popped, missed>>

PopNone(t) ==
  /\ pc[t] = "popping"
  /\ waiters = <<>>
  /\ busy' = FALSE
  /\ Goto(t, "idle")
  /\ missed' = missed \union {u \in Threads : pc[u] = "queueing"}
  /\ UNCHANGED <<locked, waiters, marked, popped>>

Pop(t) ==
  /\ pc[t] = "popping"
  /\ waiters # <<>>
  /\ popped' = [popped EXCEPT ![t] = {Head(waiters)}]
  /\ waiters' = Tail(waiters)
  /\ busy' = FALSE
  /\ Goto(t, "marking")
  /\ UNCHANGED <<locked, marked, missed>>

(* AsyncFlag::mark. *)
Mark(t) ==
  /\ pc[t] = "marking"
  /\ MarkWaiter(t)
  /\ popped' = [popped EXCEPT ![t] = {}]
  /\ Goto(t, "idle")
  /\ UNCHANGED <<locked, busy, waiters, missed>>

Locking(t) == Acquire(t) \/ FindLocked(t) \/ StartPush(t) \/ Push(t) \/ Wake(t)
Unlocking(t) == StartPop(t) \/ PopNone(t) \/ Pop(t) \/ Mark(t)

Next == \E t \in Threads : TryLock(t) \/ Lock(t) \/ Locking(t) \/ Unlock(t) \/ Unlocking(t)

(* A thread that is in lock or unlock goes on.  Nothing makes it drop its guard. *)
Fairness == \A t \in Threads : WF_vars(Locking(t)) /\ WF_vars(Unlocking(t))

Spec == Init /\ [][Next]_vars /\ Fairness

-----------------------------------------------------------------------------
(* Both the mutex and the spin lock around its queue are locks: the guards
   handed out, which give &mut to the same value, exclude each other, and so
   do the accesses to the VecDeque behind an UnsafeCell. *)
Guards == {t \in Threads : pc[t] = "holding"}
InQueue == {t \in Threads : pc[t] \in {"pushing", "popping"}}
Data == INSTANCE Mutex WITH inside <- Guards
Queue == INSTANCE Mutex WITH inside <- InQueue
BothExclude == Data!Spec /\ Queue!Spec

(* Somebody holds the mutex, is about to take or to find it taken, or has not
   finished the unlock that wakes the first waiter. *)
Active ==
  \/ locked
  \/ \E t \in Threads :
       \/ pc[t] \in {"locking", "unlocking", "popping", "marking"}
       \/ pc[t] = "asleep" /\ t \in marked

(* A waiter that nobody is going to wake, while the mutex is free, is one that
   missed an unlock between its failing try_lock and its push (lines 92 to
   94): the queue was empty when that unlock looked.  No other order of steps
   strands a waiter, whoever takes the mutex before those that were woken. *)
Waiting(t) ==
  \/ pc[t] \in {"queueing", "pushing"}
  \/ pc[t] = "asleep" /\ t \notin marked
StrandedOnlyIfMissed == \A t \in Threads : Waiting(t) => Active \/ t \in missed

(* If every guard is dropped, a waiter that missed no unlock is woken: others
   may be faster than those who were woken, but they wake in their turn. *)
GuardsDropped == \A t \in Threads : []<>(pc[t] # "holding")
QueuedIsWoken ==
  GuardsDropped =>
    \A t \in Threads :
      (pc[t] = "asleep" /\ t \notin missed) ~> (pc[t] = "locking")
=============================================================================
