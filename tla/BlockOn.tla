------------------------------ MODULE BlockOn -------------------------------
(***************************************************************************)
(* future::block_on on one thread (src/src/future.rs), with the events and *)
(* promises it is built from.                                              *)
(*                                                                         *)
(* A call polls its future and, while that is pending, suspends the thread *)
(* (Asyncify) on a promise.  A waker, on any thread, proxies a closure to  *)
(* this thread's queue; the event loop runs it when the thread is          *)
(* suspended or idle.  The closure takes the Event stored in the           *)
(* thread-local CURRENT_EVENT, stores a new one, and fulfils the old       *)
(* promise with the new: the promises of one thread form a chain, and a    *)
(* suspended call walks it one link per wake.                              *)
(*                                                                         *)
(* Promises are numbered in the order of their creation, and value[p] is   *)
(* what p was fulfilled with.  Everything on this thread is serialised by  *)
(* the event loop; only Fire, SpuriousWake and Wake belong to others.      *)
(***************************************************************************)
EXTENDS Naturals, Sequences, FiniteSets

CONSTANTS
  Futures,      \* the futures handed to block_on, each driven by one call
  Events,       \* outside events a future waits for before it is ready
  MaxDepth,     \* bound: nested calls on the thread's stack
  MaxSpurious   \* bound: wakes that carry no event

ASSUME BlockOnAssumption ==
  /\ Events \in Nat
  /\ MaxDepth \in Nat \ {0}
  /\ MaxSpurious \in Nat

Pending == 0    \* value of a promise that is not fulfilled; no promise

VARIABLES
  stack,        \* the futures whose calls are active, innermost last
  at,           \* at[f]: where the call that drives f is
  promise,      \* promise[f]: the variable `promise` of that call
  current,      \* CURRENT_EVENT: the promise whose Event is stored
  value,        \* value[p]: what p was fulfilled with
  owned,        \* promises whose Promise half still has an owner
  armed,        \* promises dropped un-awaited: they free their value
  fired,        \* fired[f]: events of f that have happened
  seen,         \* seen[f]: events the last poll of f observed
  registered,   \* registered[f]: f holds a waker it has not called yet
  calls,        \* calls[f]: wake calls begun that have not proxied yet
  posted,       \* posted[f]: closures in the queue of f's Wake
  spurious,     \* wakes without an event so far
  root,         \* root[f]: history, the first promise of f's call
  latest        \* history, the first promise of the latest call

callVars == <<stack, at, root, latest>>
chainVars == <<promise, current, value, owned, armed>>
sourceVars == <<fired, registered, calls, posted, spurious>>
vars == <<callVars, chainVars, sourceVars, seen>>

Where == {"new", "poll", "await", "returned"}

TypeOK ==
  /\ stack \in Seq(Futures)
  /\ at \in [Futures -> Where]
  /\ value \in Seq(Nat)
  /\ current \in 0..Len(value)
  /\ promise \in [Futures -> 0..Len(value)]
  /\ \A f \in Futures : at[f] # "new" => promise[f] # Pending
  /\ owned \subseteq 1..Len(value)
  /\ armed \subseteq 1..Len(value)
  /\ fired \in [Futures -> 0..Events]
  /\ seen \in [Futures -> 0..Events]
  /\ registered \in [Futures -> BOOLEAN]
  /\ calls \in [Futures -> Nat]
  /\ posted \in [Futures -> Nat]
  /\ spurious \in 0..MaxSpurious
  /\ root \in [Futures -> 0..Len(value)]
  /\ latest \in 0..Len(value)

-----------------------------------------------------------------------------
Top == stack[Len(stack)]

Running(f) == stack # <<>> /\ Top = f /\ at[f] = "poll"

(* Proxied closures run when no Rust frame of this thread is executing. *)
AtEventLoop == ~(stack # <<>> /\ at[Top] = "poll")

Suspended == \E f \in Futures : at[f] = "await"

Ready(f) == fired[f] = Events

NewPromise == Len(value) + 1

(***************************************************************************)
(* The pieces the actions are made of.  A definition placed right before   *)
(* one of them with the same parameter is a faulty variant of it, kept to  *)
(* show that the properties below depend on it.                            *)
(***************************************************************************)

(* CURRENT_EVENT.set(Some(event)): what was stored is dropped. *)
StoreEventOnce(p) == current' = IF current = Pending THEN p ELSE current
StoreEvent(p) == current' = p

(* current_event.fulfill(promise.into_raw()), p's value being the new n. *)
FulfilNothing(p, n) == value' = Append(value, Pending)
Fulfil(p, n) == value' = Append([value EXCEPT ![p] = n], Pending)

(* Promise::drop: when p is fulfilled, now or later, its value is freed. *)
DropUncleaned(p) ==
  /\ owned' = owned \ {p}
  /\ UNCHANGED armed
DropPromise(p) ==
  /\ armed' = armed \union {p}
  /\ owned' = owned \ {p, value[p]}

(* What the loop of block_on awaits after the promise it awaited. *)
SamePromise(f) == promise[f]
NextPromise(f) == value[promise[f]]

(* A suspended call goes on when its promise is fulfilled. *)
AwaitNothing(f) == TRUE
Fulfilled(f) == value[promise[f]] # Pending

-----------------------------------------------------------------------------
Init ==
  /\ stack = <<>>
  /\ at = [f \in Futures |-> "new"]
  /\ promise = [f \in Futures |-> Pending]
  /\ current = Pending
  /\ value = <<>>
  /\ owned = {}
  /\ armed = {}
  /\ fired = [f \in Futures |-> 0]
  /\ seen = [f \in Futures |-> 0]
  /\ registered = [f \in Futures |-> FALSE]
  /\ calls = [f \in Futures |-> 0]
  /\ posted = [f \in Futures |-> 0]
  /\ spurious = 0
  /\ root = [f \in Futures |-> Pending]
  /\ latest = Pending

(***************************************************************************)
(* block_on(f): creates an event and its promise and stores the event,     *)
(* dropping the one that was stored.  It may be called by the thread's own *)
(* code, from inside the poll of another call, or from a callback while a  *)
(* call is suspended; Asyncify suspends a thread once, so a callback can   *)
(* only drive a future that is ready.                                      *)
(***************************************************************************)
BlockOn(f) ==
  /\ at[f] = "new"
  /\ Len(stack) < MaxDepth
  /\ Suspended => Ready(f)
  /\ stack' = Append(stack, f)
  /\ at' = [at EXCEPT ![f] = "poll"]
  /\ value' = Append(value, Pending)
  /\ StoreEvent(NewPromise)
  /\ promise' = [promise EXCEPT ![f] = NewPromise]
  /\ owned' = owned \union {NewPromise}
  /\ root' = [root EXCEPT ![f] = NewPromise]
  /\ latest' = NewPromise
  /\ UNCHANGED <<armed, seen, sourceVars>>

(* Poll::Pending: the future stored the waker, the call blocks. *)
PollPending(f) ==
  /\ Running(f)
  /\ ~Ready(f)
  /\ seen' = [seen EXCEPT ![f] = fired[f]]
  /\ registered' = [registered EXCEPT ![f] = TRUE]
  /\ at' = [at EXCEPT ![f] = "await"]
  /\ UNCHANGED <<stack, root, latest, chainVars, fired, calls, posted, spurious>>

(***************************************************************************)
(* Poll::Ready: the call returns.  CURRENT_EVENT is left as it is; the     *)
(* drop of the promise leaves a callback that frees the promise it is, or  *)
(* will be, fulfilled with.                                                *)
(***************************************************************************)
PollReady(f) ==
  /\ Running(f)
  /\ Ready(f)
  /\ seen' = [seen EXCEPT ![f] = fired[f]]
  /\ at' = [at EXCEPT ![f] = "returned"]
  /\ stack' = SubSeq(stack, 1, Len(stack) - 1)
  /\ DropPromise(promise[f])
  /\ UNCHANGED <<root, latest, promise, current, value, sourceVars>>

(* block_on_boxed returns once its promise is fulfilled: the call goes on
   with the promise it was fulfilled with, and polls again. *)
Resume(f) ==
  /\ stack # <<>> /\ Top = f /\ at[f] = "await"
  /\ Fulfilled(f)
  /\ at' = [at EXCEPT ![f] = "poll"]
  /\ owned' = owned \ {promise[f]}
  /\ promise' = [promise EXCEPT ![f] = NextPromise(f)]
  /\ UNCHANGED <<stack, root, latest, current, value, armed, sourceVars, seen>>

(* The closure of wake_by_ref, run by the event loop. *)
RunWake(f) ==
  /\ AtEventLoop
  /\ posted[f] > 0
  /\ posted' = [posted EXCEPT ![f] = @ - 1]
  /\ IF current = Pending
     THEN UNCHANGED <<current, value, owned>>
     ELSE /\ Fulfil(current, NewPromise)
          /\ StoreEvent(NewPromise)
          /\ owned' = IF current \in armed THEN owned
                                           ELSE owned \union {NewPromise}
  /\ UNCHANGED <<callVars, promise, armed, fired, registered, calls, spurious, seen>>

(* An event of f happens, and calls the waker f has stored. *)
Fire(f) ==
  /\ fired[f] < Events
  /\ fired' = [fired EXCEPT ![f] = @ + 1]
  /\ registered' = [registered EXCEPT ![f] = FALSE]
  /\ calls' = [calls EXCEPT ![f] = IF registered[f] THEN @ + 1 ELSE @]
  /\ UNCHANGED <<callVars, chainVars, posted, spurious, seen>>

(* A clone of the waker is called without reason, even after the return. *)
SpuriousWake(f) ==
  /\ at[f] # "new"
  /\ spurious < MaxSpurious
  /\ spurious' = spurious + 1
  /\ calls' = [calls EXCEPT ![f] = @ + 1]
  /\ UNCHANGED <<callVars, chainVars, fired, registered, posted, seen>>

(* Wake::wake_by_ref: the closure is proxied to the thread. *)
Wake(f) ==
  /\ calls[f] > 0
  /\ calls' = [calls EXCEPT ![f] = @ - 1]
  /\ posted' = [posted EXCEPT ![f] = @ + 1]
  /\ UNCHANGED <<callVars, chainVars, fired, registered, spurious, seen>>

Next ==
  \E f \in Futures :
    \/ BlockOn(f) \/ PollPending(f) \/ PollReady(f) \/ Resume(f)
    \/ RunWake(f) \/ Fire(f) \/ SpuriousWake(f) \/ Wake(f)

(***************************************************************************)
(* The thread runs, a waker that was called finishes, and the event loop   *)
(* delivers what was posted.  Nothing makes an event happen or a call      *)
(* start.                                                                  *)
(***************************************************************************)
Fairness ==
  \A f \in Futures :
    /\ WF_vars(PollPending(f)) /\ WF_vars(PollReady(f)) /\ WF_vars(Resume(f))
    /\ WF_vars(RunWake(f)) /\ WF_vars(Wake(f))

Spec == Init /\ [][Next]_vars /\ Fairness

-----------------------------------------------------------------------------
(* The promises that a walk along the chain reaches from p. *)
Reach(p) == {q \in p..Len(value) : \A r \in p..(q - 1) : value[r] = r + 1}

Active == {f \in Futures : at[f] \in {"poll", "await"}}

(* No other call was begun on the thread after the one that drives f. *)
Innermost(f) == f \in Active /\ root[f] = latest

(* A call can be reached by wakes exactly as long as no later call was begun
   on its thread, nested in its poll or in a callback: CURRENT_EVENT is one
   cell for all calls (future.rs, lines 44-46 and 79). *)
ChainReachesCurrent ==
  \A f \in Active : (current \in Reach(promise[f])) <=> Innermost(f)

(* A call never sleeps through an event: when it is suspended and an event
   happened since its last poll, the wake for it is still being made, is
   queued, or has already fulfilled the promise it sleeps on. *)
NoLostWake ==
  \A f \in Futures :
    (Innermost(f) /\ at[f] = "await" /\ seen[f] < fired[f])
      => calls[f] > 0 \/ posted[f] > 0 \/ Fulfilled(f)

(***************************************************************************)
(* Why these hold.  ChainShape: the stored event is always that of the     *)
(* newest promise; from the first promise of the latest call on, each was  *)
(* fulfilled with the next, and the one before it never is; the calls that *)
(* were overtaken are stuck before that gap.  WakeUnderway: a call that    *)
(* sleeps is registered with its future, unless a wake is on its way.      *)
(***************************************************************************)
ChainShape ==
  /\ current = Len(value)
  /\ \A p \in 1..Len(value) :
       /\ value[p] \in {Pending, p + 1}
       /\ latest <= p /\ p < current => value[p] = p + 1
       /\ p = current \/ p + 1 = latest => value[p] = Pending
  /\ \A f \in Active :
       /\ root[f] \in 1..latest
       /\ promise[f] \in root[f]..current
       /\ root[f] = latest \/ promise[f] < latest

WakeUnderway ==
  \A f \in Futures :
    (Innermost(f) /\ at[f] = "await") =>
      /\ seen[f] < fired[f] => ~registered[f]
      /\ registered[f] \/ calls[f] > 0 \/ posted[f] > 0 \/ Fulfilled(f)

(* Promise halves that no active call will ever reach and nobody frees. *)
Leaked == owned \ UNION {Reach(promise[f]) : f \in Active}

(* The drop of a promise frees what it is fulfilled with but not what comes
   after that.  When calls are not nested, the promises left behind are
   fewer than the wakes that carried no event; without such wakes none is. *)
LeakBound == Leaked # {} => Cardinality(Leaked) < spurious

(* A call whose future has become ready returns, unless a later call on the
   same thread has taken its event away. *)
ReturnsUnlessOvertaken ==
  \A f \in Futures :
    (f \in Active /\ Ready(f)) ~> (at[f] = "returned" \/ root[f] # latest)

(* With one call at a time a call is a parker: each delivered wake is one
   permit, and each permit one more poll. *)
Phase ==
  IF stack = <<>> THEN "idle"
  ELSE IF at[Top] = "poll" THEN "polling" ELSE "parked"

Permits ==
  IF stack = <<>> THEN 0 ELSE Cardinality(Reach(promise[Top])) - 1

P == INSTANCE Parker WITH phase <- Phase, permits <- Permits

ImplementsParker == P!Spec
=============================================================================
