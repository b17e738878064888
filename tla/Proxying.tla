------------------------------ MODULE Proxying ------------------------------
(***************************************************************************)
(* proxying::Queue (src/src/proxying.rs): the five ways to run a closure   *)
(* on another thread, over emscripten's proxying queue.                    *)
(*                                                                         *)
(* A call boxes its closure and passes the raw pointer to emscripten.  The *)
(* target runs it from its queue; then the origin is answered: its         *)
(* callback or cancel function runs, or, for the blocking calls, it wakes  *)
(* up.  The calls differ in who frees the allocation, and in whether a     *)
(* Context, which the closure may keep, decides when the call is finished. *)
(* A thread that exits cancels what was proxied to it.                     *)
(*                                                                         *)
(* Queue::execute and the event loop both run a queue; a closure may run   *)
(* while another one is on the thread's stack.                             *)
(***************************************************************************)
EXTENDS Naturals, FiniteSets

CONSTANTS
  Threads,  \* the threads of the program
  Calls,    \* the calls made on one queue
  Kinds,    \* the operations that are used
  NoCall    \* not a call

ASSUME ProxyingAssumption ==
  /\ Kinds \subseteq {"async", "blocking", "blocking_ctx", "callback", "callback_ctx"}
  /\ NoCall \notin Calls

VARIABLES
  kind,     \* kind[c]: the operation
  origin,   \* origin[c]: the thread that called it
  target,   \* target[c]: the thread that is to run the closure
  at,       \* at[c]: where the closure is
  context,  \* context[c]: emscripten's em_proxying_ctx
  answer,   \* answer[c]: what goes back to the origin
  refs,     \* refs[c]: owners of the allocation behind arg
  result,   \* result[c]: a blocking call returned Some, or true
  alive,    \* the threads that have not exited
  waiting   \* waiting[t]: the call that blocks t

callVars == <<kind, origin, target>>
vars == <<callVars, at, context, answer, refs, result, alive, waiting>>

CtxKinds == {"blocking_ctx", "callback_ctx"}
Blocking == {"blocking", "blocking_ctx"}

TypeOK ==
  /\ kind \in [Calls -> Kinds]
  /\ origin \in [Calls -> Threads] /\ target \in [Calls -> Threads]
  /\ at \in [Calls -> {"new", "refused", "queued", "running", "ran", "cancelled"}]
  /\ context \in [Calls -> {"none", "live", "finished", "cancelled"}]
  /\ answer \in [Calls -> {"none", "callback", "cancel", "taken", "lost"}]
  /\ refs \in [Calls -> 0..2]
  /\ result \in [Calls -> BOOLEAN]
  /\ alive \subseteq Threads
  /\ waiting \in [Threads -> Calls \union {NoCall}]

-----------------------------------------------------------------------------
(* Who owns the allocation.  A definition placed before another with the
   same parameter is a faulty variant of it, kept to show that the
   properties depend on it. *)

(* Owners given up when the closure has run: it was taken out of its Box,
   or, for callback_ctx, `proxy` drops its Arc. *)
RunFrees(k) == IF k = "blocking" THEN 0 ELSE 1
RunTakes(k) == IF k \in {"blocking", "callback"} THEN 0 ELSE 1

(* Owners given up by `callback` and `cancel`, or by the caller of
   proxy_blocking when emscripten_proxy_sync returns. *)
AnswerTakes(k) == IF k \in {"async", "blocking_ctx"} THEN 0 ELSE 1

(* A Box has one owner; increment_strong_count makes two of an Arc. *)
OwnersOnce(k) == 1
Owners(k) == IF k = "callback_ctx" THEN 2 ELSE 1

(* Owners given up when emscripten refuses the call. *)
RefusedOnce(k) == 1
RefusedTakes(k) == IF k = "blocking_ctx" THEN 0 ELSE Owners(k)

(* The answers for which a function was passed to emscripten. *)
CallbackOnly(k) == {"callback"}
Answers(k) == {"callback", "cancel"}

(* Whether the call goes through the queue: proxy_blocking calls a closure
   for its own thread directly.  proxy_blocking_with_ctx does not look, and
   emscripten aborts the program. *)
AlwaysQueued(k, o, t) == TRUE
ThroughQueue(k, o, t) == o # t \/ k \notin Blocking

(* Whether the caller waits for the answer. *)
WaitsWithCtx(k) == k = "blocking_ctx"
Waits(k) == k \in Blocking

(* Whether a blocking call returns Some, or true.  emscripten returns 0 for
   a cancelled call, and proxy_blocking hands out its result only then. *)
SyncResult(c) ==
  IF kind[c] = "blocking_ctx" THEN answer[c] = "callback"
                              ELSE answer[c] = "cancel" /\ at[c] = "ran"

-----------------------------------------------------------------------------
(* An answer is lost when its origin has exited. *)
Answered(c, a) == IF origin[c] \in alive THEN a ELSE "lost"

Free(t) == t \in alive /\ waiting[t] = NoCall

Init ==
  /\ kind \in [Calls -> Kinds]
  /\ origin \in [Calls -> Threads] /\ target \in [Calls -> Threads]
  /\ at = [c \in Calls |-> "new"]
  /\ context = [c \in Calls |-> "none"]
  /\ answer = [c \in Calls |-> "none"]
  /\ refs = [c \in Calls |-> 0]
  /\ result = [c \in Calls |-> FALSE]
  /\ alive = Threads
  /\ waiting = [t \in Threads |-> NoCall]

(* emscripten enqueues the closure; a blocking call waits. *)
Accept(c) ==
  /\ at[c] = "new" /\ Free(origin[c])
  /\ ThroughQueue(kind[c], origin[c], target[c])
  /\ target[c] \in alive
  /\ at' = [at EXCEPT ![c] = "queued"]
  /\ refs' = [refs EXCEPT ![c] = Owners(kind[c])]
  /\ waiting' = IF Waits(kind[c]) THEN [waiting EXCEPT ![origin[c]] = c]
                                        ELSE waiting
  /\ UNCHANGED <<callVars, context, answer, result, alive>>

(* emscripten refuses it: the target has exited, or no memory is left. *)
Refuse(c) ==
  /\ at[c] = "new" /\ Free(origin[c])
  /\ ThroughQueue(kind[c], origin[c], target[c])
  /\ at' = [at EXCEPT ![c] = "refused"]
  /\ refs' = [refs EXCEPT ![c] = Owners(kind[c]) - RefusedTakes(kind[c])]
  /\ UNCHANGED <<callVars, context, answer, result, alive, waiting>>

(* proxy_blocking for the calling thread. *)
RunInline(c) ==
  /\ at[c] = "new" /\ Free(origin[c])
  /\ ~ThroughQueue(kind[c], origin[c], target[c])
  /\ kind[c] = "blocking"
  /\ at' = [at EXCEPT ![c] = "ran"]
  /\ result' = [result EXCEPT ![c] = TRUE]
  /\ UNCHANGED <<callVars, context, answer, refs, alive, waiting>>

(* The target begins to run the closure. *)
Run(c) ==
  /\ at[c] = "queued" /\ Free(target[c])
  /\ at' = [at EXCEPT ![c] = "running"]
  /\ context' = [context EXCEPT ![c] = "live"]
  /\ UNCHANGED <<callVars, answer, refs, result, alive, waiting>>

(* Context::drop: while the closure runs, or later if it kept the context. *)
Finish(c) ==
  /\ kind[c] \in CtxKinds
  /\ at[c] \in {"running", "ran"} /\ context[c] = "live" /\ Free(target[c])
  /\ context' = [context EXCEPT ![c] = "finished"]
  /\ answer' = [answer EXCEPT ![c] = Answered(c, "callback")]
  /\ UNCHANGED <<callVars, at, refs, result, alive, waiting>>

(* The closure returns; without a Context, emscripten finishes the call. *)
Return(c) ==
  /\ at[c] = "running" /\ Free(target[c])
  /\ at' = [at EXCEPT ![c] = "ran"]
  /\ refs' = [refs EXCEPT ![c] = @ - RunTakes(kind[c])]
  /\ IF kind[c] \in CtxKinds \/ context[c] # "live"
       THEN UNCHANGED <<context, answer>>
       ELSE /\ context' = [context EXCEPT ![c] = "finished"]
            /\ answer' = IF kind[c] = "async" THEN answer
                         ELSE [answer EXCEPT ![c] = Answered(c, "callback")]
  /\ UNCHANGED <<callVars, result, alive, waiting>>

(* `callback` or `cancel` runs on the origin and frees what is its own. *)
AnswerOrigin(c) ==
  /\ kind[c] \notin Blocking
  /\ answer[c] \in Answers(kind[c]) /\ Free(origin[c])
  /\ answer' = [answer EXCEPT ![c] = "taken"]
  /\ refs' = [refs EXCEPT ![c] = @ - AnswerTakes(kind[c])]
  /\ UNCHANGED <<callVars, at, context, result, alive, waiting>>

(* A blocking call returns. *)
Unblock(c) ==
  /\ waiting[origin[c]] = c
  /\ answer[c] \in {"callback", "cancel"}
  /\ answer' = [answer EXCEPT ![c] = "taken"]
  /\ refs' = [refs EXCEPT ![c] = @ - AnswerTakes(kind[c])]
  /\ result' = [result EXCEPT ![c] = SyncResult(c)]
  /\ waiting' = [waiting EXCEPT ![origin[c]] = NoCall]
  /\ UNCHANGED <<callVars, at, context, alive>>

(* A thread exits.  emscripten cancels what is queued for it and the
   contexts it still holds, and discards the answers it has not taken. *)
Exit(t) ==
  LET cut(c) == /\ target[c] = t
                /\ at[c] = "queued" \/ context[c] = "live"
  IN  /\ Free(t)
      /\ \A c \in Calls : target[c] = t => at[c] # "running"
      /\ alive' = alive \ {t}
      /\ at' = [c \in Calls |-> IF cut(c) /\ at[c] = "queued" THEN "cancelled" ELSE at[c]]
      /\ context' = [c \in Calls |-> IF cut(c) THEN "cancelled" ELSE context[c]]
      /\ answer' = [c \in Calls |->
           IF cut(c) /\ kind[c] # "async"
             THEN IF origin[c] = t THEN "lost" ELSE Answered(c, "cancel")
             ELSE IF origin[c] = t /\ answer[c] \in {"callback", "cancel"}
                    THEN "lost" ELSE answer[c]]
      /\ UNCHANGED <<callVars, refs, result, waiting>>

Next ==
  \/ \E c \in Calls : \/ Accept(c) \/ Refuse(c) \/ RunInline(c)
                      \/ Run(c) \/ Finish(c) \/ Return(c)
                      \/ AnswerOrigin(c) \/ Unblock(c)
  \/ \E t \in Threads : Exit(t)

(* A thread that is not blocked serves its queues and ends what it runs;
   nothing says that a Context is ever dropped. *)
Fairness ==
  \A c \in Calls : /\ WF_vars(Run(c)) /\ WF_vars(Return(c))
                   /\ WF_vars(AnswerOrigin(c)) /\ WF_vars(Unblock(c))

Spec == Init /\ [][Next]_vars /\ Fairness

-----------------------------------------------------------------------------
(* The allocation lives as long as either thread may still use it, in
   whatever order the closure returns and the answer is taken. *)
AliveWhileUsed ==
  \A c \in Calls :
    /\ at[c] \in {"queued", "running"} => refs[c] > 0
    /\ answer[c] \in {"callback", "cancel"} /\ AnswerTakes(kind[c]) > 0 => refs[c] > 0

(* Once a call has run and its answer was taken, or it was refused, its
   allocation is freed.  The exceptions: an answer that is still owed, or was
   lost with the exit of its origin, is taken by nobody; and in the code, no one
   frees what a cancelled call was to consume when it ran, and
   proxy_blocking_with_ctx does not free what emscripten refuses. *)
LeaksOnlyUnrun ==
  \A c \in Calls :
    (refs[c] > 0 /\ at[c] \notin {"queued", "running"}) =>
      \/ at[c] \in {"ran", "cancelled"} /\ AnswerTakes(kind[c]) > 0 /\ answer[c] # "taken"
      \/ at[c] = "cancelled" /\ RunTakes(kind[c]) > 0
      \/ at[c] = "refused" /\ kind[c] = "blocking_ctx"

(* The closure of proxy_blocking may borrow from its caller: it is queued or
   on a stack only while the caller waits for it. *)
BorrowsCovered ==
  \A c \in Calls :
    (kind[c] = "blocking" /\ at[c] \in {"queued", "running"}) => waiting[origin[c]] = c

(* Two or more threads that wait in blocking calls for each other. *)
Deadlocked(t) ==
  \E S \in SUBSET Threads :
    /\ t \in S /\ Cardinality(S) > 1
    /\ \A u \in S : waiting[u] # NoCall /\ target[waiting[u]] \in S

(* Without contexts, a blocking call returns unless threads block each other:
   a call for its own thread, or for one that exits, does not block it. *)
BlockedReturns ==
  \A c \in Calls : (waiting[origin[c]] = c) ~>
                     (waiting[origin[c]] # c \/ Deadlocked(origin[c]))

(* Without contexts, an accepted proxy_callback is answered once, by callback
   or by cancel, unless its origin exits or a deadlock keeps a thread. *)
IsAnswered ==
  \A c \in Calls : (kind[c] = "callback" /\ at[c] = "queued") ~>
     (answer[c] \in {"taken", "lost"} \/ Deadlocked(origin[c]) \/ Deadlocked(target[c]))
=============================================================================
