---------------------------- MODULE FetchRequest ----------------------------
(***************************************************************************)
(* fetch::Builder::send and ResponseBody::bytes: a request and its whole   *)
(* body (src/src/fetch.rs), over SendRequest and GetResponseBytes          *)
(* (src/fetch.cpp).                                                        *)
(*                                                                         *)
(* Each of the two leaves a boxed one-shot sender with JavaScript, whose   *)
(* then, or else whose catch, uses it once.  The response comes as a       *)
(* handle in emscripten's table, counted by the JsValue inside             *)
(* ResponseBody: it travels from the callback through the channel to the   *)
(* caller, who may have dropped the future at any await.  Handles that are *)
(* freed are given to other requests.                                      *)
(*                                                                         *)
(* All of it runs on one thread.  0 stands for no handle.                  *)
(***************************************************************************)
EXTENDS Naturals

CONSTANTS
  Requests,   \* calls of send
  Handles,    \* places in the table of handles
  Durations,  \* timeouts that a Builder is given, in fractions of a millisecond
  PerMilli,   \* so many of which are one millisecond
  MaxU64,     \* u64::MAX
  MaxDelay    \* the longest delay that AbortSignal.timeout takes, in ms

ASSUME RequestAssumption ==
  /\ Handles \subseteq Nat \ {0}
  /\ Durations \subseteq Nat
  /\ PerMilli \in Nat \ {0}
  /\ MaxDelay \in Nat \ {0} /\ MaxU64 \in Nat /\ MaxDelay < MaxU64

VARIABLES
  timeout,    \* timeout[r]: Builder.timeout, 0 for None
  call,       \* call[r]: where the caller of r is
  fetching,   \* fetching[r]: the promise of fetch()
  reading,    \* reading[r]: the promise of arrayBuffer()
  aborted,    \* the requests whose AbortSignal has fired
  boxes,      \* the boxed senders that JavaScript has been given
  answer,     \* answer[r]: the response in the channel of send
  failed,     \* the requests with an error in the channel of send
  bytes,      \* bytes[r]: the channel of bytes
  body,       \* body[r]: the handle in the caller's ResponseBody
  refs,       \* refs[h]: reference count
  object      \* object[h]: the request whose response h refers to, or 0

promiseVars == <<fetching, reading, aborted>>
tableVars == <<refs, object>>
vars == <<timeout, call, promiseVars, boxes, answer, failed, bytes, body, tableVars>>

Calls == {"new", "sending", "response", "reading", "returned", "dropped", "thrown"}
Promises == {"none", "pending", "settled"}

TypeOK ==
  /\ timeout \in [Requests -> Durations]
  /\ call \in [Requests -> Calls]
  /\ fetching \in [Requests -> Promises]
  /\ reading \in [Requests -> Promises]
  /\ aborted \subseteq Requests
  /\ boxes \subseteq Requests \X {"response", "bytes"}
  /\ answer \in [Requests -> Handles \union {0}]
  /\ failed \subseteq Requests
  /\ bytes \in [Requests -> {"empty", "ok", "error"}]
  /\ body \in [Requests -> Handles \union {0}]
  /\ \A r \in Requests : (body[r] # 0) <=> call[r] \in {"response", "reading"}
  /\ refs \in [Handles -> Nat]
  /\ object \in [Handles -> Requests \union {0}]

-----------------------------------------------------------------------------
(* A definition placed before another with the same parameters is a faulty
   variant of it, kept to show that the properties depend on it. *)

(* attrs.timeout: as_millis, and what does not fit a u64 becomes its MAX. *)
MillisOfSeconds(d) == (d \div (2 * PerMilli)) * 2
Millis(d) == IF d \div PerMilli > MaxU64 THEN MaxU64 ELSE d \div PerMilli

(* JsValue::drop on a handle; 0 stands for a value that was moved out. *)
Release(h) ==
  /\ refs' = [k \in Handles |-> IF k = h THEN refs[k] - 1 ELSE refs[k]]
  /\ UNCHANGED object

(* Emval.toHandle gives a place that is free; handle_response keeps its one
   reference in a JsValue, or has dropped it when it is over. *)
ToHandle(r, h, count) ==
  /\ refs[h] = 0
  /\ refs' = [refs EXCEPT ![h] = count]
  /\ object' = [object EXCEPT ![h] = r]

(* on_response and on_bytes_post take their box back. *)
BoxKept(r, kind) == UNCHANGED boxes
TakeBox(r, kind) == boxes' = boxes \ {<<r, kind>>}

(* AsyncSender::send: what no receiver waits for is dropped. *)
SendAnyway(r) == TRUE
Receives(r) == call[r] # "dropped"

(* self of bytes and chunks after they are done with it. *)
BodyKept(r) == body
BodyMoved(r) == [body EXCEPT ![r] = 0]

-----------------------------------------------------------------------------
Init ==
  /\ timeout \in [Requests -> Durations]
  /\ call = [r \in Requests |-> "new"]
  /\ fetching = [r \in Requests |-> "none"]
  /\ reading = [r \in Requests |-> "none"]
  /\ aborted = {} /\ boxes = {} /\ failed = {}
  /\ answer = [r \in Requests |-> 0]
  /\ bytes = [r \in Requests |-> "empty"]
  /\ body = [r \in Requests |-> 0]
  /\ refs = [h \in Handles |-> 0]
  /\ object = [h \in Handles |-> 0]

(* send: the first poll calls fetch().  AbortSignal.timeout throws for a delay
   that is too long, through the frames of the caller, who never goes on. *)
Send(r) ==
  /\ call[r] = "new"
  /\ boxes' = boxes \union {<<r, "response">>}
  /\ IF Millis(timeout[r]) > MaxDelay
       THEN call' = [call EXCEPT ![r] = "thrown"] /\ UNCHANGED fetching
       ELSE /\ call' = [call EXCEPT ![r] = "sending"]
            /\ fetching' = [fetching EXCEPT ![r] = "pending"]
  /\ UNCHANGED <<timeout, reading, aborted, answer, failed, bytes, body, tableVars>>

(* The AbortSignal; without a delay there is none. *)
TimerFires(r) ==
  /\ fetching[r] # "none" /\ r \notin aborted
  /\ Millis(timeout[r]) # 0
  /\ aborted' = aborted \union {r}
  /\ UNCHANGED <<timeout, call, fetching, reading, boxes, answer, failed, bytes, body, tableVars>>

(* then: on_response with status Sent, and handle_response.  A header that the
   http crate refuses gives an error, and the JsValue is dropped. *)
OnResponse(r, h, valid) ==
  /\ fetching[r] = "pending" /\ r \notin aborted
  /\ fetching' = [fetching EXCEPT ![r] = "settled"]
  /\ TakeBox(r, "response")
  /\ ToHandle(r, h, IF valid /\ Receives(r) THEN 1 ELSE 0)
  /\ answer' = IF valid /\ Receives(r) THEN [answer EXCEPT ![r] = h] ELSE answer
  /\ failed' = IF ~valid /\ Receives(r) THEN failed \union {r} ELSE failed
  /\ UNCHANGED <<timeout, call, reading, aborted, bytes, body>>

(* catch: on_response with status TimedOut or Exception, also for what the
   then throws before it gets to its own call.  The empty slice made from the
   null pointer that comes with them is undefined; this is a build without
   the checks that abort there, and nothing reads the slice. *)
OnRequestError(r) ==
  /\ fetching[r] = "pending"
  /\ fetching' = [fetching EXCEPT ![r] = "settled"]
  /\ TakeBox(r, "response")
  /\ failed' = IF Receives(r) THEN failed \union {r} ELSE failed
  /\ UNCHANGED <<timeout, call, reading, aborted, answer, bytes, body, tableVars>>

(* send returns. *)
PollSend(r) ==
  /\ call[r] = "sending"
  /\ answer[r] # 0 \/ r \in failed
  /\ call' = [call EXCEPT ![r] = IF r \in failed THEN "returned" ELSE "response"]
  /\ body' = [body EXCEPT ![r] = answer[r]]
  /\ answer' = [answer EXCEPT ![r] = 0]
  /\ failed' = failed \ {r}
  /\ UNCHANGED <<timeout, promiseVars, boxes, bytes, tableVars>>

(* bytes, or text: the first poll calls arrayBuffer(). *)
Bytes(r) ==
  /\ call[r] = "response"
  /\ call' = [call EXCEPT ![r] = "reading"]
  /\ boxes' = boxes \union {<<r, "bytes">>}
  /\ reading' = [reading EXCEPT ![r] = "pending"]
  /\ UNCHANGED <<timeout, fetching, aborted, answer, failed, bytes, body, tableVars>>

(* chunks: the reader holds the response itself, and self is dropped. *)
Chunks(r) ==
  /\ call[r] = "response"
  /\ call' = [call EXCEPT ![r] = "returned"]
  /\ Release(body[r]) /\ body' = BodyMoved(r)
  /\ UNCHANGED <<timeout, promiseVars, boxes, answer, failed, bytes>>

(* then and catch of arrayBuffer(), with on_bytes_pre and on_bytes_post. *)
OnBytes(r, result) ==
  /\ reading[r] = "pending"
  /\ reading' = [reading EXCEPT ![r] = "settled"]
  /\ TakeBox(r, "bytes")
  /\ bytes' = IF Receives(r) THEN [bytes EXCEPT ![r] = result] ELSE bytes
  /\ UNCHANGED <<timeout, call, fetching, aborted, answer, failed, body, tableVars>>

(* bytes returns, and drops self. *)
PollBytes(r) ==
  /\ call[r] = "reading" /\ bytes[r] # "empty"
  /\ call' = [call EXCEPT ![r] = "returned"]
  /\ bytes' = [bytes EXCEPT ![r] = "empty"]
  /\ Release(body[r]) /\ body' = BodyMoved(r)
  /\ UNCHANGED <<timeout, promiseVars, boxes, answer, failed>>

(* The caller drops the future, or the response it has: with it goes what is
   in the channel.  JavaScript does not learn of it. *)
Drop(r) ==
  /\ call[r] \in {"sending", "response", "reading"}
  /\ call' = [call EXCEPT ![r] = "dropped"]
  /\ Release(IF answer[r] # 0 THEN answer[r] ELSE body[r])
  /\ answer' = [answer EXCEPT ![r] = 0] /\ failed' = failed \ {r}
  /\ bytes' = [bytes EXCEPT ![r] = "empty"]
  /\ body' = BodyMoved(r)
  /\ UNCHANGED <<timeout, promiseVars, boxes>>

Next ==
  \E r \in Requests :
    \/ Send(r) \/ TimerFires(r) \/ OnRequestError(r) \/ PollSend(r)
    \/ \E h \in Handles, valid \in BOOLEAN : OnResponse(r, h, valid)
    \/ Bytes(r) \/ Chunks(r) \/ PollBytes(r) \/ Drop(r)
    \/ \E result \in {"ok", "error"} : OnBytes(r, result)

(* What was sent through a channel is polled, timers fire, and a promise whose
   signal has fired is settled.  Nothing makes a server answer. *)
Fairness ==
  \A r \in Requests :
    /\ WF_vars(PollSend(r)) /\ WF_vars(PollBytes(r)) /\ WF_vars(TimerFires(r))
    /\ WF_vars(r \in aborted /\ (OnRequestError(r) \/ OnBytes(r, "error")))

Spec == Init /\ [][Next]_vars /\ Fairness

-----------------------------------------------------------------------------
(* A boxed sender is with JavaScript exactly while the promise that will use
   it is pending, whatever became of the caller; only fetch() throwing for a
   timeout that is too long leaves one behind. *)
BoxPerPromise ==
  \A r \in Requests :
    /\ <<r, "response">> \in boxes <=> fetching[r] = "pending" \/ call[r] = "thrown"
    /\ <<r, "bytes">> \in boxes <=> reading[r] = "pending"

(* A handle lives as long as the response of one request is on its way to the
   caller or with it, and refers to that response: none is left when a future
   is dropped, and none is freed under a ResponseBody and given to another. *)
Owners(h) == {r \in Requests : call[r] # "dropped" /\ h \in {answer[r], body[r]}}
HandlesOwned ==
  \A h \in Handles :
    /\ refs[h] <= 1
    /\ Owners(h) = IF refs[h] = 0 THEN {} ELSE {object[h]}

(* A timeout of at least one millisecond bounds the wait for the response and
   the wait for its body, which may begin after it has passed; a shorter one
   is cut to zero, which means none. *)
TimeoutEndsIt ==
  \A r \in Requests :
    (timeout[r] >= PerMilli /\ call[r] \in {"sending", "reading"})
      ~> call[r] \notin {"sending", "reading"}
=============================================================================
