------------------------- MODULE FetchRequestProofs -------------------------
(***************************************************************************)
(* Proofs about FetchRequest for any number of requests, any table of      *)
(* handles and any timeouts: boxes, handles and promises stay paired, and  *)
(* a caller that waits has something on its way to it.                     *)
(***************************************************************************)
EXTENDS FetchRequest, TLAPS

(* Where a caller is, together with its promise and its channel. *)
CallShape ==
  \A r \in Requests :
    /\ fetching[r] = "none" <=> call[r] \in {"new", "thrown"}
    /\ fetching[r] = "pending" =>
         call[r] \in {"sending", "dropped"} /\ answer[r] = 0 /\ r \notin failed
    /\ answer[r] # 0 => call[r] = "sending" /\ r \notin failed
    /\ r \in failed => call[r] = "sending"

Inv == TypeOK /\ CallShape /\ BoxPerPromise /\ HandlesOwned

-----------------------------------------------------------------------------
LEMMA InitInv == Init => Inv
<1> SUFFICES ASSUME Init PROVE Inv
  OBVIOUS
<1> USE RequestAssumption DEF Init
<1>1. TypeOK
  BY DEF TypeOK, Calls, Promises
<1>2. CallShape
  BY DEF CallShape
<1>3. BoxPerPromise
  BY DEF BoxPerPromise
<1>4. HandlesOwned
  BY DEF HandlesOwned, Owners
<1> QED BY <1>1, <1>2, <1>3, <1>4 DEF Inv

(* A step that leaves the table, the channel of send and the ResponseBody of
   every caller alone, and drops nothing, keeps the handles in order. *)
LEMMA HandlesUntouched ==
  ASSUME HandlesOwned, UNCHANGED <<answer, body, tableVars>>,
         \A r \in Requests : call'[r] = "dropped" <=> call[r] = "dropped"
  PROVE  HandlesOwned'
BY DEF HandlesOwned, Owners, tableVars

(* The drop of the JsValue that r owns leaves its place to others. *)
LEMMA HandleReleased ==
  ASSUME TypeOK, HandlesOwned, NEW r \in Requests, NEW h \in Handles \union {0},
         Release(h),
         \A k \in Handles : r \in Owners(k) <=> k = h,
         \A k \in Handles : Owners(k)' = Owners(k) \ {r}
  PROVE  HandlesOwned' /\ refs' \in [Handles -> Nat] /\ object' = object
<1>1. refs \in [Handles -> Nat]
  BY DEF TypeOK
<1>2. /\ refs' = [k \in Handles |-> IF k = h THEN refs[k] - 1 ELSE refs[k]]
      /\ object' = object
  BY DEF Release
<1>3. ASSUME NEW k \in Handles
      PROVE  /\ refs'[k] \in Nat /\ refs'[k] <= 1
             /\ Owners(k)' = IF refs'[k] = 0 THEN {} ELSE {object[k]}
  <2>1. CASE k = h
    <3>1. r \in Owners(k) /\ refs[k] <= 1
          /\ Owners(k) = IF refs[k] = 0 THEN {} ELSE {object[k]}
      BY <2>1 DEF HandlesOwned
    <3>2. refs[k] = 1 /\ Owners(k) = {r}
      BY <1>1, <3>1
    <3>3. refs'[k] = 0 /\ Owners(k)' = {}
      BY <1>2, <2>1, <3>2
    <3> QED BY <3>3
  <2>2. CASE k # h
    <3>1. Owners(k)' = Owners(k) /\ refs'[k] = refs[k]
      BY <1>2, <2>2
    <3>2. refs[k] <= 1 /\ Owners(k) = IF refs[k] = 0 THEN {} ELSE {object[k]}
      BY DEF HandlesOwned
    <3> QED BY <1>1, <3>1, <3>2
  <2> QED BY <2>1, <2>2
<1>4. refs' \in [Handles -> Nat]
  BY <1>2, <1>3
<1> QED BY <1>2, <1>3, <1>4 DEF HandlesOwned

-----------------------------------------------------------------------------
(* One lemma for each kind of step: what only moves callers and promises ... *)
LEMMA CallStep ==
  ASSUME Inv, NEW r \in Requests,
         \/ Send(r) \/ TimerFires(r) \/ OnRequestError(r) \/ Bytes(r)
         \/ \E result \in {"ok", "error"} : OnBytes(r, result)
  PROVE  Inv'
<1>0. TypeOK /\ CallShape /\ BoxPerPromise /\ HandlesOwned
  BY DEF Inv
<1>1. UNCHANGED <<timeout, answer, body, tableVars>>
  BY DEF Send, TimerFires, OnRequestError, Bytes, OnBytes
<1>2. TypeOK'
  <2>1. CASE Send(r)
    BY <1>0, <2>1 DEF TypeOK, Calls, Promises, Send, tableVars
  <2>2. CASE TimerFires(r)
    BY <1>0, <2>2 DEF TypeOK, TimerFires, tableVars
  <2>3. CASE OnRequestError(r)
    BY <1>0, <2>3 DEF TypeOK, Promises, OnRequestError, TakeBox, tableVars
  <2>4. CASE Bytes(r)
    BY <1>0, <2>4 DEF TypeOK, Calls, Promises, Bytes, tableVars
  <2>5. ASSUME NEW result \in {"ok", "error"}, OnBytes(r, result)
        PROVE  TypeOK'
    BY <1>0, <2>5 DEF TypeOK, Promises, OnBytes, TakeBox, tableVars
  <2> QED BY <2>1, <2>2, <2>3, <2>4, <2>5
<1>3. CallShape'
  <2>0. /\ call \in [Requests -> Calls] /\ fetching \in [Requests -> Promises]
        /\ answer' = answer
    BY <1>0, <1>1 DEF TypeOK
  <2>1. CASE Send(r)
    BY <1>0, <2>0, <2>1 DEF CallShape, Send
  <2>2. CASE OnRequestError(r)
    BY <1>0, <2>0, <2>2 DEF CallShape, OnRequestError, Receives
  <2>3. CASE Bytes(r)
    BY <1>0, <2>0, <2>3 DEF CallShape, Bytes
  <2>4. CASE UNCHANGED <<call, fetching, failed>>
    BY <1>0, <2>0, <2>4 DEF CallShape
  <2> QED BY <2>1, <2>2, <2>3, <2>4 DEF TimerFires, OnBytes
<1>4. BoxPerPromise'
  <2>1. CASE Send(r)
    <3>1. call \in [Requests -> Calls] /\ fetching \in [Requests -> Promises]
      BY <1>0 DEF TypeOK
    <3>2. /\ boxes' = boxes \union {<<r, "response">>} /\ reading' = reading
          /\ call[r] = "new"
          /\ \/ call' = [call EXCEPT ![r] = "thrown"] /\ fetching' = fetching
             \/ /\ call' = [call EXCEPT ![r] = "sending"]
                /\ fetching' = [fetching EXCEPT ![r] = "pending"]
      BY <2>1 DEF Send
    <3>3. \A q \in Requests :
            /\ <<q, "response">> \in boxes' <=> q = r \/ <<q, "response">> \in boxes
            /\ <<q, "bytes">> \in boxes' <=> <<q, "bytes">> \in boxes
      BY <3>2
    <3> QED BY <1>0, <3>1, <3>2, <3>3 DEF BoxPerPromise
  <2>2. CASE TimerFires(r)
    BY <2>2, <1>0 DEF BoxPerPromise, TimerFires
  <2>3. CASE OnRequestError(r)
    BY <1>0, <2>3 DEF TypeOK, BoxPerPromise, CallShape, OnRequestError, TakeBox
  <2>4. CASE Bytes(r)
    BY <1>0, <2>4 DEF TypeOK, BoxPerPromise, Bytes
  <2>5. ASSUME NEW result \in {"ok", "error"}, OnBytes(r, result)
        PROVE  BoxPerPromise'
    BY <1>0, <2>5 DEF TypeOK, BoxPerPromise, OnBytes, TakeBox
  <2> QED BY <2>1, <2>2, <2>3, <2>4, <2>5
<1>5. \A q \in Requests : call'[q] = "dropped" <=> call[q] = "dropped"
  BY <1>0 DEF TypeOK, Send, TimerFires, OnRequestError, Bytes, OnBytes
<1>6. HandlesOwned'
  BY <1>0, <1>1, <1>5, HandlesUntouched
<1> QED BY <1>2, <1>3, <1>4, <1>6 DEF Inv

(* ... the response that arrives ... *)
LEMMA OnResponseStep ==
  ASSUME Inv, NEW r \in Requests, NEW h \in Handles, NEW valid \in BOOLEAN,
         OnResponse(r, h, valid)
  PROVE  Inv'
<1> DEFINE kept == valid /\ call[r] # "dropped"
<1>0. TypeOK /\ CallShape /\ BoxPerPromise /\ HandlesOwned
  BY DEF Inv
<1>1. /\ fetching[r] = "pending" /\ call[r] \in {"sending", "dropped"}
      /\ answer[r] = 0 /\ r \notin failed
      /\ fetching' = [fetching EXCEPT ![r] = "settled"]
      /\ boxes' = boxes \ {<<r, "response">>}
      /\ refs[h] = 0
      /\ refs' = [refs EXCEPT ![h] = IF kept THEN 1 ELSE 0]
      /\ object' = [object EXCEPT ![h] = r]
      /\ answer' = IF kept THEN [answer EXCEPT ![r] = h] ELSE answer
      /\ failed' \subseteq failed \union {r} /\ (kept => failed' = failed)
      /\ r \in failed' => call[r] # "dropped"
      /\ UNCHANGED <<timeout, call, reading, aborted, bytes, body>>
  BY <1>0 DEF OnResponse, TakeBox, ToHandle, Receives, CallShape
<1>2. answer' \in [Requests -> Handles \union {0}]
  BY <1>0, <1>1 DEF TypeOK
<1>3. refs' \in [Handles -> Nat] /\ object' \in [Handles -> Requests \union {0}]
  BY <1>0, <1>1 DEF TypeOK
<1>4. TypeOK'
  BY <1>0, <1>1, <1>2, <1>3 DEF TypeOK, Promises
<1>5. CallShape'
  <2>1. /\ fetching \in [Requests -> Promises]
        /\ answer \in [Requests -> Handles \union {0}]
    BY <1>0 DEF TypeOK
  <2>2. ASSUME NEW q \in Requests, q # r
        PROVE  /\ fetching'[q] = fetching[q] /\ answer'[q] = answer[q]
               /\ call'[q] = call[q] /\ (q \in failed' => q \in failed)
    BY <1>1, <2>1, <2>2
  <2>3. fetching'[r] = "settled" /\ call'[r] = call[r] /\ (answer'[r] # 0 => kept)
    BY <1>1, <2>1
  <2> QED BY <1>0, <1>1, <2>2, <2>3 DEF CallShape
<1>6. BoxPerPromise'
  BY <1>0, <1>1 DEF TypeOK, CallShape, BoxPerPromise
<1>7. HandlesOwned'
  <2> SUFFICES ASSUME NEW k \in Handles
               PROVE  /\ refs'[k] <= 1
                      /\ Owners(k)' = IF refs'[k] = 0 THEN {} ELSE {object'[k]}
    BY DEF HandlesOwned
  <2>1. refs[k] <= 1 /\ Owners(k) = IF refs[k] = 0 THEN {} ELSE {object[k]}
    BY <1>0 DEF HandlesOwned
  <2>2. k # 0
    BY RequestAssumption
  <2>3. Owners(k)' = IF kept /\ k = h THEN Owners(k) \union {r} ELSE Owners(k)
    <3>1. answer \in [Requests -> Handles \union {0}]
      BY <1>0 DEF TypeOK
    <3> QED BY <1>1, <2>2, <3>1 DEF Owners
  <2>4. /\ refs \in [Handles -> Nat] /\ object \in [Handles -> Requests \union {0}]
    BY <1>0 DEF TypeOK
  <2>5. CASE k = h
    <3>1. Owners(k) = {} /\ refs'[k] = (IF kept THEN 1 ELSE 0) /\ object'[k] = r
      BY <1>1, <2>1, <2>4, <2>5
    <3> QED BY <2>3, <2>5, <3>1
  <2>6. CASE k # h
    <3>1. refs'[k] = refs[k] /\ object'[k] = object[k] /\ Owners(k)' = Owners(k)
      BY <1>1, <2>3, <2>4, <2>6
    <3> QED BY <2>1, <3>1
  <2> QED BY <2>5, <2>6
<1> QED BY <1>4, <1>5, <1>6, <1>7 DEF Inv

(* ... the caller that takes it ... *)
LEMMA PollSendStep ==
  ASSUME Inv, NEW r \in Requests, PollSend(r)
  PROVE  Inv'
<1>0. TypeOK /\ CallShape /\ BoxPerPromise /\ HandlesOwned
  BY DEF Inv
<1>1. /\ call[r] = "sending" /\ body[r] = 0
      /\ fetching[r] = "settled"
      /\ answer[r] # 0 <=> r \notin failed
      /\ call' = [call EXCEPT ![r] = IF r \in failed THEN "returned" ELSE "response"]
      /\ body' = [body EXCEPT ![r] = answer[r]]
      /\ answer' = [answer EXCEPT ![r] = 0]
      /\ failed' = failed \ {r}
      /\ UNCHANGED <<timeout, fetching, reading, aborted, boxes, bytes, refs, object>>
  BY <1>0 DEF PollSend, promiseVars, tableVars, CallShape, TypeOK, Promises
<1>2. TypeOK'
  <2>1. call' \in [Requests -> Calls] /\ answer' \in [Requests -> Handles \union {0}]
        /\ body' \in [Requests -> Handles \union {0}]
    BY <1>0, <1>1 DEF TypeOK, Calls
  <2>2. \A q \in Requests : (body'[q] # 0) <=> call'[q] \in {"response", "reading"}
    BY <1>0, <1>1 DEF TypeOK
  <2> QED BY <1>0, <1>1, <2>1, <2>2 DEF TypeOK
<1>3. CallShape'
  BY <1>0, <1>1 DEF TypeOK, CallShape
<1>4. BoxPerPromise'
  BY <1>0, <1>1 DEF TypeOK, BoxPerPromise
<1>5. \A k \in Handles : Owners(k)' = Owners(k)
  <2>1. /\ 0 \notin Handles
        /\ call \in [Requests -> Calls]
        /\ answer \in [Requests -> Handles \union {0}]
        /\ body \in [Requests -> Handles \union {0}]
    BY <1>0, RequestAssumption DEF TypeOK
  <2> QED BY <1>1, <2>1 DEF Owners
<1>6. HandlesOwned'
  BY <1>0, <1>1, <1>5 DEF HandlesOwned
<1> QED BY <1>2, <1>3, <1>4, <1>6 DEF Inv

(* ... and the steps that end with the drop of what a caller owns. *)
LEMMA ReleaseStep ==
  ASSUME Inv, NEW r \in Requests, Chunks(r) \/ PollBytes(r) \/ Drop(r)
  PROVE  Inv'
<1> DEFINE h == IF answer[r] # 0 THEN answer[r] ELSE body[r]
           c == IF call'[r] = "dropped" THEN "dropped" ELSE "returned"
<1>0. TypeOK /\ CallShape /\ BoxPerPromise /\ HandlesOwned
  BY DEF Inv
<1>1. /\ 0 \notin Handles
      /\ call \in [Requests -> Calls]
      /\ answer \in [Requests -> Handles \union {0}]
      /\ body \in [Requests -> Handles \union {0}]
      /\ \A q \in Requests : (body[q] # 0) <=> call[q] \in {"response", "reading"}
      /\ \A q \in Requests : answer[q] # 0 => call[q] = "sending"
  BY <1>0, RequestAssumption DEF TypeOK, CallShape
<1>2. /\ call[r] \in {"sending", "response", "reading"}
      /\ call' = [call EXCEPT ![r] = c]
      /\ body' = [body EXCEPT ![r] = 0]
      /\ answer' = [answer EXCEPT ![r] = 0]
      /\ UNCHANGED <<timeout, fetching, reading, aborted, boxes>>
  <2>1. CASE Drop(r)
    BY <1>1, <2>1 DEF Drop, BodyMoved, promiseVars
  <2>2. CASE Chunks(r) \/ PollBytes(r)
    <3>1. /\ call' = [call EXCEPT ![r] = "returned"] /\ answer' = answer
          /\ call[r] \in {"response", "reading"}
          /\ body' = [body EXCEPT ![r] = 0]
          /\ UNCHANGED <<timeout, fetching, reading, aborted, boxes>>
      BY <2>2 DEF Chunks, PollBytes, BodyMoved, promiseVars
    <3>2. answer[r] = 0
      BY <1>1, <3>1
    <3> QED BY <1>1, <3>1, <3>2
  <2> QED BY <2>1, <2>2
<1>3. /\ failed' = failed \ {r}
      /\ bytes' = bytes \/ bytes' = [bytes EXCEPT ![r] = "empty"]
  <2>1. CASE Drop(r)
    BY <2>1 DEF Drop
  <2>2. CASE Chunks(r) \/ PollBytes(r)
    <3>1. /\ call[r] \in {"response", "reading"} /\ failed' = failed
          /\ bytes' = bytes \/ bytes' = [bytes EXCEPT ![r] = "empty"]
      BY <2>2 DEF Chunks, PollBytes
    <3>2. r \notin failed
      BY <1>0, <3>1 DEF CallShape
    <3> QED BY <3>1, <3>2
  <2> QED BY <2>1, <2>2
<1>4. Release(h) /\ h \in Handles \union {0}
  <2>1. CASE Drop(r)
    BY <1>1, <2>1 DEF Drop
  <2>2. CASE Chunks(r) \/ PollBytes(r)
    <3>1. Release(body[r]) /\ call[r] \in {"response", "reading"}
      BY <2>2 DEF Chunks, PollBytes
    <3>2. h = body[r]
      BY <1>1, <3>1
    <3> HIDE DEF h
    <3> QED BY <1>1, <3>1, <3>2
  <2> QED BY <2>1, <2>2
<1>5. c \in {"returned", "dropped"} /\ (call[r] = "sending" => c = "dropped")
  BY <1>1, <1>2 DEF Chunks, PollBytes, Drop
<1>6. HandlesOwned' /\ refs' \in [Handles -> Nat] /\ object' = object
  <2>1. \A k \in Handles : r \in Owners(k) <=> k = h
    BY <1>1, <1>2 DEF Owners
  <2>2. \A k \in Handles : Owners(k)' = Owners(k) \ {r}
    <3> HIDE DEF c
    <3> QED BY <1>1, <1>2, <1>5 DEF Owners
  <2> HIDE DEF h
  <2> QED BY <1>0, <1>4, <2>1, <2>2, HandleReleased
<1> HIDE DEF c, h
<1>7. TypeOK'
  <2>1. /\ call' \in [Requests -> Calls]
        /\ answer' \in [Requests -> Handles \union {0}]
        /\ body' \in [Requests -> Handles \union {0}]
    BY <1>1, <1>2, <1>5 DEF Calls
  <2>2. \A q \in Requests : (body'[q] # 0) <=> call'[q] \in {"response", "reading"}
    BY <1>1, <1>2, <1>5
  <2>3. failed' \subseteq Requests /\ bytes' \in [Requests -> {"empty", "ok", "error"}]
    BY <1>0, <1>3 DEF TypeOK
  <2> QED BY <1>0, <1>2, <1>6, <2>1, <2>2, <2>3 DEF TypeOK
<1>8. CallShape'
  BY <1>0, <1>1, <1>2, <1>3, <1>5 DEF CallShape
<1>9. BoxPerPromise'
  BY <1>0, <1>1, <1>2, <1>5 DEF BoxPerPromise
<1> QED BY <1>6, <1>7, <1>8, <1>9 DEF Inv

-----------------------------------------------------------------------------
LEMMA NextInv == Inv /\ [Next]_vars => Inv'
<1> SUFFICES ASSUME Inv, [Next]_vars PROVE Inv'
  OBVIOUS
<1>1. CASE Next
  BY <1>1, CallStep, OnResponseStep, PollSendStep, ReleaseStep DEF Next
<1>2. CASE UNCHANGED vars
  <2> USE <1>2 DEF vars, promiseVars, tableVars
  <2>1. TypeOK' /\ CallShape'
    BY DEF Inv, TypeOK, CallShape
  <2>2. BoxPerPromise' /\ HandlesOwned'
    BY DEF Inv, BoxPerPromise, HandlesOwned, Owners
  <2> QED BY <2>1, <2>2 DEF Inv
<1> QED BY <1>1, <1>2

(* Every reachable state satisfies the inductive invariant. *)
THEOREM Invariance == Spec => []Inv
<1> QED BY InitInv, NextInv, PTL DEF Spec

(* Whatever the number of requests and the order of responses, timeouts and
   drops, a handle has one owner, who finds its own response behind it, and is
   free otherwise (JsValue in ResponseBody, fetch.rs and value.rs). *)
THEOREM HandlesAreOwned == Spec => []HandlesOwned
<1>1. Inv => HandlesOwned
  BY DEF Inv
<1> QED BY <1>1, Invariance, PTL

(* A box is with JavaScript exactly while its promise is pending: no callback
   finds its box freed, and none that comes is left out (user_data of
   SendRequest and GetResponseBytes in fetch.cpp). *)
THEOREM BoxesArePaired == Spec => []BoxPerPromise
<1>1. Inv => BoxPerPromise
  BY DEF Inv
<1> QED BY <1>1, Invariance, PTL

(* The variables keep their types, and a caller holds a handle exactly while it
   has a response or reads its body. *)
THEOREM TypeCorrect == Spec => []TypeOK
<1>1. Inv => TypeOK
  BY DEF Inv
<1> QED BY <1>1, Invariance, PTL

-----------------------------------------------------------------------------
(* The promise of arrayBuffer() and the channel of bytes, beside the caller. *)
ReadShape(r) ==
  /\ reading[r] # "none" => call[r] \in {"reading", "returned", "dropped"}
  /\ reading[r] = "pending" => call[r] \in {"reading", "dropped"} /\ bytes[r] = "empty"
  /\ bytes[r] # "empty" => call[r] = "reading"

(* A caller that waits has an answer in its channel, or a promise that will
   bring one. *)
Waits(r) == call[r] \in {"sending", "reading"}
Arrived(r) == answer[r] # 0 \/ r \in failed \/ bytes[r] # "empty"
Pending(r) == IF call[r] = "sending" THEN fetching[r] = "pending" ELSE reading[r] = "pending"
CallerServed(r) == Waits(r) => Arrived(r) \/ Pending(r)

(* The signal of a request whose timeout was cut to zero never fires; that of
   another, whose caller waits, has fired or will: AbortSignal has a delay. *)
TimerServed(r) ==
  /\ r \in aborted => timeout[r] >= PerMilli
  /\ Waits(r) /\ timeout[r] >= PerMilli =>
       r \in aborted \/ (fetching[r] # "none" /\ Millis(timeout[r]) # 0)

Served(r) == ReadShape(r) /\ CallerServed(r) /\ TimerServed(r)

(* What separates a caller from its answer, and the steps that come next. *)
Distance(r) ==
  IF ~Waits(r) THEN 0 ELSE IF Arrived(r) THEN 1 ELSE IF r \in aborted THEN 2 ELSE 3
Settles(r) ==
  \/ \E h \in Handles, valid \in BOOLEAN : OnResponse(r, h, valid)
  \/ OnRequestError(r) \/ \E result \in {"ok", "error"} : OnBytes(r, result)
Helps(r) ==
  PollSend(r) \/ PollBytes(r) \/ (~Arrived(r) /\ (TimerFires(r) \/ Settles(r)))
Nearer(r) ==
  Waits(r) => Distance(r)' <= Distance(r) /\ (Helps(r) => Distance(r)' < Distance(r))

(* Some times a number are at least it. *)
LEMMA SomeTimes ==
  ASSUME NEW k \in Nat \ {0}, NEW n \in Nat PROVE n * k >= n
  OBVIOUS

LEMMA Divided ==
  ASSUME NEW a \in Nat, NEW n \in Nat \ {0}
  PROVE  /\ a \div n \in Nat /\ a % n \in 0..(n - 1)
         /\ a = n * (a \div n) + (a % n)
  OBVIOUS

(* as_millis cuts to zero what is shorter than a millisecond, and that only. *)
LEMMA ShortIsNone ==
  ASSUME NEW d \in Durations PROVE Millis(d) # 0 <=> d >= PerMilli
<1> DEFINE q == d \div PerMilli
           m == d % PerMilli
<1>1. d \in Nat /\ PerMilli \in Nat \ {0} /\ MaxU64 \in Nat /\ MaxU64 # 0
  BY RequestAssumption
<1>2. q \in Nat /\ m \in 0..(PerMilli - 1) /\ d = PerMilli * q + m
  BY <1>1, Divided
<1>3. Millis(d) # 0 <=> q # 0
  BY <1>1 DEF Millis
<1> HIDE DEF q, m
<1>4. q # 0 => PerMilli * q >= PerMilli
  BY <1>1, <1>2, SomeTimes
<1>5. q = 0 => PerMilli * q = 0
  BY <1>1
<1>6. PerMilli * q \in Nat
  BY <1>1, <1>2
<1> QED BY <1>1, <1>2, <1>3, <1>4, <1>5, <1>6

(* The steps of one request, and what they leave of another. *)
OneRequest(q) ==
  \/ Send(q) \/ TimerFires(q) \/ Settles(q) \/ PollSend(q)
  \/ Bytes(q) \/ Chunks(q) \/ PollBytes(q) \/ Drop(q)
Same(r) ==
  /\ UNCHANGED <<call[r], fetching[r], reading[r], answer[r], bytes[r]>>
  /\ r \in failed' <=> r \in failed
  /\ r \in aborted' <=> r \in aborted

Functions ==
  /\ call \in [Requests -> Calls]
  /\ fetching \in [Requests -> Promises] /\ reading \in [Requests -> Promises]
  /\ answer \in [Requests -> Handles \union {0}]
  /\ bytes \in [Requests -> {"empty", "ok", "error"}]

LEMMA OthersStay ==
  ASSUME Functions, NEW r \in Requests, NEW q \in Requests, q # r, OneRequest(q)
  PROVE  Same(r)
<1> USE DEF Functions, Same, promiseVars
<1>1. CASE Send(q) \/ TimerFires(q) \/ OnRequestError(q) \/ PollSend(q)
  BY <1>1 DEF Send, TimerFires, OnRequestError, PollSend
<1>2. CASE Bytes(q) \/ Chunks(q) \/ PollBytes(q) \/ Drop(q)
  BY <1>2 DEF Bytes, Chunks, PollBytes, Drop
<1>3. ASSUME NEW h \in Handles, NEW valid \in BOOLEAN, OnResponse(q, h, valid)
      PROVE  Same(r)
  BY <1>3 DEF OnResponse
<1>4. ASSUME NEW result \in {"ok", "error"}, OnBytes(q, result) PROVE Same(r)
  BY <1>4 DEF OnBytes
<1> QED BY <1>1, <1>2, <1>3, <1>4 DEF OneRequest, Settles

LEMMA StepOfOne ==
  ASSUME Inv, [Next]_vars, NEW r \in Requests
  PROVE  /\ Same(r) \/ OneRequest(r)
         /\ timeout' = timeout
<1>1. Functions
  BY DEF Inv, TypeOK, Functions
<1>2. CASE UNCHANGED vars
  BY <1>2 DEF vars, promiseVars, Same
<1>3. ASSUME NEW q \in Requests, OneRequest(q) PROVE Same(r) \/ OneRequest(r)
  BY <1>1, <1>3, OthersStay
<1>4. Next => \E q \in Requests : OneRequest(q)
  BY DEF Next, OneRequest, Settles
<1>5. timeout' = timeout
  BY DEF Next, vars, Send, TimerFires, OnRequestError, PollSend, OnResponse, Bytes, Chunks,
         PollBytes, Drop, OnBytes
<1> QED BY <1>2, <1>3, <1>4, <1>5

(* What happens to a caller and its promises. *)
CallMoves(r) ==
  \/ Same(r)
  \/ /\ call[r] = "new" /\ UNCHANGED <<reading[r], answer[r], bytes[r]>>
     /\ r \in failed' <=> r \in failed
     /\ r \in aborted' <=> r \in aborted
     /\ \/ call'[r] = "thrown" /\ UNCHANGED fetching[r]
        \/ call'[r] = "sending" /\ fetching'[r] = "pending"
  \/ /\ r \in aborted' /\ r \notin aborted /\ Millis(timeout[r]) # 0
     /\ UNCHANGED <<call[r], fetching[r], reading[r], answer[r], bytes[r]>>
     /\ r \in failed' <=> r \in failed
  \/ /\ fetching[r] = "pending" /\ fetching'[r] = "settled"
     /\ UNCHANGED <<call[r], reading[r], bytes[r]>>
     /\ r \in aborted' <=> r \in aborted
     /\ call[r] # "dropped" => answer'[r] # 0 \/ r \in failed'
  \/ /\ reading[r] = "pending" /\ reading'[r] = "settled"
     /\ UNCHANGED <<call[r], fetching[r], answer[r]>>
     /\ r \in failed' <=> r \in failed
     /\ r \in aborted' <=> r \in aborted
     /\ IF call[r] = "dropped" THEN UNCHANGED bytes[r] ELSE bytes'[r] # "empty"
  \/ /\ call[r] = "response" /\ call'[r] = "reading" /\ reading'[r] = "pending"
     /\ UNCHANGED <<fetching[r], answer[r], bytes[r]>>
     /\ r \in failed' <=> r \in failed
     /\ r \in aborted' <=> r \in aborted
  \/ /\ call[r] \in {"sending", "response", "reading"}
     /\ call'[r] \in {"returned", "dropped"} \/ (call[r] = "sending" /\ call'[r] = "response")
     /\ UNCHANGED <<fetching[r], reading[r]>>
     /\ bytes'[r] = "empty" \/ (call[r] # "reading" /\ bytes'[r] = bytes[r])
     /\ call[r] = "reading" /\ call'[r] = "returned" => bytes[r] # "empty"
     /\ r \in aborted' <=> r \in aborted

LEMMA CallMove ==
  ASSUME Inv, [Next]_vars, NEW r \in Requests
  PROVE  CallMoves(r)
<1>0. Functions /\ 0 \notin Handles
  BY RequestAssumption DEF Inv, TypeOK, Functions
<1> USE DEF Functions, promiseVars, CallMoves
<1>1. CASE Same(r)
  BY <1>1
<1>2. CASE Send(r)
  BY <1>0, <1>2 DEF Send
<1>3. CASE TimerFires(r)
  BY <1>0, <1>3 DEF TimerFires
<1>4. ASSUME NEW h \in Handles, NEW valid \in BOOLEAN, OnResponse(r, h, valid)
      PROVE  CallMoves(r)
  <2>1. /\ fetching[r] = "pending" /\ fetching'[r] = "settled"
        /\ UNCHANGED <<call, reading, bytes, aborted>>
    BY <1>0, <1>4 DEF OnResponse
  <2>2. call[r] # "dropped" => answer'[r] # 0 \/ r \in failed'
    BY <1>0, <1>4 DEF OnResponse, Receives
  <2> QED BY <2>1, <2>2
<1>5. CASE OnRequestError(r)
  BY <1>0, <1>5 DEF OnRequestError, Receives
<1>6. ASSUME NEW result \in {"ok", "error"}, OnBytes(r, result) PROVE CallMoves(r)
  <2>1. /\ reading[r] = "pending" /\ reading'[r] = "settled"
        /\ UNCHANGED <<call, fetching, answer, failed, aborted>>
    BY <1>0, <1>6 DEF OnBytes
  <2>2. IF call[r] = "dropped" THEN UNCHANGED bytes[r] ELSE bytes'[r] # "empty"
    BY <1>0, <1>6 DEF OnBytes, Receives
  <2> QED BY <2>1, <2>2
<1>7. CASE Bytes(r)
  BY <1>0, <1>7 DEF Bytes
<1>8. CASE PollSend(r) \/ Chunks(r)
  <2>1. /\ call[r] \in {"sending", "response"}
        /\ call'[r] = "returned" \/ (call[r] = "sending" /\ call'[r] = "response")
        /\ UNCHANGED <<fetching, reading, bytes, aborted>>
    BY <1>0, <1>8 DEF PollSend, Chunks
  <2> QED BY <2>1
<1>9. CASE PollBytes(r) \/ Drop(r)
  BY <1>0, <1>9 DEF PollBytes, Drop
<1> QED
  BY <1>1, <1>2, <1>3, <1>4, <1>5, <1>6, <1>7, <1>8, <1>9, StepOfOne DEF OneRequest, Settles

LEMMA ServedStep ==
  ASSUME Inv, [Next]_vars, NEW r \in Requests, Served(r)
  PROVE  Served(r)'
<1>0. /\ CallMoves(r) /\ timeout' = timeout
      /\ fetching[r] = "none" <=> call[r] \in {"new", "thrown"}
      /\ fetching[r] \in Promises /\ call[r] \in Calls /\ reading[r] \in Promises
      /\ fetching[r] = "pending" => call[r] \in {"sending", "dropped"}
      /\ timeout[r] \in Durations
  BY CallMove, StepOfOne DEF Inv, TypeOK, CallShape
<1>1. timeout[r] >= PerMilli <=> Millis(timeout[r]) # 0
  BY <1>0, ShortIsNone
<1>2. ReadShape(r)'
  BY <1>0 DEF Served, CallMoves, Same, ReadShape, Promises, Calls
<1>3. CallerServed(r)'
  BY <1>0 DEF Served, CallMoves, Same, ReadShape, CallerServed, Waits, Arrived, Pending,
              Promises, Calls
<1>4. TimerServed(r)'
  BY <1>0, <1>1 DEF Served, CallMoves, Same, TimerServed, Waits, Promises, Calls
<1> QED BY <1>2, <1>3, <1>4 DEF Served

LEMMA ComesNearer ==
  ASSUME Inv, [Next]_vars, NEW r \in Requests, Served(r)
  PROVE  Nearer(r)
<1> SUFFICES ASSUME Waits(r)
             PROVE  /\ Distance(r)' <= Distance(r)
                    /\ Helps(r) => Distance(r)' < Distance(r)
  BY DEF Nearer
<1>0. /\ CallMoves(r) /\ Functions /\ ReadShape(r)
      /\ fetching[r] = "pending" =>
           call[r] \in {"sending", "dropped"} /\ answer[r] = 0 /\ r \notin failed
  BY CallMove DEF Inv, TypeOK, CallShape, Functions, Served
<1>1. Distance(r)' <= Distance(r)
  <2>1. Waits(r)' => (Arrived(r) => Arrived(r)') /\ (r \in aborted => r \in aborted')
    BY <1>0 DEF CallMoves, Same, Waits, Arrived, ReadShape
  <2> QED BY <2>1 DEF Distance
<1>2. CASE PollSend(r) \/ PollBytes(r)
  <2>1. ~Waits(r)'
    BY <1>0, <1>2 DEF PollSend, PollBytes, Waits, Functions
  <2> QED BY <2>1 DEF Distance
<1>3. CASE ~Arrived(r) /\ TimerFires(r)
  <2>1. r \notin aborted /\ r \in aborted' /\ Waits(r)' /\ ~Arrived(r)'
    BY <1>3 DEF TimerFires, Waits, Arrived
  <2> QED BY <1>3, <2>1 DEF Distance
<1>4. CASE ~Arrived(r) /\ Settles(r)
  <2>1. Arrived(r)'
    <3>1. ASSUME NEW h \in Handles, NEW valid \in BOOLEAN, OnResponse(r, h, valid)
          PROVE  Arrived(r)'
      BY <1>0, <3>1, RequestAssumption DEF OnResponse, Receives, Waits, Arrived, Functions
    <3>2. CASE OnRequestError(r)
      BY <3>2 DEF OnRequestError, Receives, Waits, Arrived
    <3>3. ASSUME NEW result \in {"ok", "error"}, OnBytes(r, result) PROVE Arrived(r)'
      BY <1>0, <3>3 DEF OnBytes, Receives, Waits, Arrived, Functions
    <3> QED BY <1>4, <3>1, <3>2, <3>3 DEF Settles
  <2> QED BY <1>4, <2>1 DEF Distance
<1> QED BY <1>1, <1>2, <1>3, <1>4 DEF Helps

(* A caller with a timeout of a millisecond or more never waits for a signal
   that cannot come: what it waits for has arrived, or its promise is pending
   and its AbortSignal has fired or will.  A shorter timeout never aborts.  No
   step takes a caller further away from its answer. *)
THEOREM TimeoutsReachTheCaller ==
  Spec => /\ [](\A r \in Requests : CallerServed(r) /\ TimerServed(r))
          /\ [][\A r \in Requests : Nearer(r)]_vars
<1> DEFINE AllServed == \A r \in Requests : Served(r)
           Known == \A r \in Requests : CallerServed(r) /\ TimerServed(r)
           Moves == \A r \in Requests : Nearer(r)
<1>1. Init => AllServed
  <2> SUFFICES ASSUME Init, NEW r \in Requests PROVE Served(r)
    OBVIOUS
  <2>1. /\ call[r] = "new" /\ reading[r] = "none" /\ bytes[r] = "empty"
        /\ r \notin aborted
    BY DEF Init
  <2> QED BY <2>1 DEF Served, ReadShape, CallerServed, TimerServed, Waits
<1>2. Inv /\ AllServed /\ [Next]_vars => AllServed'
  BY ServedStep
<1>3. Inv /\ AllServed /\ [Next]_vars => [Moves]_vars
  BY ComesNearer
<1>4. AllServed => Known
  BY DEF Served
<1> HIDE DEF AllServed, Known, Moves
<1>5. Spec => []Known /\ [][Moves]_vars
  BY <1>1, <1>2, <1>3, <1>4, Invariance, PTL DEF Spec
<1> QED BY <1>5 DEF Known, Moves
=============================================================================
