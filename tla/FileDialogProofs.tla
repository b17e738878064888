-------------------------- MODULE FileDialogProofs --------------------------
(***************************************************************************)
(* Proofs about the two dialogs of FileDialog, for any number of requests  *)
(* and of calls: what load_file leaves allocated, what the answer of       *)
(* save_file tells about the file, and that neither is ever stuck: every   *)
(* caller who waits has a step ahead that brings the answer nearer.        *)
(***************************************************************************)
EXTENDS FileDialog, TLAPS

-----------------------------------------------------------------------------
(* What is allocated for a request, by the place of the async function and of
   the future. *)
Held(r) ==
  /\ load[r] \in {"idle", "cancelled"} => memory[r] = {}
  /\ load[r] = "choosing" => memory[r] = {"File"}
  /\ load[r] \in {"reading", "unread"} => memory[r] = {"File", "name"}
  /\ load[r] = "read" /\ future[r] # "closed" => memory[r] = {"name", "contents"}
  /\ load[r] = "read" /\ future[r] = "closed" =>
       memory[r] = IF picked[r] = "file" THEN {} ELSE {"contents"}

(* What the future and the channel know follows the async function. *)
Follows(r) ==
  /\ future[r] = "new" => load[r] = "idle"
  /\ load[r] = "idle" => future[r] \in {"new", "none"}
  /\ load[r] = "idle" => dialog[r] = "unborn" /\ picked[r] = "nothing"
  /\ channel[r] = "contents" <=> load[r] = "read"
  /\ channel[r] = "nothing" <=> load[r] \in {"idle", "choosing", "reading"}
  /\ load[r] \in {"reading", "read", "unread"} => picked[r] \in L!Files
  /\ future[r] \in {"some", "closed"} => load[r] = "read"
  /\ future[r] = "none" => load[r] \notin {"choosing", "reading", "read"}

LoadInv ==
  L!TypeOK /\ \A r \in Requests : Held(r) /\ Follows(r)

LEMMA LoadInit == L!Init => LoadInv
<1> USE DEF L!Init, LoadInv
<1>1. L!Init => L!TypeOK
  BY DEF L!TypeOK, L!Picks, L!Files
<1>2. L!Init => \A r \in Requests : Held(r) /\ Follows(r)
  BY DEF Held, Follows
<1> QED BY <1>1, <1>2

LEMMA LoadType == LoadInv /\ [L!Next]_L!vars => L!TypeOK'
<1> SUFFICES ASSUME LoadInv, [L!Next]_L!vars PROVE L!TypeOK'
  OBVIOUS
<1> USE DEF L!TypeOK, L!At, L!Allocate, L!Free, L!Picks, L!Files
<1>0. L!TypeOK
  BY DEF LoadInv
<1>1. CASE UNCHANGED L!vars
  BY <1>0, <1>1 DEF L!vars
<1>2. ASSUME NEW r \in Requests, L!Start(r) PROVE L!TypeOK'
  BY <1>0, <1>2 DEF L!Start
<1>3. ASSUME NEW r \in Requests, L!Dismiss(r) PROVE L!TypeOK'
  BY <1>0, <1>3 DEF L!Dismiss
<1>4. ASSUME NEW r \in Requests, L!CloseEvent(r) PROVE L!TypeOK'
  <2>1. dialog' \in [Requests -> {"unborn", "open", "closing", "gone"}]
        /\ UNCHANGED <<picked, future>>
    BY <1>0, <1>4 DEF L!CloseEvent
  <2>2. UNCHANGED <<load, memory, channel>> \/ L!NoChoice(r)
    BY <1>4 DEF L!CloseEvent, L!ResolveNull
  <2>3. CASE UNCHANGED <<load, memory, channel>>
    BY <1>0, <2>1, <2>3
  <2>4. CASE L!NoChoice(r)
    BY <1>0, <2>1, <2>4 DEF L!NoChoice, L!Complete
  <2> QED BY <2>2, <2>3, <2>4
<1>5. ASSUME NEW r \in Requests, L!ReadFile(r) PROVE L!TypeOK'
  BY <1>0, <1>5 DEF L!ReadFile
<1>6. ASSUME NEW r \in Requests, L!ReadFails(r) PROVE L!TypeOK'
  BY <1>0, <1>6 DEF L!ReadFails, L!Complete
<1>7. ASSUME NEW r \in Requests, L!Refuse(r) \/ L!Receive(r) \/ L!DropFuture(r)
      PROVE  L!TypeOK'
  BY <1>0, <1>7 DEF L!Refuse, L!Receive, L!DropFuture
<1>8. ASSUME NEW r \in Requests, L!DropHandle(r) PROVE L!TypeOK'
  BY <1>0, <1>8 DEF L!DropHandle
<1>9. ASSUME NEW r \in Requests, NEW what \in L!Picks, L!Change(r, what)
      PROVE  L!TypeOK'
  <2>1. UNCHANGED <<load, memory, channel>> \/ L!Choice(r) \/ L!NoChoice(r)
    BY <1>9 DEF L!Change
  <2>2. /\ dialog' \in [Requests -> {"unborn", "open", "closing", "gone"}]
        /\ picked' \in [Requests -> L!Picks \union {"nothing"}]
        /\ future' = future
    BY <1>0, <1>9 DEF L!Change
  <2>3. CASE UNCHANGED <<load, memory, channel>>
    BY <1>0, <2>2, <2>3
  <2>4. CASE L!Choice(r)
    BY <1>0, <2>2, <2>4 DEF L!Choice
  <2>5. CASE L!NoChoice(r)
    BY <1>0, <2>2, <2>5 DEF L!NoChoice, L!Complete
  <2> QED BY <2>1, <2>3, <2>4, <2>5
<1> QED
  BY <1>1, <1>2, <1>3, <1>4, <1>5, <1>6, <1>7, <1>8, <1>9 DEF L!Next, L!Reading

(* The domains of the functions, which is all that a step needs of their type. *)
Functions ==
  /\ dialog = [r \in Requests |-> dialog[r]] /\ picked = [r \in Requests |-> picked[r]]
  /\ load = [r \in Requests |-> load[r]] /\ channel = [r \in Requests |-> channel[r]]
  /\ future = [r \in Requests |-> future[r]] /\ memory = [r \in Requests |-> memory[r]]

LEMMA TypedFunctions == L!TypeOK => Functions
  BY DEF L!TypeOK, Functions

(* An action is about one request. *)
OneLoad(r) ==
  \/ L!Refuse(r) \/ L!Start(r) \/ L!Dismiss(r) \/ L!CloseEvent(r) \/ L!Reading(r)
  \/ L!Receive(r) \/ L!DropFuture(r) \/ L!DropHandle(r)
  \/ \E what \in L!Picks : L!Change(r, what)
Untouched(q) ==
  UNCHANGED <<dialog[q], picked[q], load[q], channel[q], future[q], memory[q]>>

LEMMA OthersStay ==
  ASSUME Functions, NEW q \in Requests, NEW r \in Requests, r # q, OneLoad(r)
  PROVE  Untouched(q)
<1> USE DEF L!At, L!Allocate, L!Free, Untouched
<1>1. CASE L!Start(r) \/ L!Dismiss(r)
  BY <1>1 DEF Functions, L!Start, L!Dismiss
<1>2. CASE L!CloseEvent(r)
  <2>1. CASE load[r] = "choosing"
    BY <1>2, <2>1
       DEF Functions, L!CloseEvent, L!ResolveNull, L!NoChoice, L!Complete
  <2>2. CASE load[r] # "choosing"
    BY <1>2, <2>2 DEF Functions, L!CloseEvent, L!ResolveNull
  <2> QED BY <2>1, <2>2
<1>3. CASE L!Reading(r)
  BY <1>3 DEF Functions, L!Reading, L!ReadFile, L!ReadFails, L!Complete
<1>4. CASE L!Refuse(r) \/ L!Receive(r) \/ L!DropFuture(r) \/ L!DropHandle(r)
  BY <1>4 DEF Functions, L!Refuse, L!Receive, L!DropFuture, L!DropHandle
<1>5. ASSUME NEW what \in L!Picks, L!Change(r, what)
      PROVE  UNCHANGED <<dialog[q], picked[q], load[q], channel[q], future[q], memory[q]>>
  <2>1. UNCHANGED <<dialog[q], picked[q], future[q]>>
    BY <1>5 DEF Functions, L!Change
  <2>2. UNCHANGED <<load, memory, channel>> \/ L!Choice(r) \/ L!NoChoice(r)
    BY <1>5 DEF L!Change
  <2>3. UNCHANGED <<load[q], memory[q], channel[q]>>
    BY <2>2 DEF Functions, L!Choice, L!NoChoice, L!Complete
  <2> QED BY <2>1, <2>3
<1> QED BY <1>1, <1>2, <1>3, <1>4, <1>5 DEF OneLoad

(* What is allocated follows each step. *)
LEMMA LoadStep ==
  LoadInv /\ [L!Next]_L!vars => (\A r \in Requests : Held(r) /\ Follows(r))'
<1> SUFFICES ASSUME LoadInv, [L!Next]_L!vars, NEW q \in Requests
             PROVE  Held(q)' /\ Follows(q)'
  OBVIOUS
<1> USE DEF L!At, L!Allocate, L!Free
<1>0. Functions /\ Held(q) /\ Follows(q)
  BY TypedFunctions DEF LoadInv
<1>1. CASE UNCHANGED <<dialog[q], picked[q], load[q], channel[q], future[q], memory[q]>>
  BY <1>0, <1>1 DEF Held, Follows
<1>2. CASE UNCHANGED L!vars
  BY <1>1, <1>2 DEF L!vars
<1>3. ASSUME NEW r \in Requests, r # q, OneLoad(r)
      PROVE  UNCHANGED <<dialog[q], picked[q], load[q], channel[q], future[q], memory[q]>>
  BY <1>0, <1>3, OthersStay DEF Untouched
<1>4. CASE L!Start(q)
  BY <1>0, <1>4 DEF Functions, L!Start, Held, Follows
<1>5. CASE L!Dismiss(q)
  BY <1>0, <1>5 DEF Functions, L!Dismiss, Held, Follows
<1>6. CASE L!CloseEvent(q)
  <2>1. UNCHANGED <<picked, future>> /\ dialog[q] = "closing"
    BY <1>6 DEF L!CloseEvent
  <2>2. CASE load[q] = "choosing"
    <3>1. load'[q] = "cancelled" /\ channel'[q] = "no contents" /\ memory'[q] = memory[q] \ {"File"}
      BY <1>0, <1>6, <2>2
         DEF Functions, L!CloseEvent, L!ResolveNull, L!NoChoice, L!Complete
    <3> QED BY <1>0, <2>1, <2>2, <3>1 DEF Held, Follows
  <2>3. CASE load[q] # "choosing"
    <3>1. UNCHANGED <<load, memory, channel>>
      BY <1>6, <2>3 DEF L!CloseEvent, L!ResolveNull
    <3> QED BY <1>0, <2>1, <3>1 DEF Held, Follows
  <2> QED BY <2>2, <2>3
<1>7. CASE L!ReadFile(q)
  BY <1>0, <1>7 DEF Functions, L!ReadFile, Held, Follows
<1>8. CASE L!ReadFails(q)
  BY <1>0, <1>8 DEF Functions, L!ReadFails, L!Complete, Held, Follows
<1>9. CASE L!Receive(q) \/ L!DropFuture(q)
  <2>1. CASE L!Receive(q)
    <3>1. /\ UNCHANGED <<dialog, picked, load, channel, memory>>
          /\ future[q] = "waiting" /\ channel[q] # "nothing"
          /\ future'[q] = IF channel[q] = "contents" THEN "some" ELSE "none"
      BY <1>0, <2>1 DEF Functions, L!Receive
    <3>2. Held(q)'
      BY <1>0, <3>1 DEF Held
    <3>3. Follows(q)'
      BY <1>0, <3>1 DEF Follows
    <3> QED BY <1>0, <3>1, <3>2, <3>3
  <2>2. CASE L!DropFuture(q)
    BY <1>0, <2>2 DEF Functions, L!DropFuture, Held, Follows
  <2> QED BY <1>9, <2>1, <2>2
<1>10. CASE L!DropHandle(q)
  BY <1>0, <1>10 DEF Functions, L!DropHandle, L!Files, Held, Follows
<1>11. ASSUME NEW what \in L!Picks, L!Change(q, what)
       PROVE  Held(q)' /\ Follows(q)'
  <2>1. CASE load[q] # "choosing"
    <3>1. /\ UNCHANGED <<load, channel, future, memory>>
          /\ dialog[q] # "unborn" /\ picked[q] = "nothing" /\ picked'[q] = what
      BY <1>0, <1>11, <2>1 DEF Functions, L!Change
    <3>2. load[q] \notin {"idle", "reading", "read", "unread"}
      BY <1>0, <2>1, <3>1 DEF Follows, Held, L!Files
    <3> QED BY <1>0, <3>1, <3>2 DEF Held, Follows
  <2>2. CASE load[q] = "choosing" /\ what \in L!Files
    BY <1>0, <1>11, <2>2 DEF Functions, L!Change, L!Choice, Held, Follows
  <2>3. CASE load[q] = "choosing" /\ what \notin L!Files
    <3>1. /\ load'[q] = "cancelled" /\ channel'[q] = "no contents"
          /\ memory'[q] = memory[q] \ {"File"} /\ future' = future
      BY <1>0, <1>11, <2>3 DEF Functions, L!Change, L!NoChoice, L!Complete
    <3> QED BY <1>0, <2>3, <3>1 DEF Held, Follows
  <2> QED BY <2>1, <2>2, <2>3
<1>12. CASE L!Refuse(q)
  BY <1>0, <1>12 DEF Functions, L!Refuse, Held, Follows
<1> QED
  BY <1>1, <1>2, <1>3, <1>4, <1>5, <1>6, <1>7, <1>8, <1>9, <1>10, <1>11, <1>12
     DEF L!Next, L!Reading, OneLoad

(* A step of the page is a step of each part, or leaves its variables alone. *)
LEMMA Composed == [Next]_vars => [L!Next]_L!vars /\ [S!Next]_S!vars
  BY DEF Next, Loading, Saving, vars, loadVars, saveVars, L!vars, S!vars

(* Every reachable state satisfies the inductive invariant of load_file. *)
THEOREM LoadInvariance == Spec => []LoadInv
<1>1. Init => LoadInv
  BY LoadInit DEF Init
<1>2. LoadInv /\ [Next]_vars => LoadInv'
  BY Composed, LoadType, LoadStep DEF LoadInv
<1> QED BY <1>1, <1>2, PTL DEF Spec

(* The variables of LoadDialog keep their types. *)
THEOREM LoadTypeCorrect == Spec => []L!TypeOK
  BY LoadInvariance, PTL DEF LoadInv

(* A request that is over leaves nothing allocated but in the three cases that
   Leaked lists. *)
THEOREM OnlyKnownLeaks == Spec => []LeaksAreKnown
<1>1. LoadInv => LeaksAreKnown
  <2> SUFFICES ASSUME LoadInv, NEW r \in Requests, L!Over(r)
               PROVE  memory[r] = L!Leaked(r)
    BY DEF LeaksAreKnown, L!LeaksAreKnown
  <2>1. Held(r) /\ Follows(r) /\ picked[r] \in L!Picks \union {"nothing"}
    BY DEF LoadInv, L!TypeOK
  <2>2. CASE load[r] \in {"idle", "unread", "cancelled"}
    BY <2>1, <2>2 DEF Held, L!Leaked
  <2>3. CASE load[r] = "read" /\ future[r] = "dropped"
    BY <2>1, <2>3 DEF Held, L!Leaked
  <2>4. CASE load[r] = "read" /\ future[r] = "closed"
    BY <2>1, <2>4 DEF Held, Follows, L!Files, L!Leaked
  <2>5. load[r] = "read" => future[r] # "none"
    BY <2>1 DEF Follows
  <2>6. load[r] \in {"idle", "choosing", "reading", "read", "unread", "cancelled"}
    BY DEF LoadInv, L!TypeOK
  <2> QED BY <2>2, <2>3, <2>4, <2>5, <2>6 DEF L!Over
<1> QED BY <1>1, LoadInvariance, PTL

-----------------------------------------------------------------------------
(* A call that has not begun has touched nothing, and all but the latest have
   returned.  A call that was answered false while its listener is at work was
   dismissed. *)
CallShape(n) ==
  /\ n > last => /\ saveDialog[n] = "unborn" /\ handler[n] = "unborn"
                 /\ answer[n] = "none" /\ n \notin saved
  /\ n < last => answer[n] # "none"
  /\ n \in saved => answer[n] # "none" /\ handler[n] = "done"
  /\ saveDialog[n] = "closing" => n \in dismissed \/ handler[n] = "done"
  /\ answer[n] = "false" /\ handler[n] \notin {"unborn", "done"} => n \in dismissed
  /\ answer[n] = "true" /\ picker => n \in saved
  /\ answer[n] = "false" /\ n \in saved => n \in dismissed

(* The file holds what was written last. *)
DiskShape ==
  /\ disk \in saved \/ (saved = {} /\ disk = S!Nothing)
  /\ picker => \A n \in S!Calls :
       answer[n] = "true" => disk >= n \/ answer[disk] = "false"

SaveInv == S!TypeOK /\ (\A n \in S!Calls : CallShape(n)) /\ DiskShape

LEMMA SaveInit == MaxCalls \in Nat /\ S!Init => SaveInv
<1> SUFFICES ASSUME MaxCalls \in Nat, S!Init PROVE SaveInv
  OBVIOUS
<1> USE DEF S!Init
<1>1. S!TypeOK
  BY DEF S!TypeOK, S!Nothing
<1>2. ASSUME NEW n \in S!Calls PROVE CallShape(n)
  BY DEF CallShape, S!Calls
<1>3. DiskShape
  BY DEF DiskShape
<1> QED BY <1>1, <1>2, <1>3 DEF SaveInv

(* The first resolution decides. *)
LEMMA FirstDecides ==
  ASSUME S!TypeOK, NEW n \in S!Calls, NEW value \in {"true", "false"}, S!Resolve(n, value)
  PROVE  /\ answer' \in [S!Calls -> {"none", "true", "false"}]
         /\ answer'[n] = IF answer[n] = "none" THEN value ELSE answer[n]
         /\ \A m \in S!Calls : m # n => answer'[m] = answer[m]
  BY DEF S!TypeOK, S!Resolve

LEMMA SaveType == MaxCalls \in Nat /\ SaveInv /\ [S!Next]_S!vars => S!TypeOK'
<1> SUFFICES ASSUME MaxCalls \in Nat, SaveInv, [S!Next]_S!vars PROVE S!TypeOK'
  OBVIOUS
<1> USE DEF S!GoTo
<1>0. S!TypeOK
  BY DEF SaveInv
<1>1. CASE UNCHANGED S!vars
  BY <1>0, <1>1 DEF S!TypeOK, S!vars
<1>2. ASSUME S!Call
      PROVE  last' \in S!Calls /\ last' \in 0..MaxCalls
             /\ UNCHANGED <<picker, disk, saved, dismissed>>
  BY <1>0, <1>2 DEF S!TypeOK, S!Call, S!Calls
<1>3. CASE S!Refuse
  <2>1. S!Call /\ S!Resolve(last', "false") /\ UNCHANGED <<saveDialog, handler>>
    BY <1>3 DEF S!Refuse
  <2> QED BY <1>0, <1>2, <2>1, FirstDecides DEF S!TypeOK
<1>4. CASE S!Download
  <2>1. S!Call /\ UNCHANGED <<saveDialog, handler>>
    BY <1>4 DEF S!Download
  <2>2. PICK value \in {"true", "false"} : S!Resolve(last', value)
    BY <1>4 DEF S!Download
  <2> QED BY <1>0, <1>2, <2>1, <2>2, FirstDecides DEF S!TypeOK
<1>5. CASE S!ShowDialog
  BY <1>0, <1>2, <1>5 DEF S!TypeOK, S!ShowDialog
<1>6. ASSUME NEW n \in S!Calls, S!Click(n) \/ S!Dismiss(n) PROVE S!TypeOK'
  BY <1>0, <1>6 DEF S!TypeOK, S!Click, S!Dismiss
<1>7. ASSUME NEW n \in S!Calls, S!CloseEvent(n) PROVE S!TypeOK'
  BY <1>0, <1>7, FirstDecides DEF S!TypeOK, S!CloseEvent
<1>8. ASSUME NEW n \in S!Calls, S!Pick(n) \/ S!Create(n) \/ S!Write(n) PROVE S!TypeOK'
  BY <1>0, <1>8 DEF S!TypeOK, S!Pick, S!Create, S!Write, S!Advance
<1>9. ASSUME NEW n \in S!Calls, S!CloseFile(n) \/ S!Abort(n) PROVE S!TypeOK'
  BY <1>0, <1>9, FirstDecides DEF S!TypeOK, S!CloseFile, S!Abort, S!CloseDialog
<1>10. ASSUME NEW n \in S!Calls, S!Fail(n) PROVE S!TypeOK'
  BY <1>0, <1>10 DEF S!TypeOK, S!Fail, S!CloseDialog
<1> QED
  BY <1>1, <1>3, <1>4, <1>5, <1>6, <1>7, <1>8, <1>9, <1>10 DEF S!Next, S!Handler

LEMMA CallStep ==
  ASSUME MaxCalls \in Nat, SaveInv, [S!Next]_S!vars, NEW m \in S!Calls
  PROVE  CallShape(m)'
<1> USE DEF S!GoTo
<1>0. S!TypeOK /\ CallShape(m) /\ last \in Nat /\ m \in Nat /\ m > 0
  BY DEF SaveInv, S!TypeOK, S!Calls
<1>1. CASE UNCHANGED S!vars
  BY <1>0, <1>1 DEF CallShape, S!vars
<1>2. CASE S!Refuse \/ S!Download \/ S!ShowDialog
  <2>1. /\ S!Call /\ last' = last + 1 /\ last' \in S!Calls
        /\ UNCHANGED <<picker, disk, saved, dismissed>>
        /\ last > 0 => answer[last] # "none"
    BY <1>0, <1>2 DEF S!Refuse, S!Download, S!ShowDialog, S!Call, S!Calls, S!TypeOK
  <2>2. CASE m # last'
    <3>1. answer'[m] = answer[m]
      BY <1>0, <1>2, <2>2, <2>1, FirstDecides DEF S!Refuse, S!Download, S!ShowDialog
    <3>2. handler'[m] = handler[m] /\ saveDialog'[m] = saveDialog[m]
      BY <1>0, <1>2, <2>2 DEF S!TypeOK, S!Refuse, S!Download, S!ShowDialog
    <3>3. m < last' => m < last \/ (m = last /\ last > 0)
      BY <1>0, <2>1, <2>2
    <3>4. m > last' => m > last
      BY <1>0, <2>1
    <3> QED BY <1>0, <2>1, <3>1, <3>2, <3>3, <3>4 DEF CallShape
  <2>3. CASE m = last'
    <3>1. /\ saveDialog[m] = "unborn" /\ handler[m] = "unborn" /\ answer[m] = "none"
          /\ m \notin saved /\ ~(m > last') /\ ~(m < last')
      BY <1>0, <2>1, <2>3 DEF CallShape
    <3>2. CASE S!Refuse
      BY <1>0, <2>1, <2>3, <3>1, <3>2, FirstDecides DEF S!Refuse, CallShape
    <3>3. CASE S!Download
      BY <1>0, <2>1, <2>3, <3>1, <3>3, FirstDecides DEF S!Download, CallShape
    <3>4. CASE S!ShowDialog
      BY <1>0, <2>1, <2>3, <3>1, <3>4 DEF S!ShowDialog, S!TypeOK, CallShape
    <3> QED BY <1>2, <3>2, <3>3, <3>4
  <2> QED BY <2>2, <2>3
<1>3. ASSUME NEW n \in S!Calls, S!Click(n) \/ S!Pick(n) \/ S!Create(n) \/ S!Write(n)
      PROVE  CallShape(m)'
  <2>1. /\ UNCHANGED <<picker, last, answer, saveDialog, disk, saved, dismissed>>
        /\ handler[n] \notin {"unborn", "done"} /\ handler'[n] \notin {"unborn", "done"}
        /\ m # n => handler'[m] = handler[m]
    BY <1>0, <1>3 DEF S!TypeOK, S!Click, S!Pick, S!Create, S!Write, S!Advance
  <2> QED BY <1>0, <2>1 DEF CallShape
<1>4. ASSUME NEW n \in S!Calls, S!Dismiss(n) PROVE CallShape(m)'
  BY <1>0, <1>4 DEF S!TypeOK, S!Dismiss, CallShape
<1>5. ASSUME NEW n \in S!Calls, S!CloseEvent(n) PROVE CallShape(m)'
  BY <1>0, <1>5, FirstDecides DEF S!TypeOK, S!CloseEvent, CallShape
<1>6. ASSUME NEW n \in S!Calls, S!CloseFile(n) PROVE CallShape(m)'
  BY <1>0, <1>6, FirstDecides DEF S!TypeOK, S!CloseFile, S!CloseDialog, CallShape
<1>7. ASSUME NEW n \in S!Calls, S!Abort(n) PROVE CallShape(m)'
  BY <1>0, <1>7, FirstDecides DEF S!TypeOK, S!Abort, S!CloseDialog, CallShape
<1>8. ASSUME NEW n \in S!Calls, S!Fail(n) PROVE CallShape(m)'
  BY <1>0, <1>8 DEF S!TypeOK, S!Fail, S!CloseDialog, CallShape
<1> QED
  BY <1>1, <1>2, <1>3, <1>4, <1>5, <1>6, <1>7, <1>8 DEF S!Next, S!Handler

LEMMA DiskStep ==
  ASSUME MaxCalls \in Nat, SaveInv, [S!Next]_S!vars
  PROVE  DiskShape'
<1>0. /\ S!TypeOK /\ DiskShape /\ last \in Nat /\ S!Calls \subseteq Nat
      /\ \A n \in S!Calls : CallShape(n)
  BY DEF SaveInv, S!TypeOK, S!Calls
<1>1. CASE UNCHANGED <<picker, answer, disk, saved>>
  BY <1>0, <1>1 DEF DiskShape
<1>2. ASSUME NEW n \in S!Calls, S!CloseFile(n)
      PROVE  DiskShape'
  <2>1. /\ disk' = n /\ saved' = saved \union {n} /\ picker' = picker
        /\ handler[n] = "closing" /\ S!Resolve(n, "true")
    BY <1>2 DEF S!CloseFile
  <2>2. n <= last /\ n \notin saved /\ n \in Nat
    BY <1>0, <2>1 DEF CallShape
  <2>3. CASE answer[n] = "none"
    <3>1. n = last
      BY <1>0, <2>2, <2>3 DEF CallShape
    <3>2. ASSUME NEW m \in S!Calls, answer'[m] = "true" PROVE n >= m
      BY <1>0, <2>1, <2>2, <3>1, <3>2, FirstDecides DEF CallShape
    <3> QED BY <2>1, <3>2 DEF DiskShape
  <2>4. CASE answer[n] # "none"
    <3>1. picker => answer'[n] = "false"
      BY <1>0, <2>1, <2>2, <2>4, FirstDecides DEF CallShape, S!TypeOK
    <3> QED BY <2>1, <3>1 DEF DiskShape
  <2> QED BY <2>3, <2>4
<1>3. ASSUME NEW n \in S!Calls, S!Resolve(n, "false"), UNCHANGED <<picker, disk, saved>>
      PROVE  DiskShape'
  <2>1. disk \in saved => answer'[disk] = answer[disk]
    BY <1>0, <1>3, FirstDecides DEF CallShape, S!TypeOK
  <2>2. ASSUME NEW m \in S!Calls, answer'[m] = "true" PROVE answer[m] = "true"
    BY <1>0, <1>3, <2>2, FirstDecides
  <2>3. ASSUME NEW m \in S!Calls, answer[m] = "true", picker PROVE disk \in saved
    BY <1>0, <2>3 DEF CallShape, DiskShape
  <2> QED BY <1>0, <1>3, <2>1, <2>2, <2>3 DEF DiskShape
<1>4. CASE S!Refuse \/ S!Download \/ S!ShowDialog
  <2>1. last' \in S!Calls /\ UNCHANGED <<picker, disk, saved>>
    BY <1>0, <1>4 DEF S!Refuse, S!Download, S!ShowDialog, S!Call, S!Calls, S!TypeOK
  <2>2. CASE S!Refuse
    BY <1>3, <2>1, <2>2 DEF S!Refuse
  <2>3. CASE S!Download
    BY <1>0, <2>1, <2>3 DEF S!Download, DiskShape
  <2>4. CASE S!ShowDialog
    BY <1>1, <2>1, <2>4 DEF S!ShowDialog
  <2> QED BY <1>4, <2>2, <2>3, <2>4
<1>5. ASSUME NEW n \in S!Calls, S!CloseEvent(n) \/ S!Abort(n)
      PROVE  DiskShape'
  BY <1>3, <1>5 DEF S!CloseEvent, S!Abort
<1>6. ASSUME NEW n \in S!Calls,
             \/ S!Click(n) \/ S!Dismiss(n)
             \/ S!Pick(n) \/ S!Create(n) \/ S!Write(n) \/ S!Fail(n)
      PROVE  DiskShape'
  BY <1>1, <1>6
     DEF S!Click, S!Dismiss, S!Pick, S!Create, S!Write, S!Advance, S!Fail
<1>7. CASE UNCHANGED S!vars
  BY <1>1, <1>7 DEF S!vars
<1> QED
  BY <1>2, <1>4, <1>5, <1>6, <1>7 DEF S!Next, S!Handler

(* Every reachable state satisfies the inductive invariant of save_file. *)
THEOREM SaveInvariance == Spec => []SaveInv
<1>1. Init => SaveInv
  BY SaveInit, FileDialogAssumption DEF Init
<1>2. SaveInv /\ [Next]_vars => SaveInv'
  <2> SUFFICES ASSUME SaveInv, [S!Next]_S!vars PROVE SaveInv'
    BY Composed
  <2>1. S!TypeOK'
    BY SaveType, FileDialogAssumption
  <2>2. (\A n \in S!Calls : CallShape(n))'
    BY CallStep, FileDialogAssumption DEF S!Calls
  <2>3. DiskShape'
    BY DiskStep, FileDialogAssumption
  <2> QED BY <2>1, <2>2, <2>3 DEF SaveInv
<1> QED BY <1>1, <1>2, PTL DEF Spec

(* The variables of SaveDialog keep their types. *)
THEOREM SaveTypeCorrect == Spec => []S!TypeOK
  BY SaveInvariance, PTL DEF SaveInv

(* However the user, the picker and the disk behave, true means that the
   contents were written, and false that they were not, unless the dialog was
   dismissed while its listener was at work. *)
THEOREM AnswersTellTheTruth == Spec => []AnswerTells
<1>1. SaveInv => AnswerTells
  BY DEF SaveInv, DiskShape, CallShape, AnswerTells, S!AnswerTells
<1> QED BY <1>1, SaveInvariance, PTL

-----------------------------------------------------------------------------
(* How far the events of a dialog and the choice have come. *)
PickShape(r) ==
  /\ load[r] = "choosing" => dialog[r] \in {"open", "closing"} /\ picked[r] = "nothing"
  /\ dialog[r] \in {"open", "closing"} /\ picked[r] = "nothing" => load[r] = "choosing"
  /\ dialog[r] \in {"open", "closing"} /\ picked[r] \in L!Files =>
       load[r] \in {"reading", "read", "unread"}
  /\ dialog[r] = "gone" /\ picked[r] = "nothing" => load[r] = "cancelled"

(* A future of load_file that waits has an answer, or a read that will settle,
   or a dialog whose events are still to come. *)
LoadServed(r) ==
  future[r] = "waiting" =>
    \/ channel[r] # "nothing"
    \/ load[r] = "reading"
    \/ load[r] = "choosing" /\ dialog[r] \in {"open", "closing"}

(* What the first of the two events made of the choice. *)
Decision(r) ==
  IF load[r] \in {"reading", "read", "unread"} THEN "file"
  ELSE IF load[r] = "cancelled" THEN "none" ELSE "open"
Decided(r) ==
  /\ L!Chosen(r) => Decision(r) = "file"
  /\ L!Refused(r) => Decision(r) = "none"
  /\ Decision(r) = "file" /\ future[r] = "none" => load[r] = "unread"
  /\ Decision(r) = "none" => future[r] \notin {"some", "closed"}
DecisionStands(r) == Decision(r) # "open" => Decision(r)' = Decision(r)

(* What separates a waiting future from its answer, and the step that comes
   next: of its task, of the file, of the dialog. *)
LoadDistance(r) ==
  IF future[r] # "waiting" THEN 0
  ELSE IF channel[r] # "nothing" THEN 1
  ELSE IF load[r] = "reading" THEN 2
  ELSE IF dialog[r] = "closing" THEN 3 ELSE 4
LoadHelps(r) ==
  \/ L!Receive(r) \/ L!Reading(r)
  \/ L!CloseEvent(r) /\ load[r] = "choosing"
LoadNearer(r) ==
  future[r] = "waiting" =>
    /\ LoadDistance(r)' <= LoadDistance(r)
    /\ LoadHelps(r) => LoadDistance(r)' < LoadDistance(r)

(* What the actions do to the place of one request. *)
Resolved(q) ==
  \/ UNCHANGED <<load[q], channel[q]>> /\ load[q] # "choosing"
  \/ load[q] = "choosing" /\ load'[q] = "cancelled" /\ channel'[q] = "no contents"
LoadMoves(q) ==
  \/ UNCHANGED <<dialog[q], picked[q], load[q], channel[q], future[q]>>
  \/ /\ future[q] = "new" /\ UNCHANGED <<picked[q], channel[q]>>
     /\ \/ future'[q] = "none" /\ UNCHANGED <<dialog[q], load[q]>>
        \/ future'[q] = "waiting" /\ dialog'[q] = "open" /\ load'[q] = "choosing"
  \/ /\ dialog[q] = "open" /\ dialog'[q] = "closing"
     /\ UNCHANGED <<picked[q], load[q], channel[q], future[q]>>
  \/ /\ dialog[q] = "closing" /\ dialog'[q] = "gone"
     /\ Resolved(q) /\ UNCHANGED <<picked[q], future[q]>>
  \/ /\ load[q] = "reading"
     /\ \/ load'[q] = "read" /\ channel'[q] = "contents"
        \/ load'[q] = "unread" /\ channel'[q] = "none"
     /\ UNCHANGED <<dialog[q], picked[q], future[q]>>
  \/ /\ future[q] = "waiting" /\ UNCHANGED <<dialog[q], picked[q], load[q], channel[q]>>
     /\ \/ channel[q] # "nothing"
           /\ future'[q] = IF channel[q] = "contents" THEN "some" ELSE "none"
        \/ future'[q] = "dropped"
  \/ /\ future[q] = "some" /\ future'[q] = "closed"
     /\ UNCHANGED <<dialog[q], picked[q], load[q], channel[q]>>
  \/ /\ dialog[q] # "unborn" /\ picked[q] = "nothing" /\ picked'[q] \in L!Picks
     /\ dialog'[q] = IF dialog[q] = "open" THEN "closing" ELSE dialog[q]
     /\ \/ Resolved(q) /\ (load[q] = "choosing" => picked'[q] \notin L!Files)
        \/ load[q] = "choosing" /\ load'[q] = "reading" /\ picked'[q] \in L!Files
           /\ UNCHANGED channel[q]
     /\ UNCHANGED future[q]

LEMMA LoadMove ==
  ASSUME LoadInv, [L!Next]_L!vars, NEW q \in Requests
  PROVE  LoadMoves(q)
<1> USE DEF L!At, L!Allocate, L!Free
<1>0. Functions
  BY TypedFunctions DEF LoadInv
<1>1. CASE Untouched(q)
  BY <1>1 DEF Untouched, LoadMoves
<1>2. CASE UNCHANGED L!vars
  BY <1>2 DEF L!vars, LoadMoves
<1>3. ASSUME NEW r \in Requests, r # q, OneLoad(r) PROVE LoadMoves(q)
  BY <1>0, <1>1, <1>3, OthersStay
<1>4. CASE L!Refuse(q) \/ L!Start(q)
  BY <1>0, <1>4 DEF Functions, L!Refuse, L!Start, LoadMoves
<1>5. CASE L!Dismiss(q)
  BY <1>0, <1>5 DEF Functions, L!Dismiss, LoadMoves
<1>6. CASE L!CloseEvent(q)
  <2>1. /\ dialog[q] = "closing" /\ dialog'[q] = "gone" /\ UNCHANGED <<picked[q], future[q]>>
    BY <1>0, <1>6 DEF Functions, L!CloseEvent
  <2>2. Resolved(q)
    BY <1>0, <1>6 DEF Functions, L!CloseEvent, L!ResolveNull, L!NoChoice, L!Complete, Resolved
  <2> QED BY <2>1, <2>2 DEF LoadMoves
<1>7. CASE L!Reading(q)
  BY <1>0, <1>7 DEF Functions, L!Reading, L!ReadFile, L!ReadFails, L!Complete, LoadMoves
<1>8. CASE L!Receive(q) \/ L!DropFuture(q)
  BY <1>0, <1>8 DEF Functions, L!Receive, L!DropFuture, LoadMoves
<1>9. CASE L!DropHandle(q)
  BY <1>0, <1>9 DEF Functions, L!DropHandle, LoadMoves
<1>10. ASSUME NEW what \in L!Picks, L!Change(q, what) PROVE LoadMoves(q)
  <2>1. /\ dialog[q] # "unborn" /\ picked[q] = "nothing" /\ picked'[q] = what
        /\ dialog'[q] = IF dialog[q] = "open" THEN "closing" ELSE dialog[q]
        /\ UNCHANGED future[q]
    BY <1>0, <1>10 DEF Functions, L!Change
  <2>2. CASE load[q] # "choosing"
    BY <1>0, <1>10, <2>1, <2>2 DEF Functions, L!Change, LoadMoves, Resolved
  <2>3. CASE load[q] = "choosing" /\ what \in L!Files
    BY <1>0, <1>10, <2>1, <2>3 DEF Functions, L!Change, L!Choice, LoadMoves
  <2>4. CASE load[q] = "choosing" /\ what \notin L!Files
    BY <1>0, <1>10, <2>1, <2>4
       DEF Functions, L!Change, L!NoChoice, L!Complete, LoadMoves, Resolved
  <2> QED BY <2>2, <2>3, <2>4
<1> QED
  BY <1>2, <1>3, <1>4, <1>5, <1>6, <1>7, <1>8, <1>9, <1>10 DEF L!Next, OneLoad

LEMMA PickInit == L!Init => \A r \in Requests : PickShape(r)
  BY DEF L!Init, PickShape, L!Files

LEMMA PickStep ==
  ASSUME LoadInv, [L!Next]_L!vars, NEW q \in Requests, PickShape(q)
  PROVE  PickShape(q)'
<1>1. LoadMoves(q) /\ Follows(q)
  BY LoadMove DEF LoadInv
<1> QED BY <1>1 DEF LoadMoves, Resolved, Follows, PickShape, L!Files, L!Picks

LEMMA ServedAndDecided ==
  ASSUME LoadInv, NEW r \in Requests, PickShape(r)
  PROVE  LoadServed(r) /\ Decided(r)
<1>1. Follows(r) /\ load[r] \in {"idle", "choosing", "reading", "read", "unread", "cancelled"}
  BY DEF LoadInv, L!TypeOK
<1>2. LoadServed(r)
  BY <1>1 DEF Follows, PickShape, LoadServed
<1>3. Decided(r)
  BY <1>1 DEF Follows, PickShape, Decided, Decision, L!Chosen, L!Refused, L!Files
<1> QED BY <1>2, <1>3

LEMMA DecisionKept ==
  ASSUME LoadInv, [L!Next]_L!vars, NEW r \in Requests
  PROVE  DecisionStands(r)
<1>1. LoadMoves(r) /\ Follows(r)
  BY LoadMove DEF LoadInv
<1> QED BY <1>1 DEF LoadMoves, Resolved, Follows, DecisionStands, Decision

LEMMA LoadComesNearer ==
  ASSUME LoadInv, [L!Next]_L!vars, NEW r \in Requests, PickShape(r)
  PROVE  LoadNearer(r)
<1> SUFFICES ASSUME future[r] = "waiting" PROVE LoadNearer(r)
  BY DEF LoadNearer
<1> USE DEF L!At, L!Allocate, L!Free
<1>1. LoadMoves(r) /\ Follows(r)
  BY LoadMove DEF LoadInv
<1>0. Functions
  BY TypedFunctions DEF LoadInv
<1>2. LoadDistance(r)' <= LoadDistance(r)
  <2>1. LoadDistance(r) \in 1..4 /\ LoadDistance(r)' \in 0..4
    BY DEF LoadDistance
  <2>2. CASE future'[r] # "waiting"
    <3>1. LoadDistance(r)' = 0
      BY <2>2 DEF LoadDistance
    <3> QED BY <2>1, <3>1
  <2>3. CASE future'[r] = "waiting"
    <3>1. channel[r] # "nothing" => channel'[r] # "nothing"
      BY <1>1, <2>3 DEF LoadMoves, Resolved, Follows
    <3>2. load[r] = "reading" => load'[r] = "reading" \/ channel'[r] # "nothing"
      BY <1>1, <2>3 DEF LoadMoves, Resolved, Follows
    <3>3. dialog[r] = "closing" =>
            \/ dialog'[r] = "closing" \/ channel'[r] # "nothing" \/ load'[r] = "reading"
      <4>1. load[r] \in {"idle", "choosing", "reading", "read", "unread", "cancelled"}
        BY DEF LoadInv, L!TypeOK
      <4> QED BY <1>1, <2>3, <4>1 DEF LoadMoves, Resolved, Follows, PickShape
    <3> QED BY <2>3, <3>1, <3>2, <3>3 DEF LoadDistance
  <2> QED BY <2>2, <2>3
<1>3. ASSUME L!Receive(r) PROVE LoadDistance(r)' < LoadDistance(r)
  <2>1. future'[r] \in {"some", "none"}
    BY <1>0, <1>3 DEF Functions, L!Receive
  <2> QED BY <2>1 DEF LoadDistance
<1>4. ASSUME L!Reading(r) PROVE LoadDistance(r)' < LoadDistance(r)
  <2>1. load[r] = "reading" /\ channel'[r] \in {"contents", "none"}
    BY <1>0, <1>4 DEF Functions, L!Reading, L!ReadFile, L!ReadFails, L!Complete
  <2>2. channel[r] = "nothing"
    BY <1>1, <2>1 DEF Follows
  <2> QED BY <2>1, <2>2 DEF LoadDistance
<1>5. ASSUME L!CloseEvent(r), load[r] = "choosing" PROVE LoadDistance(r)' < LoadDistance(r)
  <2>1. channel'[r] = "no contents" /\ dialog[r] = "closing"
    BY <1>0, <1>5 DEF Functions, L!CloseEvent, L!ResolveNull, L!NoChoice, L!Complete
  <2>2. channel[r] = "nothing"
    BY <1>1, <1>5 DEF Follows
  <2>3. LoadDistance(r) = 3
    BY <1>5, <2>1, <2>2 DEF LoadDistance
  <2>4. LoadDistance(r)' \in {0, 1}
    BY <2>1 DEF LoadDistance
  <2> QED BY <2>3, <2>4
<1> QED BY <1>2, <1>3, <1>4, <1>5 DEF LoadNearer, LoadHelps

(* The first of the two events decides, for any number of requests: a file
   that was chosen stays chosen, a dialog that was closed first gives None, and
   a future that waits always has the step ahead that brings it nearer. *)
THEOREM TheFirstEventStands ==
  Spec => /\ [](\A r \in Requests : LoadServed(r) /\ Decided(r))
          /\ [][\A r \in Requests : DecisionStands(r) /\ LoadNearer(r)]_vars
<1> DEFINE Shape == LoadInv /\ \A r \in Requests : PickShape(r)
           Served == \A r \in Requests : LoadServed(r) /\ Decided(r)
           Moves == \A r \in Requests : DecisionStands(r) /\ LoadNearer(r)
<1>1. Init => \A r \in Requests : PickShape(r)
  BY PickInit DEF Init
<1>2. Shape /\ [Next]_vars => (\A r \in Requests : PickShape(r))'
  BY Composed, PickStep
<1>3. Shape => Served
  BY ServedAndDecided
<1>4. Shape /\ [Next]_vars => [Moves]_vars
  BY Composed, DecisionKept, LoadComesNearer
<1> HIDE DEF Served, Moves
<1>5. Spec => []Served /\ [][Moves]_vars
  BY <1>1, <1>2, <1>3, <1>4, LoadInvariance, PTL DEF Spec
<1> QED BY <1>5 DEF Served, Moves
-----------------------------------------------------------------------------
(* A call of save_file that has not returned has an open dialog with a
   listener that can still go on, or one whose close event is queued. *)
AtWork == {"picking", "creating", "writing", "closing"}
SaveServed(n) ==
  (n <= last /\ answer[n] = "none") =>
    \/ saveDialog[n] = "closing"
    \/ saveDialog[n] = "open" /\ handler[n] \in AtWork \union {"listening"}

(* What separates such a call from its answer, and the step that comes next:
   the close event, or what the listener waits for. *)
SaveDistance(n) ==
  IF answer[n] # "none" THEN 0
  ELSE IF saveDialog[n] = "closing" THEN 1
  ELSE IF handler[n] = "closing" THEN 2
  ELSE IF handler[n] = "writing" THEN 3
  ELSE IF handler[n] = "creating" THEN 4
  ELSE IF handler[n] = "picking" THEN 5 ELSE 6
SaveHelps(n) == S!CloseEvent(n) \/ (S!Handler(n) /\ saveDialog[n] = "open")
SaveNearer(n) ==
  (n <= last /\ answer[n] = "none") =>
    /\ SaveDistance(n)' <= SaveDistance(n)
    /\ SaveHelps(n) => SaveDistance(n)' < SaveDistance(n)

(* What the actions do to a call that has begun and not returned. *)
SaveMoves(n) ==
  \/ answer'[n] # "none"
  \/ UNCHANGED <<answer[n], saveDialog[n], handler[n]>>
  \/ /\ UNCHANGED answer[n]
     /\ \/ saveDialog[n] = "open" /\ saveDialog'[n] = "closing" /\ UNCHANGED handler[n]
        \/ /\ UNCHANGED saveDialog[n]
           /\ \/ handler[n] = "listening" /\ handler'[n] = "picking"
              \/ handler[n] = "picking" /\ handler'[n] = "creating"
              \/ handler[n] = "creating" /\ handler'[n] = "writing"
              \/ handler[n] = "writing" /\ handler'[n] = "closing"
        \/ /\ handler[n] \in AtWork /\ handler'[n] = "done"
           /\ saveDialog'[n] = IF saveDialog[n] = "open" THEN "closing" ELSE saveDialog[n]

LEMMA SaveMove ==
  ASSUME SaveInv, [S!Next]_S!vars, NEW n \in S!Calls, n <= last, answer[n] = "none"
  PROVE  SaveMoves(n) /\ (answer'[n] = "none" => last' = last)
<1> USE DEF S!GoTo
<1>0. S!TypeOK /\ CallShape(n) /\ last \in Nat /\ n \in Nat /\ n > 0
  BY FileDialogAssumption DEF SaveInv, S!TypeOK, S!Calls
<1>1. ~S!Call
  BY <1>0 DEF CallShape, S!Call
<1>2. CASE UNCHANGED S!vars
  BY <1>2 DEF S!vars, SaveMoves
<1>3. ASSUME NEW m \in S!Calls, S!Click(m) \/ S!Pick(m) \/ S!Create(m) \/ S!Write(m)
      PROVE  SaveMoves(n) /\ last' = last
  BY <1>0, <1>3
     DEF S!TypeOK, S!Click, S!Pick, S!Create, S!Write, S!Advance, SaveMoves
<1>4. ASSUME NEW m \in S!Calls, S!Dismiss(m) PROVE SaveMoves(n) /\ last' = last
  BY <1>0, <1>4 DEF S!TypeOK, S!Dismiss, SaveMoves
<1>5. ASSUME NEW m \in S!Calls, S!CloseEvent(m) PROVE SaveMoves(n) /\ last' = last
  <2>1. /\ UNCHANGED <<last, handler>> /\ S!Resolve(m, "false")
        /\ m # n => saveDialog'[n] = saveDialog[n]
    BY <1>0, <1>5 DEF S!TypeOK, S!CloseEvent
  <2>2. m # n => answer'[n] = answer[n]
    BY <1>0, <2>1, FirstDecides
  <2>3. m = n => answer'[n] = "false"
    BY <1>0, <2>1, FirstDecides
  <2> QED BY <2>1, <2>2, <2>3 DEF SaveMoves
<1>6. ASSUME NEW m \in S!Calls, S!CloseFile(m) \/ S!Abort(m)
      PROVE  SaveMoves(n) /\ last' = last
  <2>1. PICK value \in {"true", "false"} : S!Resolve(m, value)
    BY <1>6 DEF S!CloseFile, S!Abort
  <2>2. last' = last /\ (m # n => UNCHANGED <<handler[n], saveDialog[n]>>)
    BY <1>0, <1>6 DEF S!TypeOK, S!CloseFile, S!Abort, S!CloseDialog
  <2>3. m # n => answer'[n] = answer[n]
    BY <1>0, <2>1, FirstDecides
  <2>4. m = n => answer'[n] = value
    BY <1>0, <2>1, FirstDecides
  <2> QED BY <2>2, <2>3, <2>4 DEF SaveMoves
<1>7. ASSUME NEW m \in S!Calls, S!Fail(m) PROVE SaveMoves(n) /\ last' = last
  <2>1. m # n => UNCHANGED <<answer[n], handler[n], saveDialog[n]>>
    BY <1>0, <1>7 DEF S!TypeOK, S!Fail, S!CloseDialog
  <2>2. m = n => /\ handler[n] \in AtWork /\ handler'[n] = "done" /\ UNCHANGED answer[n]
                 /\ saveDialog'[n] = IF saveDialog[n] = "open" THEN "closing" ELSE saveDialog[n]
    BY <1>0, <1>7 DEF S!TypeOK, S!Fail, S!CloseDialog, AtWork
  <2>3. last' = last
    BY <1>7 DEF S!Fail
  <2> QED BY <2>1, <2>2, <2>3 DEF SaveMoves
<1> QED
  BY <1>1, <1>2, <1>3, <1>4, <1>5, <1>6, <1>7
     DEF S!Next, S!Handler, S!Refuse, S!Download, S!ShowDialog

LEMMA ServedStep ==
  ASSUME SaveInv, SaveInv', [S!Next]_S!vars, NEW n \in S!Calls, SaveServed(n)
  PROVE  SaveServed(n)'
<1> SUFFICES ASSUME n <= last', answer'[n] = "none"
             PROVE  \/ saveDialog'[n] = "closing"
                    \/ saveDialog'[n] = "open" /\ handler'[n] \in AtWork \union {"listening"}
  BY DEF SaveServed
<1>0. S!TypeOK /\ CallShape(n) /\ last \in Nat /\ n \in Nat /\ n > 0
  BY FileDialogAssumption DEF SaveInv, S!TypeOK, S!Calls
<1>1. CASE n <= last /\ answer[n] = "none"
  <2>1. SaveMoves(n)
    BY <1>1, SaveMove
  <2> QED BY <1>1, <2>1 DEF SaveMoves, SaveServed, AtWork
<1>2. CASE ~(n <= last /\ answer[n] = "none")
  <2>1. answer[n] = "none"
    <3>1. CASE UNCHANGED S!vars
      BY <3>1 DEF S!vars
    <3>2. ASSUME NEW m \in S!Calls, NEW value \in {"true", "false"}, S!Resolve(m, value)
          PROVE  answer[n] = "none"
      BY <1>0, <3>2, FirstDecides
    <3>3. CASE answer' = answer
      BY <3>3
    <3>4. S!Call => last' \in S!Calls
      BY <1>0, FileDialogAssumption DEF S!Call, S!Calls, S!TypeOK
    <3> QED
      BY <3>1, <3>2, <3>3, <3>4
         DEF S!Next, S!Refuse, S!Download, S!ShowDialog, S!Click, S!Dismiss, S!CloseEvent,
             S!Handler, S!Pick, S!Create, S!Write, S!Advance, S!CloseFile, S!Abort, S!Fail
  <2>2. n > last
    BY <1>0, <1>2, <2>1
  <2>3. S!Call /\ last' = last + 1 /\ n = last'
    <3>1. last' # last
      BY <1>0, <2>2
    <3>2. S!Call
      BY <3>1 DEF S!Next, S!Refuse, S!Download, S!ShowDialog, S!Click, S!Dismiss, S!CloseEvent,
             S!Handler, S!Pick, S!Create, S!Write, S!Advance, S!CloseFile, S!Abort, S!Fail, S!vars
    <3> QED BY <1>0, <2>2, <3>2 DEF S!Call
  <2>4. ~S!Refuse /\ ~S!Download
    <3>1. ASSUME NEW value \in {"true", "false"}, S!Resolve(n, value) PROVE FALSE
      BY <1>0, <2>1, <3>1, FirstDecides
    <3> QED BY <2>3, <3>1 DEF S!Refuse, S!Download
  <2>5. S!ShowDialog
    BY <1>0, <2>2, <2>3, <2>4
       DEF S!Next, S!Click, S!Dismiss, S!CloseEvent,
           S!Handler, S!Pick, S!Create, S!Write, S!Advance, S!CloseFile, S!Abort, S!Fail, S!vars
  <2>6. saveDialog'[n] = "open" /\ handler'[n] = "listening"
    BY <1>0, <2>3, <2>5 DEF S!ShowDialog, S!GoTo, S!TypeOK
  <2> QED BY <2>6
<1> QED BY <1>1, <1>2

LEMMA SaveComesNearer ==
  ASSUME SaveInv, [S!Next]_S!vars, NEW n \in S!Calls, SaveServed(n)
  PROVE  SaveNearer(n)
<1> SUFFICES ASSUME n <= last, answer[n] = "none"
             PROVE  /\ SaveDistance(n)' <= SaveDistance(n)
                    /\ SaveHelps(n) => SaveDistance(n)' < SaveDistance(n)
  BY DEF SaveNearer
<1>0. S!TypeOK
  BY DEF SaveInv
<1>1. SaveMoves(n)
  BY SaveMove
<1>2. SaveDistance(n)' <= SaveDistance(n)
  BY <1>1 DEF SaveMoves, SaveServed, SaveDistance, AtWork
<1>3. ASSUME S!CloseEvent(n) PROVE SaveDistance(n)' < SaveDistance(n)
  <2>1. answer'[n] = "false"
    BY <1>0, <1>3, FirstDecides DEF S!CloseEvent
  <2> QED BY <2>1 DEF SaveDistance
<1>4. ASSUME S!Handler(n), saveDialog[n] = "open" PROVE SaveDistance(n)' < SaveDistance(n)
  <2>1. CASE S!Pick(n) \/ S!Create(n) \/ S!Write(n)
    BY <1>0, <1>4, <2>1
       DEF S!TypeOK, S!Pick, S!Create, S!Write, S!Advance, S!GoTo, SaveDistance
  <2>2. CASE S!CloseFile(n) \/ S!Abort(n)
    <3>1. PICK value \in {"true", "false"} : S!Resolve(n, value)
      BY <2>2 DEF S!CloseFile, S!Abort
    <3>2. answer'[n] # "none"
      BY <1>0, <3>1, FirstDecides
    <3> QED BY <3>2 DEF SaveDistance
  <2>3. CASE S!Fail(n)
    <3>1. saveDialog'[n] = "closing" /\ answer'[n] = "none"
      BY <1>0, <1>4, <2>3 DEF S!TypeOK, S!Fail, S!CloseDialog
    <3> QED BY <1>4, <3>1 DEF SaveDistance
  <2> QED BY <1>4, <2>1, <2>2, <2>3 DEF S!Handler
<1> QED BY <1>2, <1>3, <1>4 DEF SaveHelps

(* Whatever fails, a call of save_file that has not returned always has the
   step ahead that brings it nearer to its answer, and no step takes it
   further away. *)
THEOREM SomethingReturnsIt ==
  Spec => /\ [](\A n \in S!Calls : SaveServed(n))
          /\ [][\A n \in S!Calls : SaveNearer(n)]_vars
<1> DEFINE Served == \A n \in S!Calls : SaveServed(n)
           Nearer == \A n \in S!Calls : SaveNearer(n)
<1>1. Init => Served
  BY FileDialogAssumption DEF Init, S!Init, SaveServed, S!Calls
<1>2. SaveInv /\ SaveInv' /\ Served /\ [Next]_vars => Served'
  BY Composed, ServedStep DEF S!Calls
<1>3. SaveInv /\ Served /\ [Next]_vars => [Nearer]_vars
  BY Composed, SaveComesNearer
<1> HIDE DEF Served, Nearer
<1>4. Spec => []Served /\ [][Nearer]_vars
  BY <1>1, <1>2, <1>3, SaveInvariance, PTL DEF Spec
<1> QED BY <1>4 DEF Served, Nearer
=============================================================================
