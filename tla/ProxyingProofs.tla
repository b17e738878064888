--------------------------- MODULE ProxyingProofs ---------------------------
(***************************************************************************)
(* Proofs about Proxying, for any threads and calls.  The inductive        *)
(* invariant says, of every call, which owners of its allocation are left: *)
(* the one that goes when the closure has run, until it has, and the one   *)
(* that goes with the answer, until it was taken.  The second part says    *)
(* who still has a call that was accepted, and who waits for it.           *)
(***************************************************************************)
EXTENDS Proxying, FiniteSetTheorems, TLAPS

(* The context and the answer in each phase of a call. *)
Phase(c) ==
  /\ at[c] \in {"new", "refused", "queued"} => context[c] = "none"
  /\ context[c] = "none" => answer[c] = "none"
  /\ at[c] = "running" => context[c] \in {"live", "finished"}
  /\ at[c] = "running" /\ kind[c] \notin CtxKinds => context[c] = "live"
  /\ context[c] = "live" => answer[c] = "none" /\ at[c] \in {"running", "ran"}
  /\ kind[c] = "async" => answer[c] = "none"

HeldToRun(c) ==
  IF at[c] \in {"queued", "running", "cancelled"} THEN RunTakes(kind[c]) ELSE 0
OwedToAnswer(c) ==
  IF (at[c] = "ran" /\ context[c] = "none") \/ answer[c] = "taken"
    THEN 0 ELSE AnswerTakes(kind[c])

RefsOf(c) ==
  refs[c] = IF at[c] = "new" THEN 0
            ELSE IF at[c] = "refused" THEN Owners(kind[c]) - RefusedTakes(kind[c])
            ELSE HeldToRun(c) + OwedToAnswer(c)

Phases == \A c \in Calls : Phase(c)
RefsExact == \A c \in Calls : RefsOf(c)

IInv == TypeOK /\ Phases /\ RefsExact /\ BorrowsCovered

(* Who frees an allocation adds up to its owners. *)
LEMMA OwnersAddUp ==
  ASSUME NEW k \in Kinds
  PROVE  /\ RunTakes(k) \in 0..1 /\ AnswerTakes(k) \in 0..1
         /\ Owners(k) = RunTakes(k) + AnswerTakes(k)
         /\ Owners(k) - RefusedTakes(k) = IF k = "blocking_ctx" THEN 1 ELSE 0
  BY ProxyingAssumption DEF RunTakes, AnswerTakes, Owners, RefusedTakes

(* Owners are counted from 0 to 2 in every phase. *)
LEMMA RefsInRange ==
  ASSUME NEW c \in Calls, kind[c] \in Kinds, RefsOf(c)
  PROVE  refs[c] \in 0..2
  BY OwnersAddUp DEF RefsOf, HeldToRun, OwedToAnswer

LEMMA InitIInv == Init => IInv
<1> SUFFICES ASSUME Init PROVE IInv
  OBVIOUS
<1>1. TypeOK
  BY DEF Init, TypeOK
<1>2. Phases
  BY DEF Init, Phases, Phase
<1>3. RefsExact
  BY DEF Init, RefsExact, RefsOf
<1>4. BorrowsCovered
  BY DEF Init, BorrowsCovered
<1> QED
  BY <1>1, <1>2, <1>3, <1>4 DEF IInv

-----------------------------------------------------------------------------
(* Types.  The range of refs comes from RefsExact in the next state. *)
TypesButRefs ==
  /\ kind \in [Calls -> Kinds]
  /\ origin \in [Calls -> Threads] /\ target \in [Calls -> Threads]
  /\ at \in [Calls -> {"new", "refused", "queued", "running", "ran", "cancelled"}]
  /\ context \in [Calls -> {"none", "live", "finished", "cancelled"}]
  /\ answer \in [Calls -> {"none", "callback", "cancel", "taken", "lost"}]
  /\ DOMAIN refs = Calls /\ refs = [c \in Calls |-> refs[c]]
  /\ result \in [Calls -> BOOLEAN]
  /\ alive \subseteq Threads
  /\ waiting \in [Threads -> Calls \union {NoCall}]

LEMMA TypesComplete == TypesButRefs /\ RefsExact => TypeOK
<1> SUFFICES ASSUME TypesButRefs, RefsExact PROVE TypeOK
  OBVIOUS
<1>1. \A c \in Calls : refs[c] \in 0..2
  BY RefsInRange DEF TypesButRefs, RefsExact
<1>2. refs \in [Calls -> 0..2]
  BY <1>1 DEF TypesButRefs
<1> QED
  BY <1>2 DEF TypesButRefs, TypeOK

LEMMA TypesStep == TypeOK /\ [Next]_vars => TypesButRefs'
<1> SUFFICES ASSUME TypeOK, [Next]_vars PROVE TypesButRefs'
  OBVIOUS
<1> USE DEF TypeOK, TypesButRefs, callVars
<1>1. ASSUME NEW c \in Calls, Accept(c) PROVE TypesButRefs'
  BY <1>1 DEF Accept
<1>2. ASSUME NEW c \in Calls, Refuse(c) PROVE TypesButRefs'
  BY <1>2 DEF Refuse
<1>3. ASSUME NEW c \in Calls, RunInline(c) PROVE TypesButRefs'
  BY <1>3 DEF RunInline
<1>4. ASSUME NEW c \in Calls, Run(c) PROVE TypesButRefs'
  BY <1>4 DEF Run
<1>5. ASSUME NEW c \in Calls, Finish(c) PROVE TypesButRefs'
  BY <1>5 DEF Finish, Answered
<1>6. ASSUME NEW c \in Calls, Return(c) PROVE TypesButRefs'
  BY <1>6 DEF Return, Answered
<1>7. ASSUME NEW c \in Calls, AnswerOrigin(c) PROVE TypesButRefs'
  BY <1>7 DEF AnswerOrigin
<1>8. ASSUME NEW c \in Calls, Unblock(c) PROVE TypesButRefs'
  <2>1. SyncResult(c) \in BOOLEAN
    BY DEF SyncResult
  <2> QED
    BY <1>8, <2>1 DEF Unblock
<1>9. ASSUME NEW t \in Threads, Exit(t) PROVE TypesButRefs'
  BY <1>9 DEF Exit, Answered
<1>10. CASE UNCHANGED vars
  BY <1>10 DEF vars
<1> QED
  BY <1>1, <1>2, <1>3, <1>4, <1>5, <1>6, <1>7, <1>8, <1>9, <1>10 DEF Next

-----------------------------------------------------------------------------
(* The phases of a call follow each other. *)
LEMMA PhasesStep == TypeOK /\ Phases /\ [Next]_vars => Phases'
<1> SUFFICES ASSUME TypeOK, Phases, [Next]_vars, NEW d \in Calls PROVE Phase(d)'
  BY DEF Phases
<1> USE DEF TypeOK, Phases, Phase, callVars, CtxKinds
<1>1. ASSUME NEW c \in Calls, Accept(c) PROVE Phase(d)'
  BY <1>1 DEF Accept
<1>2. ASSUME NEW c \in Calls, Refuse(c) PROVE Phase(d)'
  BY <1>2 DEF Refuse
<1>3. ASSUME NEW c \in Calls, RunInline(c) PROVE Phase(d)'
  BY <1>3 DEF RunInline
<1>4. ASSUME NEW c \in Calls, Run(c) PROVE Phase(d)'
  BY <1>4 DEF Run
<1>5. ASSUME NEW c \in Calls, Finish(c) PROVE Phase(d)'
  BY <1>5 DEF Finish, Answered
<1>6. ASSUME NEW c \in Calls, Return(c) PROVE Phase(d)'
  BY <1>6 DEF Return, Answered
<1>7. ASSUME NEW c \in Calls, AnswerOrigin(c) PROVE Phase(d)'
  BY <1>7 DEF AnswerOrigin, Answers
<1>8. ASSUME NEW c \in Calls, Unblock(c) PROVE Phase(d)'
  BY <1>8 DEF Unblock
<1>9. ASSUME NEW t \in Threads, Exit(t) PROVE Phase(d)'
  BY <1>9 DEF Exit, Answered
<1>10. CASE UNCHANGED vars
  BY <1>10 DEF vars
<1> QED
  BY <1>1, <1>2, <1>3, <1>4, <1>5, <1>6, <1>7, <1>8, <1>9, <1>10 DEF Next

-----------------------------------------------------------------------------
(* Every step takes the owners that its phase says. *)
LEMMA RefsStep == TypeOK /\ Phases /\ RefsExact /\ [Next]_vars => RefsExact'
<1> SUFFICES ASSUME TypeOK, Phases, RefsExact, [Next]_vars, NEW d \in Calls PROVE RefsOf(d)'
  BY DEF RefsExact
<1> USE DEF TypeOK, Phases, Phase, RefsExact, RefsOf, HeldToRun, OwedToAnswer, callVars
<1>1. ASSUME NEW c \in Calls, Accept(c) PROVE RefsOf(d)'
  BY <1>1, OwnersAddUp DEF Accept
<1>2. ASSUME NEW c \in Calls, Refuse(c) PROVE RefsOf(d)'
  BY <1>2, OwnersAddUp DEF Refuse
<1>3. ASSUME NEW c \in Calls, RunInline(c) PROVE RefsOf(d)'
  BY <1>3, OwnersAddUp DEF RunInline
<1>4. ASSUME NEW c \in Calls, Run(c) PROVE RefsOf(d)'
  BY <1>4, OwnersAddUp DEF Run
<1>5. ASSUME NEW c \in Calls, Finish(c) PROVE RefsOf(d)'
  BY <1>5, OwnersAddUp DEF Finish, Answered, CtxKinds
<1>6. ASSUME NEW c \in Calls, Return(c) PROVE RefsOf(d)'
  BY <1>6, OwnersAddUp DEF Return, Answered, CtxKinds
<1>7. ASSUME NEW c \in Calls, AnswerOrigin(c) PROVE RefsOf(d)'
  BY <1>7, OwnersAddUp DEF AnswerOrigin, Answers, Blocking
<1>8. ASSUME NEW c \in Calls, Unblock(c) PROVE RefsOf(d)'
  BY <1>8, OwnersAddUp DEF Unblock
<1>9. ASSUME NEW t \in Threads, Exit(t) PROVE RefsOf(d)'
  BY <1>9, OwnersAddUp DEF Exit, Answered
<1>10. CASE UNCHANGED vars
  BY <1>10 DEF vars
<1> QED
  BY <1>1, <1>2, <1>3, <1>4, <1>5, <1>6, <1>7, <1>8, <1>9, <1>10 DEF Next

-----------------------------------------------------------------------------
(* The caller of proxy_blocking waits until its closure has run. *)
BorrowOf(c) ==
  kind[c] = "blocking" /\ at[c] \in {"queued", "running"} => waiting[origin[c]] = c

LEMMA BorrowsStep == TypeOK /\ Phases /\ BorrowsCovered /\ [Next]_vars => BorrowsCovered'
<1> SUFFICES ASSUME TypeOK, Phases, BorrowsCovered, [Next]_vars, NEW d \in Calls PROVE BorrowOf(d)'
  BY DEF BorrowsCovered, BorrowOf
<1> USE DEF TypeOK, Phases, Phase, BorrowsCovered, BorrowOf, callVars
<1>1. ASSUME NEW c \in Calls, Accept(c) PROVE BorrowOf(d)'
  BY <1>1, ProxyingAssumption DEF Accept, Waits, Blocking, Free
<1>2. ASSUME NEW c \in Calls, Refuse(c) PROVE BorrowOf(d)'
  BY <1>2 DEF Refuse
<1>3. ASSUME NEW c \in Calls, RunInline(c) PROVE BorrowOf(d)'
  BY <1>3 DEF RunInline
<1>4. ASSUME NEW c \in Calls, Run(c) PROVE BorrowOf(d)'
  BY <1>4 DEF Run
<1>5. ASSUME NEW c \in Calls, Finish(c) PROVE BorrowOf(d)'
  BY <1>5 DEF Finish
<1>6. ASSUME NEW c \in Calls, Return(c) PROVE BorrowOf(d)'
  BY <1>6 DEF Return
<1>7. ASSUME NEW c \in Calls, AnswerOrigin(c) PROVE BorrowOf(d)'
  BY <1>7 DEF AnswerOrigin
<1>8. ASSUME NEW c \in Calls, Unblock(c) PROVE BorrowOf(d)'
  BY <1>8, ProxyingAssumption DEF Unblock, CtxKinds
<1>9. ASSUME NEW t \in Threads, Exit(t) PROVE BorrowOf(d)'
  BY <1>9 DEF Exit
<1>10. CASE UNCHANGED vars
  BY <1>10 DEF vars
<1> QED
  BY <1>1, <1>2, <1>3, <1>4, <1>5, <1>6, <1>7, <1>8, <1>9, <1>10 DEF Next

-----------------------------------------------------------------------------
(* The inductive invariant holds in every reachable state. *)
THEOREM Invariance == Spec => []IInv
<1>1. Init => IInv
  BY InitIInv
<1>2. IInv /\ [Next]_vars => IInv'
  <2> SUFFICES ASSUME IInv, [Next]_vars PROVE IInv'
    OBVIOUS
  <2>1. TypesButRefs'
    BY TypesStep DEF IInv
  <2>2. RefsExact'
    BY RefsStep DEF IInv
  <2>3. TypeOK'
    BY <2>1, <2>2, TypesComplete, PTL
  <2>4. Phases' /\ BorrowsCovered'
    BY PhasesStep, BorrowsStep DEF IInv
  <2> QED
    BY <2>2, <2>3, <2>4 DEF IInv
<1> QED
  BY <1>1, <1>2, PTL DEF Spec

(* The variables keep their types; no allocation is freed more often than it
   has owners. *)
THEOREM TypeCorrect == Spec => []TypeOK
  BY Invariance, PTL DEF IInv

(* The closure of proxy_blocking only runs while its caller waits. *)
THEOREM BorrowsAreCovered == Spec => []BorrowsCovered
  BY Invariance, PTL DEF IInv

(* The allocation of a call is alive while the target or the origin may still
   use it, whichever of the two is done first. *)
THEOREM NothingUsedAfterFree == Spec => []AliveWhileUsed
<1>1. IInv => AliveWhileUsed
  <2> SUFFICES ASSUME IInv, NEW c \in Calls
               PROVE  /\ at[c] \in {"queued", "running"} => refs[c] > 0
                      /\ answer[c] \in {"callback", "cancel"} /\ AnswerTakes(kind[c]) > 0
                           => refs[c] > 0
    BY DEF AliveWhileUsed
  <2>1. kind[c] \in Kinds /\ Phase(c) /\ RefsOf(c)
    BY DEF IInv, TypeOK, Phases, RefsExact
  <2>2. kind[c] \in {"blocking", "callback"} \/ RunTakes(kind[c]) = 1
    BY DEF RunTakes
  <2>3. kind[c] \in {"blocking", "callback"} => kind[c] \notin CtxKinds /\ AnswerTakes(kind[c]) = 1
    BY DEF CtxKinds, AnswerTakes
  <2>4. RunTakes(kind[c]) \in 0..1 /\ AnswerTakes(kind[c]) \in 0..1
    BY <2>1, OwnersAddUp
  <2>5. at[c] \in {"queued", "running"} => refs[c] > 0
    BY <2>1, <2>2, <2>3, <2>4 DEF Phase, RefsOf, HeldToRun, OwedToAnswer
  <2>6. answer[c] \in {"callback", "cancel"} /\ AnswerTakes(kind[c]) > 0 => refs[c] > 0
    BY <2>1, <2>4 DEF Phase, RefsOf, HeldToRun, OwedToAnswer
  <2> QED
    BY <2>5, <2>6
<1> QED
  BY <1>1, Invariance, PTL

(* A settled call leaks only if it was cancelled before it ran, was refused by
   proxy_blocking_with_ctx, or has an answer that was not taken. *)
THEOREM OnlyUnrunCallsLeak == Spec => []LeaksOnlyUnrun
<1>1. IInv => LeaksOnlyUnrun
  <2> SUFFICES ASSUME IInv, NEW c \in Calls,
                      refs[c] > 0, at[c] \notin {"queued", "running"}
               PROVE  \/ at[c] \in {"ran", "cancelled"} /\ AnswerTakes(kind[c]) > 0
                            /\ answer[c] # "taken"
                      \/ at[c] = "cancelled" /\ RunTakes(kind[c]) > 0
                      \/ at[c] = "refused" /\ kind[c] = "blocking_ctx"
    BY DEF LeaksOnlyUnrun
  <2>1. kind[c] \in Kinds /\ RefsOf(c)
    BY DEF IInv, TypeOK, RefsExact
  <2>2. at[c] \in {"new", "refused", "ran", "cancelled"}
    BY DEF IInv, TypeOK
  <2>3. /\ RunTakes(kind[c]) \in 0..1 /\ AnswerTakes(kind[c]) \in 0..1
        /\ Owners(kind[c]) - RefusedTakes(kind[c]) = IF kind[c] = "blocking_ctx" THEN 1 ELSE 0
    BY <2>1, OwnersAddUp
  <2> QED
    BY <2>1, <2>2, <2>3 DEF RefsOf, HeldToRun, OwedToAnswer
<1> QED
  BY <1>1, Invariance, PTL

-----------------------------------------------------------------------------
(* The calls that were accepted and have an answer to give. *)
Accepted(c) ==
  /\ kind[c] # "async" /\ at[c] \notin {"new", "refused"}
  /\ ThroughQueue(kind[c], origin[c], target[c])

(* Such a call was answered, or a thread that is alive still has it. *)
NotForgotten(c) ==
  Accepted(c) =>
    answer[c] # "none" \/ (target[c] \in alive /\ (at[c] = "queued" \/ context[c] = "live"))

(* A thread waits for a call of its own to another thread, and takes the
   answer before anything else. *)
Waiter(c) ==
  waiting[origin[c]] = c =>
    /\ Accepted(c) /\ kind[c] \in Blocking /\ origin[c] \in alive
    /\ answer[c] \in {"none", "callback", "cancel"}
OwnCall(t) == waiting[t] # NoCall => origin[waiting[t]] = t

ServedInv ==
  /\ \A c \in Calls : NotForgotten(c) /\ Waiter(c)
  /\ \A t \in Threads : OwnCall(t)

(* What separates a caller from the answer it waits for, and the steps that
   bring it nearer: those of its call, until there is an answer. *)
WaitDistance(c) ==
  IF waiting[origin[c]] # c THEN 0
  ELSE IF answer[c] # "none" THEN 1
  ELSE IF at[c] = "ran" THEN 2
  ELSE IF at[c] = "running" THEN 3 ELSE 4
Serves(c) == Unblock(c) \/ (answer[c] = "none" /\ (Run(c) \/ Return(c) \/ Finish(c)))
WaitNearer(c) ==
  waiting[origin[c]] = c =>
    /\ WaitDistance(c)' <= WaitDistance(c)
    /\ Serves(c) => WaitDistance(c)' < WaitDistance(c)

(* An answer is given once, and then taken or lost. *)
AnsweredOnce(c) ==
  answer[c] # "none" =>
    \/ answer'[c] = answer[c]
    \/ answer[c] \in {"callback", "cancel"} /\ answer'[c] \in {"taken", "lost"}

LEMMA NotForgottenStep ==
  ASSUME TypeOK, Phases, ServedInv, [Next]_vars, NEW d \in Calls
  PROVE  NotForgotten(d)'
<1> USE DEF TypeOK, Phases, Phase, NotForgotten, Accepted, ThroughQueue, callVars
<1>0. NotForgotten(d) /\ Phase(d)
  BY DEF ServedInv
<1>1. ASSUME NEW c \in Calls, Accept(c) PROVE NotForgotten(d)'
  BY <1>0, <1>1 DEF Accept
<1>2. ASSUME NEW c \in Calls, Refuse(c) PROVE NotForgotten(d)'
  BY <1>0, <1>2 DEF Refuse
<1>3. ASSUME NEW c \in Calls, RunInline(c) PROVE NotForgotten(d)'
  BY <1>0, <1>3 DEF RunInline
<1>4. ASSUME NEW c \in Calls, Run(c) PROVE NotForgotten(d)'
  BY <1>0, <1>4 DEF Run, Free
<1>5. ASSUME NEW c \in Calls, Finish(c) PROVE NotForgotten(d)'
  BY <1>0, <1>5 DEF Finish, Answered
<1>6. ASSUME NEW c \in Calls, Return(c) PROVE NotForgotten(d)'
  BY <1>0, <1>6 DEF Return, Answered
<1>7. ASSUME NEW c \in Calls, AnswerOrigin(c) PROVE NotForgotten(d)'
  BY <1>0, <1>7 DEF AnswerOrigin
<1>8. ASSUME NEW c \in Calls, Unblock(c) PROVE NotForgotten(d)'
  BY <1>0, <1>8 DEF Unblock
<1>9. ASSUME NEW t \in Threads, Exit(t) PROVE NotForgotten(d)'
  BY <1>0, <1>9 DEF Exit, Answered
<1>10. CASE UNCHANGED vars
  BY <1>0, <1>10 DEF vars
<1> QED
  BY <1>1, <1>2, <1>3, <1>4, <1>5, <1>6, <1>7, <1>8, <1>9, <1>10 DEF Next

LEMMA WaiterStep ==
  ASSUME TypeOK, Phases, ServedInv, [Next]_vars, NEW d \in Calls
  PROVE  Waiter(d)'
<1> USE DEF TypeOK, Phases, Phase, Waiter, Accepted, ThroughQueue, callVars
<1>0. Waiter(d) /\ Phase(d) /\ NoCall \notin Calls
  BY ProxyingAssumption DEF ServedInv
<1>1. ASSUME NEW c \in Calls, Accept(c) PROVE Waiter(d)'
  BY <1>0, <1>1 DEF Accept, Free, Waits, Blocking
<1>2. ASSUME NEW c \in Calls, Refuse(c) PROVE Waiter(d)'
  BY <1>0, <1>2 DEF Refuse
<1>3. ASSUME NEW c \in Calls, RunInline(c) PROVE Waiter(d)'
  BY <1>0, <1>3 DEF RunInline
<1>4. ASSUME NEW c \in Calls, Run(c) PROVE Waiter(d)'
  BY <1>0, <1>4 DEF Run
<1>5. ASSUME NEW c \in Calls, Finish(c) PROVE Waiter(d)'
  BY <1>0, <1>5 DEF Finish, Answered
<1>6. ASSUME NEW c \in Calls, Return(c) PROVE Waiter(d)'
  BY <1>0, <1>6 DEF Return, Answered
<1>7. ASSUME NEW c \in Calls, AnswerOrigin(c) PROVE Waiter(d)'
  BY <1>0, <1>7 DEF AnswerOrigin
<1>8. ASSUME NEW c \in Calls, Unblock(c) PROVE Waiter(d)'
  BY <1>0, <1>8 DEF Unblock
<1>9. ASSUME NEW t \in Threads, Exit(t) PROVE Waiter(d)'
  BY <1>0, <1>9 DEF Exit, Answered, Free
<1>10. CASE UNCHANGED vars
  BY <1>0, <1>10 DEF vars
<1> QED
  BY <1>1, <1>2, <1>3, <1>4, <1>5, <1>6, <1>7, <1>8, <1>9, <1>10 DEF Next

LEMMA OwnCallStep ==
  ASSUME TypeOK, ServedInv, [Next]_vars, NEW t \in Threads
  PROVE  OwnCall(t)'
<1> USE DEF OwnCall
<1>0. OwnCall(t) /\ UNCHANGED origin
  BY DEF ServedInv, Next, vars, callVars, Accept, Refuse, RunInline, Run, Finish, Return,
         AnswerOrigin, Unblock, Exit
<1>1. CASE UNCHANGED waiting
  BY <1>0, <1>1
<1>2. ASSUME NEW c \in Calls, Accept(c) PROVE OwnCall(t)'
  BY <1>0, <1>2 DEF Accept, TypeOK
<1>3. ASSUME NEW c \in Calls, Unblock(c) PROVE OwnCall(t)'
  BY <1>0, <1>3 DEF Unblock, TypeOK
<1> QED
  BY <1>1, <1>2, <1>3
     DEF Next, vars, Refuse, RunInline, Run, Finish, Return, AnswerOrigin, Exit

LEMMA AnswerStep ==
  ASSUME TypeOK, Phases, [Next]_vars, NEW d \in Calls
  PROVE  AnsweredOnce(d)
<1> USE DEF TypeOK, Phases, Phase, AnsweredOnce
<1>1. ASSUME NEW c \in Calls, Accept(c) \/ Refuse(c) \/ RunInline(c) \/ Run(c)
      PROVE  AnsweredOnce(d)
  BY <1>1 DEF Accept, Refuse, RunInline, Run
<1>2. ASSUME NEW c \in Calls, Finish(c) \/ Return(c) PROVE AnsweredOnce(d)
  BY <1>2 DEF Finish, Return
<1>3. ASSUME NEW c \in Calls, AnswerOrigin(c) \/ Unblock(c) PROVE AnsweredOnce(d)
  BY <1>3 DEF AnswerOrigin, Unblock, Answers
<1>4. ASSUME NEW t \in Threads, Exit(t) PROVE AnsweredOnce(d)
  BY <1>4 DEF Exit
<1>5. CASE UNCHANGED vars
  BY <1>5 DEF vars
<1> QED BY <1>1, <1>2, <1>3, <1>4, <1>5 DEF Next

LEMMA WaitComesNearer ==
  ASSUME TypeOK, Phases, ServedInv, [Next]_vars, NEW d \in Calls
  PROVE  WaitNearer(d)
<1> SUFFICES ASSUME waiting[origin[d]] = d
             PROVE  /\ WaitDistance(d)' <= WaitDistance(d)
                    /\ Serves(d) => WaitDistance(d)' < WaitDistance(d)
  BY DEF WaitNearer
<1>0. /\ Waiter(d) /\ Phase(d) /\ NoCall \notin Calls
      /\ answer[d] \in {"none", "callback", "cancel"} /\ origin[d] \in alive
      /\ kind[d] \in Blocking /\ at[d] \notin {"new", "refused"}
  BY ProxyingAssumption DEF ServedInv, Phases, Waiter, Accepted
<1>1. WaitDistance(d) \in 1..4 /\ WaitDistance(d)' \in 0..4 /\ UNCHANGED <<kind, origin>>
  BY DEF WaitDistance, Next, vars, callVars, Accept, Refuse, RunInline, Run, Finish, Return,
         AnswerOrigin, Unblock, Exit
<1>2. WaitDistance(d)' <= WaitDistance(d)
  <2> USE DEF TypeOK, Phase, WaitDistance, callVars
  <2>1. ASSUME NEW c \in Calls, Accept(c) \/ Refuse(c) \/ RunInline(c)
        PROVE  WaitDistance(d)' <= WaitDistance(d)
    BY <1>0, <1>1, <2>1 DEF Accept, Refuse, RunInline, Free
  <2>2. ASSUME NEW c \in Calls, Run(c) PROVE WaitDistance(d)' <= WaitDistance(d)
    BY <1>0, <1>1, <2>2 DEF Run
  <2>3. ASSUME NEW c \in Calls, Finish(c) PROVE WaitDistance(d)' <= WaitDistance(d)
    BY <1>0, <1>1, <2>3 DEF Finish, Answered
  <2>4. ASSUME NEW c \in Calls, Return(c) PROVE WaitDistance(d)' <= WaitDistance(d)
    BY <1>0, <1>1, <2>4 DEF Return, Answered
  <2>5. ASSUME NEW c \in Calls, AnswerOrigin(c) \/ Unblock(c)
        PROVE  WaitDistance(d)' <= WaitDistance(d)
    BY <1>0, <1>1, <2>5 DEF AnswerOrigin, Unblock
  <2>6. ASSUME NEW t \in Threads, Exit(t) PROVE WaitDistance(d)' <= WaitDistance(d)
    BY <1>0, <1>1, <2>6 DEF Exit, Answered
  <2>7. CASE UNCHANGED vars
    BY <1>0, <1>1, <2>7 DEF vars
  <2> QED BY <2>1, <2>2, <2>3, <2>4, <2>5, <2>6, <2>7 DEF Next
<1>3. ASSUME Unblock(d) PROVE WaitDistance(d)' < WaitDistance(d)
  BY <1>0, <1>1, <1>3 DEF Unblock, WaitDistance, TypeOK
<1>4. ASSUME Run(d), answer[d] = "none" PROVE WaitDistance(d)' < WaitDistance(d)
  BY <1>0, <1>1, <1>4 DEF Run, WaitDistance, TypeOK
<1>5. ASSUME Return(d), answer[d] = "none" PROVE WaitDistance(d)' < WaitDistance(d)
  BY <1>0, <1>1, <1>5 DEF Return, Answered, WaitDistance, TypeOK, Phase
<1>6. ASSUME Finish(d), answer[d] = "none" PROVE WaitDistance(d)' < WaitDistance(d)
  BY <1>0, <1>1, <1>6 DEF Finish, Answered, WaitDistance, TypeOK
<1> QED BY <1>2, <1>3, <1>4, <1>5, <1>6 DEF Serves

(* In every reachable state each accepted call is where somebody will serve it. *)
THEOREM ServedInvariance == Spec => []ServedInv
<1>1. Init => ServedInv
  BY ProxyingAssumption
     DEF Init, ServedInv, NotForgotten, Accepted, Waiter, OwnCall
<1>2. IInv /\ ServedInv /\ [Next]_vars => ServedInv'
  <2> SUFFICES ASSUME IInv, ServedInv, [Next]_vars PROVE ServedInv'
    OBVIOUS
  <2>1. \A c \in Calls : NotForgotten(c)' /\ Waiter(c)'
    BY NotForgottenStep, WaiterStep DEF IInv
  <2>2. \A t \in Threads : OwnCall(t)'
    BY OwnCallStep DEF IInv
  <2> QED BY <2>1, <2>2 DEF ServedInv
<1> QED BY <1>1, <1>2, Invariance, PTL DEF Spec

(* No accepted call is forgotten, whoever exits: until its origin was answered
   it is queued for, or finished by, a thread that is alive.  It is answered
   once, and no step takes a caller that waits further away from its answer. *)
THEOREM NoCallIsForgotten ==
  Spec => /\ [](\A c \in Calls : NotForgotten(c))
          /\ [][\A c \in Calls : AnsweredOnce(c) /\ WaitNearer(c)]_vars
<1> DEFINE Known == \A c \in Calls : NotForgotten(c)
           Moves == \A c \in Calls : AnsweredOnce(c) /\ WaitNearer(c)
<1>1. ServedInv => Known
  BY DEF ServedInv
<1>2. IInv /\ ServedInv /\ [Next]_vars => [Moves]_vars
  BY AnswerStep, WaitComesNearer DEF IInv
<1> HIDE DEF Known, Moves
<1>3. Spec => []Known /\ [][Moves]_vars
  BY <1>1, <1>2, Invariance, ServedInvariance, PTL DEF Spec
<1> QED BY <1>3 DEF Known, Moves

(* Threads that all wait, unanswered, wait for each other. *)
OnlyCircles ==
  (\A t \in alive : waiting[t] # NoCall /\ answer[waiting[t]] = "none") =>
    \A t \in alive : Deadlocked(t)

(* Nothing but a circle of blocking calls stops the threads that are left. *)
THEOREM OnlyCirclesStop == ASSUME IsFiniteSet(Threads) PROVE Spec => []OnlyCircles
<1>1. IInv /\ ServedInv => OnlyCircles
  <2> SUFFICES ASSUME IInv, ServedInv, NEW t \in alive,
                      \A u \in alive : waiting[u] # NoCall /\ answer[waiting[u]] = "none"
               PROVE  Deadlocked(t)
    BY DEF OnlyCircles
  <2>1. alive \subseteq Threads /\ IsFiniteSet(alive)
    BY FS_Subset DEF IInv, TypeOK
  <2>2. \A u \in alive : target[waiting[u]] \in alive /\ target[waiting[u]] # u
    <3> TAKE u \in alive
    <3>1. waiting[u] \in Calls /\ origin[waiting[u]] = u
      BY <2>1 DEF IInv, TypeOK, ServedInv, OwnCall
    <3>2. Waiter(waiting[u]) /\ NotForgotten(waiting[u])
      BY <3>1 DEF ServedInv
    <3> QED BY <3>1, <3>2 DEF Waiter, NotForgotten, Accepted, ThroughQueue
  <2>3. Cardinality(alive) > 1
    <3> DEFINE u == target[waiting[t]]
    <3>1. u \in alive /\ u # t
      BY <2>2
    <3> HIDE DEF u
    <3>2. /\ IsFiniteSet(alive \ {t}) /\ Cardinality(alive \ {t}) = Cardinality(alive) - 1
      BY <2>1, FS_RemoveElement
    <3>3. Cardinality(alive \ {t}) # 0
      BY <3>1, <3>2, FS_EmptySet
    <3>4. Cardinality(alive) \in Nat /\ Cardinality(alive \ {t}) \in Nat
      BY <2>1, <3>2, FS_CardinalityType
    <3> QED BY <3>2, <3>3, <3>4
  <2> QED
    BY <2>1, <2>2, <2>3 DEF Deadlocked
<1> QED BY <1>1, Invariance, ServedInvariance, PTL
=============================================================================
