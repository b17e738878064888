--------------------------- MODULE RawMutexProofs ---------------------------
(***************************************************************************)
(* Proofs about RawMutex for any number of threads: both locks exclude,    *)
(* only a waiter that missed an unlock can be stranded, and the others are *)
(* woken in the order in which they were queued.                           *)
(***************************************************************************)
EXTENDS RawMutex, SequenceTheorems, TLAPS

(* A lock is taken exactly while one thread is inside. *)
LockShape ==
  /\ locked <=> Guards # {}
  /\ \A t, u \in Guards : t = u
  /\ busy <=> InQueue # {}
  /\ \A t, u \in InQueue : t = u

Flags(s) == {s[i] : i \in DOMAIN s}
Once(s) == \A i, j \in DOMAIN s : s[i] = s[j] => i = j

(* A flag is in the queue, or in the hands of one thread that will mark it, or
   marked: it is in one place until its owner is awake again. *)
FlagShape ==
  /\ Once(waiters)
  /\ \A t \in Flags(waiters) : pc[t] = "asleep" /\ t \notin marked
  /\ \A t \in Threads : popped[t] # {} <=> pc[t] = "marking"
  /\ \A t \in Threads : \A u \in popped[t] :
       pc[u] = "asleep" /\ u \notin marked /\ u \notin Flags(waiters)
  /\ \A t, u \in Threads : t # u => popped[t] \intersect popped[u] = {}
  /\ \A t \in Threads :
       pc[t] = "asleep" /\ t \notin marked =>
         t \in Flags(waiters) \/ \E u \in Threads : t \in popped[u]
  /\ \A t \in Threads : pc[t] \in {"queueing", "pushing"} => t \notin marked

Inv == TypeOK /\ LockShape /\ FlagShape /\ StrandedOnlyIfMissed

-----------------------------------------------------------------------------
(* What push_back and pop_front do with the flags. *)
LEMMA AppendFlag ==
  ASSUME NEW S, NEW s \in Seq(S), NEW x \in S, Once(s), x \notin Flags(s)
  PROVE  /\ Append(s, x) \in Seq(S)
         /\ Once(Append(s, x))
         /\ Flags(Append(s, x)) = Flags(s) \union {x}
<1> DEFINE w == Append(s, x)
<1>1. /\ w \in Seq(S) /\ Len(w) = Len(s) + 1 /\ Len(s) \in Nat
      /\ w[Len(s) + 1] = x
      /\ \A i \in 1..Len(s) : w[i] = s[i]
      /\ DOMAIN s = 1..Len(s) /\ DOMAIN w = 1..(Len(s) + 1)
  BY AppendProperties, LenProperties
<1>2. Flags(w) = Flags(s) \union {x}
  <2>1. ASSUME NEW y \in Flags(w) PROVE y \in Flags(s) \union {x}
    BY <1>1, <2>1 DEF Flags
  <2>2. ASSUME NEW i \in DOMAIN s PROVE s[i] \in Flags(w)
    <3>1. i \in DOMAIN w /\ w[i] = s[i]
      BY <1>1
    <3> QED BY <3>1 DEF Flags
  <2>3. x \in Flags(w)
    <3>1. Len(s) + 1 \in DOMAIN w
      BY <1>1
    <3> QED BY <1>1, <3>1 DEF Flags
  <2> QED BY <2>1, <2>2, <2>3 DEF Flags
<1>3. Once(w)
  <2> SUFFICES ASSUME NEW i \in DOMAIN w, NEW j \in DOMAIN w, w[i] = w[j]
               PROVE  i = j
    BY DEF Once
  <2>1. ASSUME NEW k \in 1..Len(s) PROVE w[k] # x /\ w[k] = s[k]
    BY <1>1 DEF Flags
  <2>2. CASE i \in 1..Len(s) /\ j \in 1..Len(s)
    BY <1>1, <2>1, <2>2 DEF Once
  <2>3. CASE i = Len(s) + 1 \/ j = Len(s) + 1
    BY <1>1, <2>1, <2>3
  <2> QED BY <1>1, <2>2, <2>3
<1> QED BY <1>1, <1>2, <1>3

LEMMA PopFlag ==
  ASSUME NEW S, NEW s \in Seq(S), s # <<>>, Once(s)
  PROVE  /\ Head(s) \in Flags(s) /\ Head(s) \in S
         /\ Tail(s) \in Seq(S)
         /\ Once(Tail(s))
         /\ Flags(Tail(s)) = Flags(s) \ {Head(s)}
<1> DEFINE w == Tail(s)
<1>1. /\ w \in Seq(S) /\ Len(s) \in Nat \ {0} /\ Len(w) = Len(s) - 1
      /\ \A i \in 1..Len(w) : w[i] = s[i + 1]
      /\ DOMAIN s = 1..Len(s) /\ DOMAIN w = 1..(Len(s) - 1)
      /\ Head(s) = s[1]
  BY HeadTailProperties, LenProperties, EmptySeq
<1>2. Head(s) \in Flags(s) /\ Head(s) \in S
  <2>1. 1 \in DOMAIN s
    BY <1>1
  <2> QED BY <1>1, <2>1, HeadTailProperties DEF Flags
<1>3. Once(w)
  <2> SUFFICES ASSUME NEW i \in DOMAIN w, NEW j \in DOMAIN w, w[i] = w[j]
               PROVE  i = j
    BY DEF Once
  <2>1. i + 1 \in DOMAIN s /\ j + 1 \in DOMAIN s /\ s[i + 1] = s[j + 1]
    BY <1>1
  <2>2. i + 1 = j + 1
    BY <2>1 DEF Once
  <2> QED BY <1>1, <2>2
<1>4. ASSUME NEW i \in DOMAIN w
      PROVE  w[i] \in Flags(s) /\ w[i] # Head(s)
  <2>1. i + 1 \in DOMAIN s /\ 1 \in DOMAIN s /\ w[i] = s[i + 1] /\ i + 1 # 1
    BY <1>1
  <2> QED BY <1>1, <2>1 DEF Once, Flags
<1>5. ASSUME NEW i \in DOMAIN s, s[i] # Head(s)
      PROVE  s[i] \in Flags(w)
  <2>0. i \in 1..Len(s) /\ i # 1 /\ Len(s) \in Nat
    BY <1>1, <1>5
  <2>1. i - 1 \in DOMAIN w /\ w[i - 1] = s[i]
    <3> HIDE DEF w
    <3>1. i - 1 \in 1..Len(w) /\ (i - 1) + 1 = i
      BY <1>1, <2>0
    <3>2. w[i - 1] = s[(i - 1) + 1] /\ DOMAIN w = 1..Len(w)
      BY <1>1, <3>1
    <3> QED BY <3>1, <3>2
  <2> QED BY <2>1 DEF Flags
<1>6. Flags(w) = Flags(s) \ {Head(s)}
  <2> HIDE DEF w
  <2>1. Flags(w) \subseteq Flags(s) \ {Head(s)}
    BY <1>4 DEF Flags
  <2>2. Flags(s) \ {Head(s)} \subseteq Flags(w)
    BY <1>5 DEF Flags
  <2> QED BY <2>1, <2>2
<1> QED BY <1>1, <1>2, <1>3, <1>6

-----------------------------------------------------------------------------
LEMMA InitInv == Init => Inv
<1> SUFFICES ASSUME Init PROVE Inv
  OBVIOUS
<1>1. <<>> \in Seq(Threads) /\ Flags(<<>>) = {} /\ Once(<<>>)
  BY EmptySeq, LenProperties DEF Flags, Once
<1>2. TypeOK
  BY <1>1 DEF Init, TypeOK, Place
<1>3. LockShape
  BY DEF Init, LockShape, Guards, InQueue
<1>4. FlagShape
  BY <1>1 DEF Init, FlagShape
<1>5. StrandedOnlyIfMissed
  BY DEF Init, StrandedOnlyIfMissed, Waiting
<1> QED BY <1>2, <1>3, <1>4, <1>5 DEF Inv

LEMMA TypeStep ==
  ASSUME Inv, [Next]_vars
  PROVE  TypeOK'
<1> USE DEF TypeOK, Place, Goto
<1>0. TypeOK /\ Once(waiters)
  BY DEF Inv, FlagShape
<1>1. CASE UNCHANGED vars
  BY <1>0, <1>1 DEF vars
<1>2. ASSUME NEW t \in Threads, TryLock(t) \/ Lock(t) \/ Unlock(t)
      PROVE  TypeOK'
  BY <1>0, <1>2 DEF TryLock, Lock, Unlock, Take
<1>3. ASSUME NEW t \in Threads, Acquire(t) \/ FindLocked(t) \/ StartPush(t) \/ Wake(t)
      PROVE  TypeOK'
  BY <1>0, <1>3 DEF Acquire, FindLocked, StartPush, Wake, Take, Spin
<1>4. ASSUME NEW t \in Threads, Push(t)
      PROVE  TypeOK'
  <2>1. waiters' \in Seq(Threads)
    BY <1>0, <1>4, AppendProperties DEF Push, PushBack
  <2> QED BY <1>0, <1>4, <2>1 DEF Push
<1>5. ASSUME NEW t \in Threads, StartPop(t) \/ PopNone(t) \/ Mark(t)
      PROVE  TypeOK'
  <2>1. CASE StartPop(t)
    BY <1>0, <2>1 DEF StartPop, Spin
  <2>2. CASE PopNone(t)
    BY <1>0, <2>2 DEF PopNone
  <2>3. CASE Mark(t)
    BY <1>0, <2>3 DEF Mark, MarkWaiter
  <2> QED BY <1>5, <2>1, <2>2, <2>3
<1>6. ASSUME NEW t \in Threads, Pop(t)
      PROVE  TypeOK'
  <2>1. waiters' \in Seq(Threads) /\ Head(waiters) \in Threads
    BY <1>0, <1>6, PopFlag DEF Pop
  <2> QED BY <1>0, <1>6, <2>1 DEF Pop
<1> QED BY <1>1, <1>2, <1>3, <1>4, <1>5, <1>6 DEF Next, Locking, Unlocking

LEMMA LockStep ==
  ASSUME Inv, [Next]_vars
  PROVE  LockShape'
<1> USE DEF LockShape, Guards, InQueue, Goto
<1>0. TypeOK /\ LockShape
  BY DEF Inv
<1>1. CASE UNCHANGED vars
  BY <1>0, <1>1 DEF vars
<1>2. ASSUME NEW t \in Threads, TryLock(t) \/ Acquire(t) \/ Unlock(t)
      PROVE  LockShape'
  <2>1. busy' = busy /\ InQueue' = InQueue
    BY <1>0, <1>2 DEF TypeOK, TryLock, Acquire, Take, Unlock
  <2>2. CASE TryLock(t) \/ Acquire(t)
    <3>1. Guards = {} /\ Guards' = {t} /\ locked'
      BY <1>0, <2>2 DEF TypeOK, TryLock, Acquire, Take
    <3> QED BY <1>0, <2>1, <3>1
  <2>3. CASE Unlock(t)
    <3>1. Guards' = {} /\ ~locked'
      BY <1>0, <2>3 DEF TypeOK, Unlock
    <3> QED BY <1>0, <2>1, <3>1
  <2> QED BY <1>2, <2>2, <2>3
<1>3. ASSUME NEW t \in Threads, Lock(t) \/ FindLocked(t) \/ Wake(t) \/ Mark(t)
      PROVE  LockShape'
  <2>1. /\ locked' = locked /\ Guards' = Guards
        /\ busy' = busy /\ InQueue' = InQueue
    BY <1>0, <1>3 DEF TypeOK, Lock, FindLocked, Wake, Mark
  <2> QED BY <1>0, <2>1
<1>4. ASSUME NEW t \in Threads,
             StartPush(t) \/ Push(t) \/ StartPop(t) \/ PopNone(t) \/ Pop(t)
      PROVE  LockShape'
  <2>1. locked' = locked /\ Guards' = Guards
    BY <1>0, <1>4 DEF TypeOK, StartPush, Push, StartPop, PopNone, Pop
  <2>2. CASE StartPush(t) \/ StartPop(t)
    <3>1. InQueue = {} /\ InQueue' = {t} /\ busy'
      BY <1>0, <2>2 DEF TypeOK, StartPush, StartPop, Spin
    <3> QED BY <1>0, <2>1, <3>1
  <2>3. CASE Push(t) \/ PopNone(t) \/ Pop(t)
    <3>1. InQueue' = {} /\ ~busy'
      BY <1>0, <2>3 DEF TypeOK, Push, PopNone, Pop
    <3> QED BY <1>0, <2>1, <3>1
  <2> QED BY <1>4, <2>2, <2>3
<1> QED BY <1>1, <1>2, <1>3, <1>4 DEF Next, Locking, Unlocking

-----------------------------------------------------------------------------
LEMMA FlagStep ==
  ASSUME Inv, [Next]_vars
  PROVE  FlagShape'
<1> USE DEF Goto
<1>0. /\ pc \in [Threads -> Place] /\ popped \in [Threads -> SUBSET Threads]
      /\ marked \subseteq Threads /\ waiters \in Seq(Threads)
      /\ FlagShape
  BY DEF Inv, TypeOK
<1>1. CASE UNCHANGED vars
  BY <1>0, <1>1 DEF vars, FlagShape
<1>2. ASSUME NEW t \in Threads,
             \/ TryLock(t) \/ Lock(t) \/ Unlock(t) \/ Acquire(t)
             \/ StartPush(t) \/ Wake(t) \/ StartPop(t) \/ PopNone(t)
      PROVE  FlagShape'
  <2>1. /\ waiters' = waiters /\ popped' = popped /\ marked' = marked
        /\ \A u \in Threads \ {t} : pc'[u] = pc[u]
        /\ pc[t] # "marking" /\ pc'[t] \notin {"asleep", "marking"}
        /\ pc[t] = "asleep" => t \in marked
        /\ pc'[t] \in {"queueing", "pushing"} => pc[t] = "queueing"
    BY <1>0, <1>2
       DEF TryLock, Lock, Unlock, Acquire, StartPush, Wake, StartPop, PopNone, Take
  <2>2. \A u \in Threads : (pc'[u] = "marking" <=> pc[u] = "marking")
    BY <2>1
  <2>3. \A u \in Threads : u \notin marked => (pc'[u] = "asleep" <=> pc[u] = "asleep")
    BY <2>1
  <2>4. Flags(waiters) \subseteq Threads
    BY <1>0, ElementOfSeq DEF Flags
  <2> QED BY <1>0, <2>1, <2>2, <2>3, <2>4 DEF FlagShape
<1>3. ASSUME NEW t \in Threads, FindLocked(t)
      PROVE  FlagShape'
  <2>1. /\ waiters' = waiters /\ popped' = popped /\ marked' = marked \ {t}
        /\ pc' = [pc EXCEPT ![t] = "queueing"] /\ pc[t] = "locking"
    BY <1>3 DEF FindLocked
  <2>2. Flags(waiters) \subseteq Threads
    BY <1>0, ElementOfSeq DEF Flags
  <2> QED BY <1>0, <2>1, <2>2 DEF FlagShape
<1>4. ASSUME NEW t \in Threads, Push(t)
      PROVE  FlagShape'
  <2>1. /\ waiters' = Append(waiters, t) /\ popped' = popped /\ marked' = marked
        /\ pc' = [pc EXCEPT ![t] = "asleep"] /\ pc[t] = "pushing" /\ t \notin marked
    BY <1>0, <1>4 DEF Push, PushBack, FlagShape
  <2>2. t \notin Flags(waiters) /\ \A u \in Threads : t \notin popped[u]
    BY <1>0, <2>1 DEF FlagShape
  <2>3. Once(waiters') /\ Flags(waiters') = Flags(waiters) \union {t}
    BY <1>0, <2>1, <2>2, AppendFlag DEF FlagShape
  <2>4. Flags(waiters) \subseteq Threads
    BY <1>0, ElementOfSeq DEF Flags
  <2>5. \A u \in Threads \ {t} : pc'[u] = pc[u]
    BY <1>0, <2>1
  <2>6. pc'[t] = "asleep"
    BY <1>0, <2>1
  <2> QED BY <1>0, <2>1, <2>2, <2>3, <2>4, <2>5, <2>6 DEF FlagShape
<1>5. ASSUME NEW t \in Threads, Pop(t)
      PROVE  FlagShape'
  <2> DEFINE h == Head(waiters)
  <2>1. /\ waiters # <<>> /\ waiters' = Tail(waiters) /\ marked' = marked
        /\ popped' = [popped EXCEPT ![t] = {h}]
        /\ pc' = [pc EXCEPT ![t] = "marking"] /\ pc[t] = "popping"
    BY <1>5 DEF Pop
  <2>2. /\ h \in Flags(waiters) /\ h \in Threads
        /\ Once(waiters') /\ Flags(waiters') = Flags(waiters) \ {h}
    BY <1>0, <2>1, PopFlag DEF FlagShape
  <2>3. pc[h] = "asleep" /\ h \notin marked /\ h # t
    BY <1>0, <2>1, <2>2 DEF FlagShape
  <2>4. \A u \in Threads : h \notin popped[u]
    BY <1>0, <2>2 DEF FlagShape
  <2>5. popped[t] = {}
    BY <1>0, <2>1 DEF FlagShape
  <2>6. \A u \in Threads : popped'[u] = IF u = t THEN {h} ELSE popped[u]
    BY <1>0, <2>1
  <2>7. \A u \in Threads : pc'[u] = IF u = t THEN "marking" ELSE pc[u]
    BY <1>0, <2>1
  <2>8. Flags(waiters) \subseteq Threads
    BY <1>0, ElementOfSeq DEF Flags
  <2>9. \A u \in Threads : \A v \in popped'[u] :
          pc'[v] = "asleep" /\ v \notin marked' /\ v \notin Flags(waiters')
    BY <1>0, <2>1, <2>2, <2>3, <2>6, <2>7 DEF FlagShape
  <2>10. \A u \in Threads :
           pc'[u] = "asleep" /\ u \notin marked' =>
             u \in Flags(waiters') \/ \E v \in Threads : u \in popped'[v]
    <3> SUFFICES ASSUME NEW u \in Threads, pc'[u] = "asleep", u \notin marked'
                 PROVE  u \in Flags(waiters') \/ \E v \in Threads : u \in popped'[v]
      OBVIOUS
    <3>1. u # t /\ pc[u] = "asleep" /\ u \notin marked
      BY <2>1, <2>7
    <3>2. u \in Flags(waiters) \/ \E v \in Threads : u \in popped[v]
      BY <1>0, <3>1 DEF FlagShape
    <3>3. CASE u = h
      BY <2>6, <3>3
    <3>4. CASE u \in Flags(waiters) /\ u # h
      BY <2>2, <3>4
    <3>5. CASE \E v \in Threads : u \in popped[v]
      BY <2>5, <2>6, <3>5
    <3> QED BY <3>2, <3>3, <3>4, <3>5
  <2>11. \A u, v \in Threads : u # v => popped'[u] \intersect popped'[v] = {}
    BY <1>0, <2>4, <2>6 DEF FlagShape
  <2>12. /\ \A u \in Flags(waiters') : pc'[u] = "asleep" /\ u \notin marked'
         /\ \A u \in Threads : popped'[u] # {} <=> pc'[u] = "marking"
         /\ \A u \in Threads : pc'[u] \in {"queueing", "pushing"} => u \notin marked'
    BY <1>0, <2>1, <2>2, <2>6, <2>7, <2>8 DEF FlagShape
  <2> QED BY <2>2, <2>9, <2>10, <2>11, <2>12 DEF FlagShape
<1>6. ASSUME NEW t \in Threads, Mark(t)
      PROVE  FlagShape'
  <2>1. /\ waiters' = waiters /\ marked' = marked \union popped[t]
        /\ popped' = [popped EXCEPT ![t] = {}]
        /\ pc' = [pc EXCEPT ![t] = "idle"] /\ pc[t] = "marking"
    BY <1>6 DEF Mark, MarkWaiter
  <2>2. \A u \in Threads : popped'[u] = IF u = t THEN {} ELSE popped[u]
    BY <1>0, <2>1
  <2>3. \A u \in Threads : pc'[u] = IF u = t THEN "idle" ELSE pc[u]
    BY <1>0, <2>1
  <2>4. Flags(waiters) \subseteq Threads
    BY <1>0, ElementOfSeq DEF Flags
  <2>5. \A u \in popped[t] : pc[u] = "asleep" /\ u \notin Flags(waiters)
    BY <1>0 DEF FlagShape
  <2>6. /\ Once(waiters')
        /\ \A u \in Flags(waiters') : pc'[u] = "asleep" /\ u \notin marked'
        /\ \A u \in Threads : popped'[u] # {} <=> pc'[u] = "marking"
        /\ \A u, v \in Threads : u # v => popped'[u] \intersect popped'[v] = {}
    BY <1>0, <2>1, <2>2, <2>3, <2>4, <2>5 DEF FlagShape
  <2>7. \A u \in Threads : \A v \in popped'[u] :
          pc'[v] = "asleep" /\ v \notin marked' /\ v \notin Flags(waiters')
    BY <1>0, <2>1, <2>2, <2>3 DEF FlagShape
  <2>8. \A u \in Threads :
          pc'[u] = "asleep" /\ u \notin marked' =>
            u \in Flags(waiters') \/ \E v \in Threads : u \in popped'[v]
    BY <1>0, <2>1, <2>2, <2>3 DEF FlagShape
  <2>9. \A u \in Threads : pc'[u] \in {"queueing", "pushing"} => u \notin marked'
    BY <1>0, <2>1, <2>3, <2>5 DEF FlagShape
  <2> QED BY <2>6, <2>7, <2>8, <2>9 DEF FlagShape
<1> QED BY <1>1, <1>2, <1>3, <1>4, <1>5, <1>6 DEF Next, Locking, Unlocking
-----------------------------------------------------------------------------
LEMMA StrandedStep ==
  ASSUME Inv, [Next]_vars
  PROVE  StrandedOnlyIfMissed'
<1> USE DEF Goto
<1>0. /\ pc \in [Threads -> Place] /\ popped \in [Threads -> SUBSET Threads]
      /\ LockShape /\ FlagShape /\ StrandedOnlyIfMissed
  BY DEF Inv, TypeOK
<1>1. CASE UNCHANGED vars
  BY <1>0, <1>1 DEF vars, StrandedOnlyIfMissed, Waiting, Active
<1>2. ASSUME NEW t \in Threads,
             \/ TryLock(t) \/ Acquire(t) \/ FindLocked(t)
             \/ Lock(t) \/ Wake(t) \/ Unlock(t) \/ StartPop(t) \/ Pop(t)
      PROVE  StrandedOnlyIfMissed'
  <2>1. locked' \/ pc'[t] \in {"locking", "unlocking", "popping", "marking"}
    BY <1>0, <1>2
       DEF TryLock, Acquire, FindLocked, Take, Lock, Wake, Unlock, StartPop, Pop
  <2> QED BY <2>1 DEF StrandedOnlyIfMissed, Active
<1>3. ASSUME NEW t \in Threads, StartPush(t) \/ Push(t)
      PROVE  StrandedOnlyIfMissed'
  <2>1. /\ locked' = locked /\ marked' = marked /\ missed' = missed
        /\ \A u \in Threads \ {t} : pc'[u] = pc[u]
        /\ pc[t] \in {"queueing", "pushing"}
    BY <1>0, <1>3 DEF StartPush, Push
  <2>2. Active => Active'
    BY <2>1 DEF Active
  <2>3. \A u \in Threads : Waiting(u)' => Waiting(u)
    BY <2>1 DEF Waiting
  <2> QED BY <1>0, <2>1, <2>2, <2>3 DEF StrandedOnlyIfMissed
<1>4. ASSUME NEW t \in Threads, PopNone(t)
      PROVE  StrandedOnlyIfMissed'
  <2>1. /\ waiters = <<>> /\ pc[t] = "popping" /\ pc'[t] = "idle"
        /\ marked' = marked
        /\ \A u \in Threads \ {t} : pc'[u] = pc[u]
        /\ missed' = missed \union {u \in Threads : pc[u] = "queueing"}
    BY <1>0, <1>4 DEF PopNone
  <2> SUFFICES ASSUME NEW u \in Threads, Waiting(u)'
               PROVE  Active' \/ u \in missed'
    BY DEF StrandedOnlyIfMissed
  <2>2. u # t /\ Waiting(u)
    BY <2>1 DEF Waiting
  <2>3. CASE pc[u] = "queueing"
    BY <2>1, <2>3
  <2>4. pc[u] # "pushing"
    BY <1>0, <2>1, <2>2 DEF LockShape, InQueue
  <2>5. CASE pc[u] = "asleep" /\ u \notin marked
    <3>1. Flags(waiters) = {}
      BY <2>1 DEF Flags
    <3>2. PICK v \in Threads : u \in popped[v]
      BY <1>0, <2>5, <3>1 DEF FlagShape
    <3>3. pc[v] = "marking" /\ v # t
      BY <1>0, <2>1, <3>2 DEF FlagShape
    <3> QED BY <2>1, <3>3 DEF Active
  <2> QED BY <2>2, <2>3, <2>4, <2>5 DEF Waiting
<1>5. ASSUME NEW t \in Threads, Mark(t)
      PROVE  StrandedOnlyIfMissed'
  <2>1. /\ pc[t] = "marking" /\ marked' = marked \union popped[t]
        /\ \A u \in Threads \ {t} : pc'[u] = pc[u]
    BY <1>0, <1>5 DEF Mark, MarkWaiter
  <2>2. PICK h \in popped[t] : h \in Threads /\ pc[h] = "asleep"
    BY <1>0, <2>1 DEF FlagShape
  <2>3. pc'[h] = "asleep" /\ h \in marked'
    BY <2>1, <2>2
  <2> QED BY <2>2, <2>3 DEF StrandedOnlyIfMissed, Active
<1> QED BY <1>1, <1>2, <1>3, <1>4, <1>5 DEF Next, Locking, Unlocking

(* Every reachable state satisfies the inductive invariant. *)
THEOREM Invariance == Spec => []Inv
<1>1. Inv /\ [Next]_vars => Inv'
  BY TypeStep, LockStep, FlagStep, StrandedStep DEF Inv
<1> QED BY <1>1, InitInv, PTL DEF Spec

-----------------------------------------------------------------------------
(* The variables keep their types. *)
THEOREM TypeCorrect == Spec => []TypeOK
  BY Invariance, PTL DEF Inv

(* However many threads call lock, try_lock and drop their guards, at most one
   guard exists and at most one thread is at the queue. *)
THEOREM BothLocksExclude == Spec => BothExclude
<1>1. Init => Data!Init /\ Queue!Init
  BY DEF Init, Data!Init, Queue!Init, Guards, InQueue
<1>2. ASSUME Inv, [Next]_vars
      PROVE  [Data!Next]_Guards /\ [Queue!Next]_InQueue
  <2> USE DEF Goto
  <2>0. pc \in [Threads -> Place] /\ LockShape
    BY <1>2 DEF Inv, TypeOK
  <2>1. CASE UNCHANGED vars
    BY <2>1 DEF vars, Guards, InQueue
  <2>2. ASSUME NEW t \in Threads, TryLock(t) \/ Acquire(t)
        PROVE  Data!Enter(t) /\ UNCHANGED InQueue
    BY <2>0, <2>2 DEF LockShape, TryLock, Acquire, Take, Guards, InQueue, Data!Enter
  <2>3. ASSUME NEW t \in Threads, Unlock(t)
        PROVE  Data!Leave(t) /\ UNCHANGED InQueue
    BY <2>0, <2>3 DEF LockShape, Unlock, Guards, InQueue, Data!Leave
  <2>4. ASSUME NEW t \in Threads, StartPush(t) \/ StartPop(t)
        PROVE  Queue!Enter(t) /\ UNCHANGED Guards
    BY <2>0, <2>4 DEF LockShape, StartPush, StartPop, Spin, Guards, InQueue, Queue!Enter
  <2>5. ASSUME NEW t \in Threads, Push(t) \/ PopNone(t) \/ Pop(t)
        PROVE  Queue!Leave(t) /\ UNCHANGED Guards
    BY <2>0, <2>5 DEF LockShape, Push, PopNone, Pop, Guards, InQueue, Queue!Leave
  <2>6. ASSUME NEW t \in Threads, Lock(t) \/ FindLocked(t) \/ Wake(t) \/ Mark(t)
        PROVE  UNCHANGED <<Guards, InQueue>>
    BY <2>0, <2>6 DEF Lock, FindLocked, Wake, Mark, Guards, InQueue
  <2> QED
    BY <1>2, <2>1, <2>2, <2>3, <2>4, <2>5, <2>6
       DEF Next, Locking, Unlocking, Data!Next, Queue!Next
<1> QED
  BY <1>1, <1>2, Invariance, PTL DEF Spec, BothExclude, Data!Spec, Queue!Spec

(* The one order of steps that strands a waiter is the push that comes after
   the unlock it waits for. *)
THEOREM OnlyMissedAreStranded == Spec => []StrandedOnlyIfMissed
  BY Invariance, PTL DEF Inv
-----------------------------------------------------------------------------
(***************************************************************************)
(* What QueuedIsWoken needs of the queue of waiters: the flag of a         *)
(* sleeping thread is in one place, and every step that moves it brings    *)
(* its owner nearer to waking.                                             *)
(***************************************************************************)
(* The flag of a sleeping thread is marked, or in the hands of one thread that
   is going to mark it, or at one place in the queue. *)
Placed(t) ==
  \/ t \in marked
  \/ \E u \in Threads : pc[u] = "marking" /\ t \in popped[u]
  \/ \E i \in DOMAIN waiters : waiters[i] = t
FlagPlaced ==
  /\ \A t \in Threads : pc[t] = "asleep" => Placed(t)
  /\ \A i, j \in DOMAIN waiters : waiters[i] = waiters[j] => i = j

Popping == \E u \in Threads : Pop(u)

(* Flags are taken out of the queue in the order in which they were put there,
   and each one that is taken brings those behind it nearer. *)
QueueMovesUp ==
  \A i \in DOMAIN waiters :
    \/ i \in DOMAIN waiters' /\ waiters'[i] = waiters[i] /\ ~Popping
    \/ i > 1 /\ i - 1 \in DOMAIN waiters' /\ waiters'[i - 1] = waiters[i] /\ Popping
    \/ i = 1 /\ \E u \in Threads : Pop(u) /\ popped'[u] = {waiters[i]}

(* Who took a flag out keeps it until it marks it, and a marked flag stays so
   until its owner is awake. *)
PoppedIsMarked ==
  /\ \A u \in Threads :
       popped[u] # {} =>
         popped'[u] = popped[u] \/ (Mark(u) /\ popped[u] \subseteq marked')
  /\ \A t \in marked : pc[t] = "asleep" => t \in marked' /\ (pc'[t] = "asleep" \/ Wake(t))

(* A waiter that is in the queue can not miss an unlock any more. *)
NoneMissedInQueue ==
  \A t \in Threads : pc[t] = "asleep" /\ t \in missed' => t \in missed

LEMMA PlacedAlways == Inv => FlagPlaced
<1> SUFFICES ASSUME Inv PROVE FlagPlaced
  OBVIOUS
<1>1. /\ waiters \in Seq(Threads) /\ popped \in [Threads -> SUBSET Threads]
      /\ FlagShape
  BY DEF Inv, TypeOK
<1>2. ASSUME NEW t \in Threads, pc[t] = "asleep", t \notin marked
      PROVE  Placed(t)
  <2>1. CASE t \in Flags(waiters)
    BY <2>1 DEF Flags, Placed
  <2>2. CASE \E u \in Threads : t \in popped[u]
    <3>1. PICK u \in Threads : t \in popped[u]
      BY <2>2
    <3>2. pc[u] = "marking"
      BY <1>1, <3>1 DEF FlagShape
    <3> QED BY <3>1, <3>2 DEF Placed
  <2> QED BY <1>1, <1>2, <2>1, <2>2 DEF FlagShape
<1> QED BY <1>1, <1>2 DEF FlagPlaced, Placed, FlagShape, Once

(* What a step does to the queue and to the flags that were taken out of it. *)
LEMMA StepsAtTheQueue ==
  ASSUME Inv, Next
  PROVE  \/ waiters' = waiters /\ popped' = popped /\ ~Popping
         \/ ~Popping /\ \E t \in Threads : waiters' = Append(waiters, t) /\ popped' = popped
         \/ ~Popping /\ \E t \in Threads : Mark(t)
         \/ \E t \in Threads : Pop(t)
<1>1. CASE Popping
  BY <1>1 DEF Popping
<1>2. ASSUME NEW t \in Threads, Push(t)
      PROVE  waiters' = Append(waiters, t) /\ popped' = popped
  BY <1>2 DEF Push, PushBack
<1>3. ASSUME NEW t \in Threads,
             \/ TryLock(t) \/ Lock(t) \/ Acquire(t) \/ FindLocked(t) \/ StartPush(t)
             \/ Wake(t) \/ Unlock(t) \/ StartPop(t) \/ PopNone(t)
      PROVE  waiters' = waiters /\ popped' = popped
  BY <1>3 DEF TryLock, Lock, Acquire, FindLocked, StartPush, Wake, Unlock, StartPop, PopNone
<1> QED BY <1>1, <1>2, <1>3 DEF Next, Locking, Unlocking, Popping

LEMMA QueueStep ==
  ASSUME Inv, Next
  PROVE  QueueMovesUp
<1> SUFFICES ASSUME NEW i \in DOMAIN waiters
             PROVE  \/ i \in DOMAIN waiters' /\ waiters'[i] = waiters[i] /\ ~Popping
                    \/ i > 1 /\ i - 1 \in DOMAIN waiters' /\ waiters'[i - 1] = waiters[i] /\ Popping
                    \/ i = 1 /\ \E u \in Threads : Pop(u) /\ popped'[u] = {waiters[i]}
  BY DEF QueueMovesUp
<1>0. /\ waiters \in Seq(Threads) /\ popped \in [Threads -> SUBSET Threads]
      /\ Len(waiters) \in Nat /\ i \in 1..Len(waiters)
  BY LenProperties DEF Inv, TypeOK
<1>1. CASE waiters' = waiters /\ ~Popping
  BY <1>1
<1>2. ASSUME NEW t \in Threads, waiters' = Append(waiters, t)
      PROVE  i \in DOMAIN waiters' /\ waiters'[i] = waiters[i]
  <2>1. /\ waiters' \in Seq(Threads) /\ Len(waiters') = Len(waiters) + 1
        /\ waiters'[i] = waiters[i]
    BY <1>0, <1>2, AppendProperties
  <2> QED BY <1>0, <2>1, LenProperties
<1>3. ASSUME NEW t \in Threads, Mark(t)
      PROVE  waiters' = waiters
  BY <1>3 DEF Mark
<1>4. ASSUME NEW t \in Threads, Pop(t)
      PROVE  \/ i > 1 /\ i - 1 \in DOMAIN waiters' /\ waiters'[i - 1] = waiters[i] /\ Popping
             \/ i = 1 /\ \E u \in Threads : Pop(u) /\ popped'[u] = {waiters[i]}
  <2>1. /\ waiters # <<>> /\ waiters' = Tail(waiters)
        /\ popped' = [popped EXCEPT ![t] = {Head(waiters)}]
    BY <1>4 DEF Pop
  <2>2. /\ Head(waiters) = waiters[1]
        /\ waiters' \in Seq(Threads) /\ Len(waiters') = Len(waiters) - 1
        /\ \A j \in 1..(Len(waiters) - 1) : waiters'[j] = waiters[j + 1]
    BY <1>0, <2>1, HeadTailProperties
  <2>3. CASE i = 1
    <3>1. popped'[t] = {waiters[i]}
      BY <1>0, <2>1, <2>2, <2>3
    <3> QED BY <1>4, <2>3, <3>1
  <2>4. CASE i # 1
    <3>1. i > 1 /\ i - 1 \in 1..(Len(waiters) - 1) /\ (i - 1) + 1 = i
      BY <1>0, <2>4
    <3>2. waiters'[i - 1] = waiters[i] /\ i - 1 \in DOMAIN waiters'
      BY <2>2, <3>1, LenProperties
    <3> QED BY <1>4, <3>1, <3>2 DEF Popping
  <2> QED BY <2>3, <2>4
<1> QED BY <1>1, <1>2, <1>3, <1>4, StepsAtTheQueue

LEMMA MarkStep ==
  ASSUME Inv, Next
  PROVE  PoppedIsMarked
<1>0. /\ pc \in [Threads -> Place] /\ popped \in [Threads -> SUBSET Threads]
      /\ marked \subseteq Threads
      /\ FlagShape
  BY DEF Inv, TypeOK
<1>1. ASSUME NEW u \in Threads, popped[u] # {}
      PROVE  popped'[u] = popped[u] \/ (Mark(u) /\ popped[u] \subseteq marked')
  <2>1. ASSUME NEW t \in Threads, Mark(t)
        PROVE  popped'[u] = popped[u] \/ (Mark(u) /\ popped[u] \subseteq marked')
    <3>1. CASE t = u
      BY <2>1, <3>1 DEF Mark, MarkWaiter
    <3>2. CASE t # u
      BY <1>0, <2>1, <3>2 DEF Mark
    <3> QED BY <3>1, <3>2
  <2>2. ASSUME NEW t \in Threads, Pop(t)
        PROVE  popped'[u] = popped[u]
    <3>1. pc[u] = "marking" /\ pc[t] = "popping"
      BY <1>0, <1>1, <2>2 DEF FlagShape, Pop
    <3> QED BY <1>0, <2>2, <3>1 DEF Pop
  <2> QED BY <2>1, <2>2, StepsAtTheQueue
<1>2. ASSUME NEW s \in marked, pc[s] = "asleep"
      PROVE  s \in marked' /\ (pc'[s] = "asleep" \/ Wake(s))
  <2>1. ASSUME NEW t \in Threads, Wake(t)
        PROVE  s \in marked' /\ (pc'[s] = "asleep" \/ Wake(s))
    BY <1>0, <1>2, <2>1 DEF Wake, Goto
  <2>2. ASSUME NEW t \in Threads,
               TryLock(t) \/ Lock(t) \/ Acquire(t) \/ FindLocked(t) \/ StartPush(t) \/ Push(t)
        PROVE  s \in marked' /\ pc'[s] = "asleep"
    <3>1. pc[t] # "asleep"
      BY <2>2 DEF TryLock, Lock, Acquire, FindLocked, StartPush, Push
    <3>2. s # t /\ s \in Threads
      BY <1>0, <1>2, <3>1
    <3> QED
      BY <1>0, <1>2, <2>2, <3>2
         DEF TryLock, Lock, Acquire, FindLocked, StartPush, Push, Take, Goto
  <2>3. ASSUME NEW t \in Threads,
               Unlock(t) \/ StartPop(t) \/ PopNone(t) \/ Pop(t) \/ Mark(t)
        PROVE  s \in marked' /\ pc'[s] = "asleep"
    <3>1. pc[t] # "asleep"
      BY <2>3 DEF Unlock, StartPop, PopNone, Pop, Mark
    <3>2. s # t /\ s \in Threads
      BY <1>0, <1>2, <3>1
    <3> QED
      BY <1>0, <1>2, <2>3, <3>2
         DEF Unlock, StartPop, PopNone, Pop, Mark, MarkWaiter, Goto
  <2> QED BY <2>1, <2>2, <2>3 DEF Next, Locking, Unlocking
<1> QED BY <1>1, <1>2 DEF PoppedIsMarked

LEMMA MissingStep ==
  ASSUME Inv, Next
  PROVE  NoneMissedInQueue
<1> SUFFICES ASSUME NEW s \in Threads, pc[s] = "asleep", s \in missed'
             PROVE  s \in missed
  BY DEF NoneMissedInQueue
<1>1. ASSUME NEW t \in Threads, PopNone(t)
      PROVE  s \in missed
  BY <1>1 DEF PopNone
<1>2. ASSUME NEW t \in Threads,
             \/ TryLock(t) \/ Lock(t) \/ Locking(t) \/ Unlock(t)
             \/ StartPop(t) \/ Pop(t) \/ Mark(t)
      PROVE  missed' \subseteq missed
  BY <1>2
     DEF TryLock, Lock, Locking, Acquire, FindLocked, StartPush, Push, Wake,
         Unlock, StartPop, Pop, Mark
<1> QED BY <1>1, <1>2 DEF Next, Unlocking

(* sync::Mutex wakes in the order of the queue: each unlock that finds a queue
   brings every waiter one place nearer, none is overtaken, dropped or woken
   for another, and a waiter that is queued can not become stranded later. *)
THEOREM WaitersComeUpInTurn ==
  Spec => []FlagPlaced /\ [][QueueMovesUp /\ PoppedIsMarked /\ NoneMissedInQueue]_vars
<1>1. Inv /\ [Next]_vars => [QueueMovesUp /\ PoppedIsMarked /\ NoneMissedInQueue]_vars
  BY QueueStep, MarkStep, MissingStep
<1> QED BY <1>1, PlacedAlways, Invariance, PTL DEF Spec
=============================================================================
