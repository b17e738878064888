--------------------------- MODULE BlockOnProofs ----------------------------
(***************************************************************************)
(* Proofs about BlockOn for any set of futures and any bounds: typing,     *)
(* the shape of the promise chain, that no wake is lost, that a call by    *)
(* itself takes the steps of a parker, how many promises it leaks, and     *)
(* that the call of a ready future is on its way back.                     *)
(***************************************************************************)
EXTENDS BlockOn, SequenceTheorems, FiniteSetTheorems, TLAPS

(* What creating a promise does to the sequence of promises. *)
LEMMA CreatedPromise ==
  ASSUME NEW s \in Seq(Nat)
  PROVE  LET w == Append(s, Pending)
         IN  /\ w \in Seq(Nat)
             /\ Len(w) = Len(s) + 1
             /\ w[Len(s) + 1] = Pending
             /\ \A q \in 1..Len(s) : w[q] = s[q]
BY AppendProperties, LenProperties DEF Pending

(* What fulfilling p with the next promise does to it. *)
LEMMA FulfilledPromise ==
  ASSUME NEW s \in Seq(Nat), NEW p \in 1..Len(s), NEW n \in Nat
  PROVE  LET w == Append([s EXCEPT ![p] = n], Pending)
         IN  /\ w \in Seq(Nat)
             /\ Len(w) = Len(s) + 1
             /\ w[Len(s) + 1] = Pending
             /\ \A q \in 1..Len(s) : w[q] = IF q = p THEN n ELSE s[q]
<1> DEFINE u == [s EXCEPT ![p] = n]
<1>1. /\ u \in Seq(Nat)
      /\ Len(u) = Len(s)
      /\ \A q \in 1..Len(s) : u[q] = IF q = p THEN n ELSE s[q]
  BY ExceptSeq
<1> HIDE DEF u
<1>2. LET w == Append(u, Pending)
      IN  /\ w \in Seq(Nat)
          /\ Len(w) = Len(u) + 1
          /\ w[Len(u) + 1] = Pending
          /\ \A q \in 1..Len(u) : w[q] = u[q]
  BY <1>1, CreatedPromise
<1> QED BY <1>1, <1>2, LenProperties DEF u

-----------------------------------------------------------------------------
Inv == TypeOK /\ ChainShape /\ WakeUnderway

LEMMA InitInv == Init => Inv
<1> SUFFICES ASSUME Init PROVE Inv
  OBVIOUS
<1> USE BlockOnAssumption DEF Init, Pending
<1>1. /\ <<>> \in Seq(Futures)
      /\ <<>> \in Seq(Nat)
      /\ Len(value) = 0
  BY EmptySeq
<1>2. TypeOK
  BY <1>1 DEF TypeOK, Where
<1>3. ChainShape
  BY <1>1 DEF ChainShape, Active
<1>4. WakeUnderway
  BY DEF WakeUnderway, Innermost, Active
<1> QED BY <1>2, <1>3, <1>4 DEF Inv

(* The steps of others leave the promises and the calls of this thread alone. *)
LEMMA SourceStep ==
  ASSUME TypeOK, ChainShape, WakeUnderway, NEW f \in Futures,
         Fire(f) \/ SpuriousWake(f) \/ Wake(f)
  PROVE  Inv'
<1>1. UNCHANGED <<callVars, chainVars, seen>>
  BY DEF Fire, SpuriousWake, Wake
<1>2. /\ fired' \in [Futures -> 0..Events]
      /\ registered' \in [Futures -> BOOLEAN]
      /\ calls' \in [Futures -> Nat]
      /\ posted' \in [Futures -> Nat]
      /\ spurious' \in 0..MaxSpurious
  <2>0. /\ fired \in [Futures -> 0..Events]
        /\ registered \in [Futures -> BOOLEAN]
        /\ calls \in [Futures -> Nat]
        /\ posted \in [Futures -> Nat]
        /\ spurious \in 0..MaxSpurious
    BY DEF TypeOK
  <2>1. CASE Fire(f)
    <3>1. fired[f] + 1 \in 0..Events
      BY <2>0, <2>1, BlockOnAssumption DEF Fire
    <3>2. (IF registered[f] THEN calls[f] + 1 ELSE calls[f]) \in Nat
      BY <2>0
    <3>3. fired' \in [Futures -> 0..Events] /\ registered' \in [Futures -> BOOLEAN]
      BY <2>0, <2>1, <3>1 DEF Fire
    <3>4. calls' \in [Futures -> Nat]
      BY <2>0, <2>1, <3>2 DEF Fire
    <3> QED BY <2>0, <2>1, <3>3, <3>4 DEF Fire
  <2>2. CASE SpuriousWake(f)
    <3>1. spurious' \in 0..MaxSpurious
      BY <2>0, <2>2, BlockOnAssumption DEF SpuriousWake
    <3>2. calls' \in [Futures -> Nat]
      BY <2>0, <2>2 DEF SpuriousWake
    <3> QED BY <2>0, <2>2, <3>1, <3>2 DEF SpuriousWake
  <2>3. CASE Wake(f)
    <3>1. calls' \in [Futures -> Nat] /\ posted' \in [Futures -> Nat]
      BY <2>0, <2>3 DEF Wake
    <3> QED BY <2>0, <2>3, <3>1 DEF Wake
  <2> QED BY <2>1, <2>2, <2>3
<1>3. TypeOK'
  BY <1>1, <1>2 DEF TypeOK, callVars, chainVars
<1>4. ChainShape'
  BY <1>1 DEF ChainShape, Active, callVars, chainVars
<1>5. WakeUnderway'
  <2> SUFFICES ASSUME NEW g \in Futures, Innermost(g)', (at[g] = "await")'
               PROVE  (/\ seen[g] < fired[g] => ~registered[g]
                       /\ \/ registered[g] \/ calls[g] > 0 \/ posted[g] > 0
                          \/ Fulfilled(g))'
    BY DEF WakeUnderway
  <2>1. Innermost(g) /\ at[g] = "await" /\ (Fulfilled(g)' <=> Fulfilled(g))
    BY <1>1 DEF Innermost, Active, Fulfilled, callVars, chainVars
  <2>2. /\ seen[g] < fired[g] => ~registered[g]
        /\ registered[g] \/ calls[g] > 0 \/ posted[g] > 0 \/ Fulfilled(g)
    BY <2>1 DEF WakeUnderway
  <2>3. /\ seen'[g] = seen[g]
        /\ fired \in [Futures -> 0..Events] /\ registered \in [Futures -> BOOLEAN]
        /\ calls \in [Futures -> Nat] /\ posted \in [Futures -> Nat]
    BY <1>1 DEF TypeOK
  <2> HIDE DEF Fulfilled
  <2>4. CASE Fire(f)
    <3>1. /\ fired' = [fired EXCEPT ![f] = @ + 1]
          /\ registered' = [registered EXCEPT ![f] = FALSE]
          /\ calls' = [calls EXCEPT ![f] = IF registered[f] THEN @ + 1 ELSE @]
          /\ posted' = posted
      BY <2>4 DEF Fire
    <3>2. CASE g = f
      BY <2>1, <2>2, <2>3, <3>1, <3>2
    <3>3. CASE g # f
      BY <2>1, <2>2, <2>3, <3>1, <3>3
    <3> QED BY <3>2, <3>3
  <2>5. CASE SpuriousWake(f)
    BY <2>1, <2>2, <2>3, <2>5 DEF SpuriousWake
  <2>6. CASE Wake(f)
    BY <2>1, <2>2, <2>3, <2>6 DEF Wake
  <2> QED BY <2>4, <2>5, <2>6
<1> QED BY <1>3, <1>4, <1>5 DEF Inv

LEMMA BlockOnStep ==
  ASSUME TypeOK, ChainShape, NEW f \in Futures, BlockOn(f)
  PROVE  Inv'
<1> DEFINE n == Len(value) + 1
<1>1. /\ value \in Seq(Nat) /\ Len(value) \in Nat
      /\ value' = Append(value, Pending)
      /\ current' = n /\ latest' = n
      /\ promise' = [promise EXCEPT ![f] = n]
      /\ root' = [root EXCEPT ![f] = n]
      /\ at' = [at EXCEPT ![f] = "poll"]
      /\ stack' = Append(stack, f)
      /\ owned' = owned \union {n}
      /\ UNCHANGED <<armed, seen, fired, registered, calls, posted, spurious>>
  BY LenProperties DEF BlockOn, StoreEvent, NewPromise, sourceVars, TypeOK
<1>2. /\ value' \in Seq(Nat)
      /\ Len(value') = n
      /\ value'[n] = Pending
      /\ \A q \in 1..Len(value) : value'[q] = value[q]
  BY <1>1, CreatedPromise
<1>3. stack' \in Seq(Futures)
  BY <1>1, AppendProperties DEF TypeOK
<1>4. TypeOK'
  <2>0. /\ 0..Len(value) \subseteq 0..n /\ n \in 0..n
        /\ 1..Len(value) \subseteq 1..n /\ n \in 1..n
    BY <1>1
  <2>1. /\ promise' \in [Futures -> 0..n]
        /\ root' \in [Futures -> 0..n]
        /\ \A g \in Futures : at'[g] # "new" => promise'[g] # Pending
    <3>1. promise \in [Futures -> 0..n] /\ root \in [Futures -> 0..n]
      <4> HIDE DEF n
      <4> QED BY <2>0 DEF TypeOK
    <3>2. \A g \in Futures : at'[g] # "new" => promise'[g] # Pending
      <4>1. /\ at \in [Futures -> Where] /\ promise \in [Futures -> 0..Len(value)]
            /\ \A g \in Futures : at[g] # "new" => promise[g] # Pending
        BY DEF TypeOK
      <4>2. n # Pending
        BY <1>1 DEF Pending
      <4> HIDE DEF n
      <4> QED BY <1>1, <4>1, <4>2
    <3> HIDE DEF n
    <3> QED BY <1>1, <2>0, <3>1, <3>2
  <2>2. owned' \subseteq 1..n /\ armed' \subseteq 1..n
    <3> HIDE DEF n
    <3> QED BY <1>1, <2>0 DEF TypeOK
  <2>3. at' \in [Futures -> Where]
    BY <1>1 DEF TypeOK, Where
  <2> HIDE DEF n
  <2>4. current' \in 0..n /\ latest' \in 0..n
    BY <1>1 DEF n
  <2> QED BY <1>1, <1>2, <1>3, <2>1, <2>2, <2>3, <2>4 DEF TypeOK
<1>5. ChainShape'
  <2>1. ASSUME NEW p \in 1..n
        PROVE  /\ value'[p] \in {Pending, p + 1}
               /\ n <= p /\ p < n => value'[p] = p + 1
               /\ p = n \/ p + 1 = n => value'[p] = Pending
    <3>1. CASE p = n
      BY <1>1, <1>2, <3>1
    <3>2. CASE p # n
      <4>1. p \in 1..Len(value) /\ value'[p] = value[p] /\ ~(n <= p)
        BY <1>1, <1>2, <3>2
      <4>2. value[p] \in {Pending, p + 1}
        BY <4>1 DEF ChainShape
      <4>3. p + 1 = n => value[p] = Pending
        BY <1>1, <4>1 DEF ChainShape
      <4> QED BY <3>2, <4>1, <4>2, <4>3
    <3> QED BY <3>1, <3>2
  <2>2. ASSUME NEW g \in Futures, at'[g] \in {"poll", "await"}
        PROVE  /\ root'[g] \in 1..n
               /\ promise'[g] \in root'[g]..n
               /\ root'[g] = n \/ promise'[g] < n
    <3>1. CASE g = f
      <4>1. promise'[f] = n /\ root'[f] = n
        <5> HIDE DEF n
        <5> QED BY <1>1 DEF TypeOK
      <4> QED BY <1>1, <3>1, <4>1
    <3>2. CASE g # f
      <4>1. g \in Active /\ root'[g] = root[g] /\ promise'[g] = promise[g]
        BY <1>1, <2>2, <3>2 DEF Active, TypeOK
      <4>2. /\ root[g] \in 1..latest /\ latest \in 0..Len(value)
            /\ promise[g] \in root[g]..Len(value)
        BY <4>1 DEF ChainShape, TypeOK
      <4> QED BY <1>1, <4>1, <4>2
    <3> QED BY <3>1, <3>2
  <2> QED BY <1>1, <1>2, <2>1, <2>2 DEF ChainShape, Active
<1>6. WakeUnderway'
  <2>1. ASSUME NEW g \in Futures, Innermost(g)'
        PROVE  at'[g] = "poll"
    BY <1>1, <2>1 DEF Innermost, Active, ChainShape, TypeOK
  <2> QED BY <2>1 DEF WakeUnderway
<1> QED BY <1>4, <1>5, <1>6 DEF Inv

LEMMA PollPendingStep ==
  ASSUME TypeOK, ChainShape, WakeUnderway, NEW f \in Futures, PollPending(f)
  PROVE  Inv'
<1>1. /\ f \in Active
      /\ seen' = [seen EXCEPT ![f] = fired[f]]
      /\ registered' = [registered EXCEPT ![f] = TRUE]
      /\ at' = [at EXCEPT ![f] = "await"]
      /\ UNCHANGED <<stack, root, latest, promise, current, value, owned, armed,
                     fired, calls, posted, spurious>>
  BY DEF PollPending, Running, Active, chainVars
<1>2. TypeOK'
  BY <1>1 DEF TypeOK, Where, Active
<1>3. Active' = Active
  BY <1>1 DEF Active, TypeOK
<1>4. ChainShape'
  BY <1>1, <1>3 DEF ChainShape
<1>5. WakeUnderway'
  <2> SUFFICES ASSUME NEW g \in Futures, Innermost(g)', (at[g] = "await")'
               PROVE  (/\ seen[g] < fired[g] => ~registered[g]
                       /\ \/ registered[g] \/ calls[g] > 0 \/ posted[g] > 0
                          \/ Fulfilled(g))'
    BY DEF WakeUnderway
  <2>0. /\ seen \in [Futures -> 0..Events] /\ fired \in [Futures -> 0..Events]
        /\ registered \in [Futures -> BOOLEAN]
        /\ at \in [Futures -> Where]
    BY DEF TypeOK
  <2>1. CASE g = f
    <3>1. seen'[g] = fired[g] /\ fired[g] \in 0..Events /\ registered'[g]
      BY <1>1, <2>0, <2>1
    <3> QED BY <1>1, <3>1
  <2>2. CASE g # f
    <3>1. /\ seen'[g] = seen[g] /\ registered'[g] = registered[g]
          /\ at'[g] = at[g] /\ Innermost(g) /\ Fulfilled(g)' = Fulfilled(g)
      BY <1>1, <1>3, <2>0, <2>2 DEF Innermost, Fulfilled
    <3> QED BY <1>1, <3>1 DEF WakeUnderway
  <2> QED BY <2>1, <2>2
<1> QED BY <1>2, <1>4, <1>5 DEF Inv

LEMMA PollReadyStep ==
  ASSUME TypeOK, ChainShape, WakeUnderway, NEW f \in Futures, PollReady(f)
  PROVE  Inv'
<1>1. /\ f \in Active
      /\ seen' = [seen EXCEPT ![f] = fired[f]]
      /\ at' = [at EXCEPT ![f] = "returned"]
      /\ stack' = SubSeq(stack, 1, Len(stack) - 1)
      /\ DropPromise(promise[f])
      /\ UNCHANGED <<root, latest, promise, current, value, fired, registered,
                     calls, posted, spurious>>
  BY DEF PollReady, Running, Active, sourceVars
<1>2. stack' \in Seq(Futures)
  <2>1. Len(stack) \in Nat /\ \A i \in 1..(Len(stack) - 1) : stack[i] \in Futures
    BY ElementOfSeq, LenProperties DEF TypeOK
  <2> QED BY <1>1, <2>1, SubSeqProperties
<1>3. /\ owned' \subseteq 1..Len(value)
      /\ armed' \subseteq 1..Len(value)
  <2>1. promise[f] \in 1..Len(value)
    BY <1>1, LenProperties DEF TypeOK, Pending, Active
  <2> QED BY <1>1, <2>1 DEF TypeOK, DropPromise
<1>4. TypeOK'
  BY <1>1, <1>2, <1>3 DEF TypeOK, Where, Active
<1>5. Active' \subseteq Active
  BY <1>1 DEF Active, TypeOK
<1>6. ChainShape'
  BY <1>1, <1>5 DEF ChainShape
<1>7. WakeUnderway'
  BY <1>1, <1>5 DEF WakeUnderway, Innermost, Fulfilled, TypeOK
<1> QED BY <1>4, <1>6, <1>7 DEF Inv

LEMMA ResumeStep ==
  ASSUME TypeOK, ChainShape, WakeUnderway, NEW f \in Futures, Resume(f)
  PROVE  Inv'
<1>1. /\ f \in Active
      /\ promise[f] \in 1..Len(value)
      /\ value[promise[f]] # Pending
      /\ current = Len(value) /\ Len(value) \in Nat
  BY LenProperties DEF TypeOK, ChainShape, Pending, Active, Resume, Fulfilled
<1>2. value[promise[f]] = promise[f] + 1 /\ promise[f] < current
  BY <1>1 DEF ChainShape, Pending
<1>3. /\ promise' = [promise EXCEPT ![f] = promise[f] + 1]
      /\ at' = [at EXCEPT ![f] = "poll"]
      /\ owned' \subseteq owned
      /\ UNCHANGED <<stack, root, latest, current, value, armed, fired,
                     registered, calls, posted, spurious, seen>>
  BY <1>2 DEF Resume, NextPromise, sourceVars
<1>4. TypeOK'
  <2>1. promise[f] + 1 \in 1..Len(value)
    BY <1>1, <1>2
  <2>2. /\ promise' \in [Futures -> 0..Len(value)]
        /\ \A g \in Futures : at'[g] # "new" => promise'[g] # Pending
    <3>1. promise' \in [Futures -> 0..Len(value)]
      <4>1. promise[f] + 1 \in 0..Len(value)
        BY <2>1
      <4> QED BY <1>3, <4>1 DEF TypeOK
    <3>2. ASSUME NEW g \in Futures, at'[g] # "new"
          PROVE  promise'[g] # Pending
      <4>1. CASE g = f
        BY <1>1, <1>3, <4>1 DEF TypeOK, Pending
      <4>2. CASE g # f
        BY <1>3, <3>2, <4>2 DEF TypeOK
      <4> QED BY <4>1, <4>2
    <3> QED BY <3>1, <3>2
  <2>3. at' \in [Futures -> Where]
    BY <1>3 DEF TypeOK, Where
  <2> QED BY <1>3, <2>2, <2>3 DEF TypeOK
<1>5. Active' = Active
  BY <1>1, <1>3 DEF Active, TypeOK
<1>6. ChainShape'
  <2>1. /\ root[f] \in 1..latest /\ latest \in Nat
        /\ promise[f] \in root[f]..current
        /\ root[f] = latest \/ promise[f] < latest
    BY <1>1 DEF ChainShape, TypeOK
  <2>2. root[f] = latest \/ promise[f] + 1 < latest
    <3>1. promise[f] + 1 # latest \/ root[f] = latest
      BY <1>1, <1>2 DEF ChainShape
    <3> QED BY <1>1, <2>1, <3>1
  <2>3. \A g \in Active' : /\ root[g] \in 1..latest
                           /\ promise'[g] \in root[g]..current
                           /\ root[g] = latest \/ promise'[g] < latest
    <3> SUFFICES ASSUME NEW g \in Active
                 PROVE  /\ root[g] \in 1..latest
                        /\ promise'[g] \in root[g]..current
                        /\ root[g] = latest \/ promise'[g] < latest
      BY <1>5
    <3>1. CASE g = f
      <4>1. promise'[f] = promise[f] + 1
        BY <1>1, <1>3 DEF TypeOK, Active
      <4> QED BY <1>1, <1>2, <2>1, <2>2, <3>1, <4>1
    <3>2. CASE g # f
      BY <1>3, <3>2 DEF ChainShape, TypeOK, Active
    <3> QED BY <3>1, <3>2
  <2> QED BY <1>3, <1>5, <2>3 DEF ChainShape
<1>7. WakeUnderway'
  <2> SUFFICES ASSUME NEW g \in Futures, Innermost(g)', (at[g] = "await")'
               PROVE  (/\ seen[g] < fired[g] => ~registered[g]
                       /\ \/ registered[g] \/ calls[g] > 0 \/ posted[g] > 0
                          \/ Fulfilled(g))'
    BY DEF WakeUnderway
  <2>1. g # f /\ at[g] = "await" /\ promise'[g] = promise[g]
    BY <1>3 DEF TypeOK
  <2>2. Innermost(g)
    BY <1>3, <1>5 DEF Innermost
  <2> QED BY <1>3, <2>1, <2>2 DEF WakeUnderway, Fulfilled
<1> QED BY <1>4, <1>6, <1>7 DEF Inv

LEMMA RunWakeStep ==
  ASSUME TypeOK, ChainShape, WakeUnderway, NEW f \in Futures, RunWake(f)
  PROVE  Inv'
<1> DEFINE n == Len(value) + 1
<1>1. /\ posted' \in [Futures -> Nat]
      /\ UNCHANGED <<stack, at, root, latest, promise, armed, fired,
                     registered, calls, spurious, seen>>
  BY DEF RunWake, TypeOK, callVars
<1>2. Active' = Active
  BY <1>1 DEF Active
<1>3. CASE current = Pending
  <2>1. UNCHANGED <<current, value, owned>>
    BY <1>3 DEF RunWake
  <2>2. TypeOK'
    BY <1>1, <2>1 DEF TypeOK
  <2>3. ChainShape'
    BY <1>1, <1>2, <2>1 DEF ChainShape
  <2>4. Active = {}
    BY <1>3 DEF ChainShape, Active, TypeOK, Pending
  <2>5. WakeUnderway'
    BY <1>2, <2>4 DEF WakeUnderway, Innermost
  <2> QED BY <2>2, <2>3, <2>5 DEF Inv
<1>4. CASE current # Pending
  <2>1. /\ current \in 1..Len(value) /\ current = Len(value)
        /\ Len(value) \in Nat /\ n \in Nat /\ value \in Seq(Nat)
        /\ latest \in 0..Len(value)
    BY <1>4, LenProperties DEF TypeOK, ChainShape, Pending
  <2>2. /\ value' = Append([value EXCEPT ![current] = n], Pending)
        /\ current' = n
        /\ owned' \subseteq owned \union {n}
    BY <1>4 DEF RunWake, Fulfil, StoreEvent, NewPromise
  <2>3. /\ value' \in Seq(Nat)
        /\ Len(value') = n
        /\ value'[n] = Pending
        /\ \A q \in 1..Len(value) :
             value'[q] = IF q = current THEN n ELSE value[q]
    BY <2>1, <2>2, FulfilledPromise
  <2>4. TypeOK'
    <3>0. /\ 0..Len(value) \subseteq 0..n
          /\ 1..Len(value) \subseteq 1..n /\ n \in 1..n
      BY <2>1
    <3>1. /\ promise \in [Futures -> 0..n]
          /\ root \in [Futures -> 0..n]
          /\ latest \in 0..n
      <4> HIDE DEF n
      <4> QED BY <3>0 DEF TypeOK
    <3>2. owned' \subseteq 1..n /\ armed \subseteq 1..n
      <4> HIDE DEF n
      <4> QED BY <2>2, <3>0 DEF TypeOK
    <3>3. current' \in 0..n
      BY <2>1, <2>2
    <3> QED BY <1>1, <2>3, <3>1, <3>2, <3>3 DEF TypeOK
  <2>5. ChainShape'
    <3>1. ASSUME NEW p \in 1..n
          PROVE  /\ value'[p] \in {Pending, p + 1}
                 /\ latest <= p /\ p < n => value'[p] = p + 1
                 /\ p = n \/ p + 1 = latest => value'[p] = Pending
      <4>0. latest \in 0..current
        BY <2>1 DEF TypeOK
      <4>1. CASE p = n
        BY <2>1, <2>3, <4>1
      <4>2. CASE p = current
        BY <2>1, <2>3, <4>0, <4>2
      <4>3. CASE p \in 1..(current - 1)
        <5>1. /\ value[p] \in {Pending, p + 1}
              /\ latest <= p => value[p] = p + 1
              /\ p + 1 = latest => value[p] = Pending
          BY <2>1, <4>3 DEF ChainShape
        <5>2. value'[p] = value[p]
          <6>1. p \in 1..Len(value) /\ p # current
            BY <2>1, <4>3
          <6> QED BY <2>3, <6>1
        <5> QED BY <2>1, <4>0, <4>3, <5>1, <5>2
      <4> QED BY <2>1, <4>1, <4>2, <4>3
    <3>2. ASSUME NEW g \in Active
          PROVE  /\ root[g] \in 1..latest
                 /\ promise[g] \in root[g]..n
                 /\ root[g] = latest \/ promise[g] < latest
      <4>1. /\ root[g] \in 1..latest /\ promise[g] \in root[g]..current
            /\ root[g] = latest \/ promise[g] < latest
        BY DEF ChainShape
      <4> QED BY <2>1, <4>1
    <3> QED BY <1>1, <1>2, <2>2, <2>3, <3>1, <3>2 DEF ChainShape
  <2>6. WakeUnderway'
    <3>1. ASSUME NEW g \in Futures, Innermost(g)
          PROVE  Fulfilled(g)'
      <4>1. promise[g] \in latest..Len(value) /\ promise[g] \in 1..Len(value)
        <5>1. /\ root[g] \in 1..latest /\ promise[g] \in root[g]..current
              /\ root[g] = latest
          BY <3>1 DEF Innermost, ChainShape
        <5> QED BY <2>1, <5>1
      <4>2. value'[promise[g]] = promise[g] + 1
        <5>1. CASE promise[g] = current
          BY <2>1, <2>3, <4>1, <5>1
        <5>2. CASE promise[g] # current
          <6>1. value'[promise[g]] = value[promise[g]]
            BY <2>1, <2>3, <4>1, <5>2
          <6>2. latest <= promise[g] /\ promise[g] < current
            BY <2>1, <4>1, <5>2 DEF TypeOK
          <6> QED BY <4>1, <6>1, <6>2 DEF ChainShape
        <5> QED BY <5>1, <5>2
      <4> QED BY <1>1, <2>1, <4>1, <4>2 DEF Fulfilled, Pending
    <3>2. ASSUME NEW g \in Futures, Innermost(g)', (at[g] = "await")'
          PROVE  Innermost(g) /\ at[g] = "await" /\ UNCHANGED <<seen, fired, registered>>
      BY <1>1, <1>2, <3>2 DEF Innermost
    <3> QED BY <3>1, <3>2 DEF WakeUnderway
  <2> QED BY <2>4, <2>5, <2>6 DEF Inv
<1> QED BY <1>3, <1>4

LEMMA NextInv == Inv /\ [Next]_vars => Inv'
<1> SUFFICES ASSUME Inv, [Next]_vars PROVE Inv'
  OBVIOUS
<1>1. CASE Next
  <2>1. PICK f \in Futures :
          \/ BlockOn(f) \/ PollPending(f) \/ PollReady(f) \/ Resume(f)
          \/ RunWake(f) \/ Fire(f) \/ SpuriousWake(f) \/ Wake(f)
    BY <1>1 DEF Next
  <2> QED BY <2>1, BlockOnStep, PollPendingStep, PollReadyStep, ResumeStep,
             RunWakeStep, SourceStep DEF Inv
<1>2. CASE UNCHANGED vars
  BY <1>2 DEF vars, callVars, chainVars, sourceVars, Inv, TypeOK, ChainShape,
              WakeUnderway, Innermost, Active, Fulfilled
<1> QED BY <1>1, <1>2

-----------------------------------------------------------------------------
(* The inductive invariant holds in every reachable state. *)
THEOREM Invariance == Spec => []Inv
BY InitInv, NextInv, PTL DEF Spec

(* In every state of block_on the variables have their types: in particular
   a call only ever goes on with a promise that exists. *)
THEOREM TypeCorrect == Spec => []TypeOK
<1>1. Inv => TypeOK
  BY DEF Inv
<1> QED BY <1>1, Invariance, PTL

(* No wake is lost: a suspended call whose future saw fewer events than have
   happened has a wake on its way or may already go on. *)
THEOREM NoWakeIsLost == Spec => []NoLostWake
<1>1. Inv => NoLostWake
  BY DEF Inv, WakeUnderway, NoLostWake
<1> QED BY <1>1, Invariance, PTL

(* A call is reachable by wakes exactly when no later call was begun. *)
THEOREM OnlyTheLatestIsReached == Spec => []ChainReachesCurrent
<1>1. Inv => ChainReachesCurrent
  <2> SUFFICES ASSUME Inv, NEW f \in Active
               PROVE  (current \in Reach(promise[f])) <=> Innermost(f)
    BY DEF ChainReachesCurrent
  <2>1. /\ Len(value) \in Nat /\ current = Len(value)
        /\ root[f] \in 1..latest /\ latest \in 0..current
        /\ promise[f] \in root[f]..current
        /\ root[f] = latest \/ promise[f] < latest
    BY LenProperties DEF Inv, TypeOK, ChainShape
  <2>2. CASE root[f] = latest
    BY <2>1, <2>2 DEF Inv, ChainShape, Reach, Innermost
  <2>3. CASE root[f] # latest
    <3>1. latest - 1 \in promise[f]..(current - 1) /\ latest - 1 \in 1..Len(value)
      BY <2>1, <2>3
    <3>2. value[latest - 1] = Pending
      BY <2>1, <3>1 DEF Inv, ChainShape
    <3> QED BY <2>1, <2>3, <3>1, <3>2 DEF Reach, Innermost, Pending
  <2> QED BY <2>2, <2>3
<1> QED BY <1>1, Invariance, PTL

-----------------------------------------------------------------------------
(* Without nesting the only call is the latest one. *)
Alone ==
  /\ Len(stack) <= 1
  /\ stack # <<>> => Top \in Active /\ root[Top] = latest

(* A number between 1 and 1. *)
LEMMA JustOne == ASSUME NEW n \in Nat, n # 0, n <= 1 PROVE n = 1
  OBVIOUS

LEMMA AloneInit == Init => Alone
  BY EmptySeq DEF Init, Alone

LEMMA AloneStep == MaxDepth = 1 /\ Inv /\ Alone /\ [Next]_vars => Alone'
<1> SUFFICES ASSUME MaxDepth = 1, Inv, Alone, [Next]_vars PROVE Alone'
  OBVIOUS
<1>0. /\ stack \in Seq(Futures) /\ Len(stack) \in Nat /\ at \in [Futures -> Where]
      /\ root \in [Futures -> 0..Len(value)]
  BY LenProperties DEF Inv, TypeOK
<1>1. stack # <<>> => Len(stack) = 1 /\ Top = stack[1] /\ Top \in Futures
  <2> SUFFICES ASSUME stack # <<>>
               PROVE  Len(stack) = 1 /\ Top = stack[1] /\ Top \in Futures
    OBVIOUS
  <2>1. Len(stack) # 0
    BY <1>0, EmptySeq, ZenonT(30)
  <2>2. Len(stack) = 1
    <3>1. Len(stack) <= 1
      BY DEF Alone
    <3>2. Len(stack) \in Nat
      BY <1>0
    <3> QED BY <2>1, <3>1, <3>2, JustOne
  <2> QED BY <1>0, <2>2, ElementOfSeq DEF Top
<1>2. ASSUME NEW f \in Futures, BlockOn(f) PROVE Alone'
  <2>1. Len(stack) = 0
    BY <1>0, <1>2 DEF BlockOn
  <2>2. stack' = Append(stack, f) /\ Len(stack') = 1 /\ stack'[1] = f
    BY <1>0, <1>2, <2>1, AppendProperties DEF BlockOn
  <2>3. Top' = f
    BY <2>2 DEF Top
  <2>4. at'[f] = "poll" /\ root'[f] = latest'
    BY <1>0, <1>2 DEF BlockOn
  <2> QED BY <2>2, <2>3, <2>4 DEF Alone, Active
<1>3. ASSUME NEW f \in Futures, PollReady(f) PROVE Alone'
  <2>1. Len(stack) = 1
    BY <1>1, <1>3 DEF PollReady, Running
  <2>2. stack' = SubSeq(stack, 1, 0)
    BY <1>3, <2>1 DEF PollReady
  <2>3. stack' = <<>>
    BY <1>0, <2>2, SubSeqProperties, EmptySeq
  <2> QED BY <2>3, EmptySeq DEF Alone
<1>4. ASSUME NEW f \in Futures, PollPending(f) \/ Resume(f) PROVE Alone'
  <2>1. UNCHANGED <<stack, root, latest>> /\ Top = f /\ at'[f] \in {"poll", "await"}
    BY <1>0, <1>4 DEF PollPending, Resume, Running
  <2>2. Top' = Top
    BY <2>1 DEF Top
  <2> QED BY <2>1, <2>2 DEF Alone, Active
<1>5. ASSUME UNCHANGED callVars PROVE Alone'
  <2>1. Top' = Top /\ UNCHANGED <<stack, at, root, latest>>
    BY <1>5 DEF Top, callVars
  <2> QED BY <2>1 DEF Alone, Active
<1>6. ASSUME NEW f \in Futures, RunWake(f) \/ Fire(f) \/ SpuriousWake(f) \/ Wake(f)
      PROVE  Alone'
  BY <1>5, <1>6 DEF RunWake, Fire, SpuriousWake, Wake
<1>7. CASE UNCHANGED vars
  BY <1>5, <1>7 DEF vars
<1> QED BY <1>2, <1>3, <1>4, <1>6, <1>7 DEF Next

(* A permit is a link of the chain between the promise that the call awaits
   and the newest one. *)
PermitShape ==
  stack # <<>> =>
    /\ Top \in Futures /\ current \in Nat /\ current = Len(value)
    /\ promise[Top] \in 1..current /\ latest \in 1..promise[Top]
    /\ Permits = current - promise[Top]

(* Counting the promises of the chain behind the awaited one. *)
LEMMA PermitsAreLinks == Inv /\ Alone => PermitShape
<1> SUFFICES ASSUME Inv, Alone, stack # <<>>
             PROVE  /\ Top \in Futures /\ current \in Nat /\ current = Len(value)
                    /\ promise[Top] \in 1..current /\ latest \in 1..promise[Top]
                    /\ Permits = current - promise[Top]
  BY DEF PermitShape
<1>1. /\ Top \in Active /\ Top \in Futures /\ root[Top] = latest
      /\ Len(value) \in Nat /\ current = Len(value)
      /\ latest \in 1..current /\ promise[Top] \in latest..current
  <2>1. Len(value) \in Nat /\ latest \in 0..Len(value)
    BY LenProperties DEF Inv, TypeOK
  <2> QED BY <2>1 DEF Alone, Active, Inv, ChainShape
<1>2. Reach(promise[Top]) = promise[Top]..current
  BY <1>1 DEF Reach, Inv, ChainShape
<1>3. Cardinality(promise[Top]..current) = current - promise[Top] + 1
  <2>1. promise[Top] \in Int /\ current \in Int /\ ~(promise[Top] > current)
    BY <1>1
  <2>2. Cardinality(promise[Top]..current) =
          IF promise[Top] > current THEN 0 ELSE current - promise[Top] + 1
    BY <2>1, FS_Interval
  <2> QED BY <2>1, <2>2
<1>4. Permits = current - promise[Top]
  BY <1>1, <1>2, <1>3 DEF Permits
<1> QED BY <1>1, <1>4

LEMMA ParkerInit == Init => P!Init
  BY DEF Init, P!Init, Phase, Permits

(* Each step of a call is one of the parker's, or a stutter. *)
LEMMA ParkerStep ==
  ASSUME MaxDepth = 1, Inv, Alone, PermitShape, PermitShape', [Next]_vars
  PROVE  [P!Next]_P!vars
<1>0. stack # <<>> => at[Top] \in {"poll", "await"}
  BY DEF Alone, Active
<1> DEFINE Same == UNCHANGED <<stack, at, promise, value>>
<1>1. ASSUME Same PROVE UNCHANGED P!vars
  <2>1. Top' = Top
    BY <1>1 DEF Top
  <2>2. Phase' = Phase
    BY <1>1, <2>1 DEF Phase
  <2>3. Reach(promise[Top])' = Reach(promise[Top])
    BY <1>1, <2>1 DEF Reach
  <2>4. Permits' = Permits
    BY <1>1, <2>3 DEF Permits
  <2> QED BY <2>2, <2>4 DEF P!vars
<1>2. ASSUME NEW f \in Futures, BlockOn(f) PROVE P!Enter
  <2>1. stack = <<>>
    BY <1>2, EmptySeq, LenProperties DEF BlockOn, Inv, TypeOK
  <2>2. stack' = Append(stack, f) /\ stack' # <<>>
    BY <1>2, <2>1, AppendProperties DEF BlockOn, Inv, TypeOK
  <2>3. Top' = f
    BY <2>1, <2>2, AppendProperties DEF Top, Inv, TypeOK
  <2>4. at'[f] = "poll" /\ promise'[f] = current' /\ current' = NewPromise
    BY <1>2 DEF BlockOn, StoreEvent, Inv, TypeOK
  <2>5. Permits' = 0
    BY <2>2, <2>3, <2>4 DEF PermitShape
  <2> QED BY <2>1, <2>2, <2>3, <2>4, <2>5 DEF P!Enter, Phase
<1>3. ASSUME NEW f \in Futures, PollPending(f) PROVE P!Park
  <2>1. stack # <<>> /\ stack' = stack /\ Top = f /\ Top' = f /\ at[f] = "poll"
        /\ at'[f] = "await" /\ UNCHANGED <<promise, value>>
    BY <1>3 DEF PollPending, Running, chainVars, Inv, TypeOK, Top
  <2>2. Reach(promise[Top])' = Reach(promise[Top])
    BY <2>1 DEF Reach
  <2>3. Permits' = Permits
    BY <2>1, <2>2 DEF Permits
  <2> QED BY <2>1, <2>3 DEF P!Park, Phase
<1>4. ASSUME NEW f \in Futures, PollReady(f) PROVE P!Leave
  <2>1. stack # <<>> /\ Top = f /\ at[f] = "poll"
    BY <1>4 DEF PollReady, Running
  <2>2. Len(stack) = 1 /\ stack \in Seq(Futures)
    <3>1. stack \in Seq(Futures)
      BY DEF Inv, TypeOK
    <3>2. Len(stack) \in Nat \ {0}
      BY <2>1, <3>1, EmptySeq
    <3>3. Len(stack) <= 1
      BY DEF Alone
    <3> QED BY <3>1, <3>2, <3>3, JustOne
  <2>3. stack' = SubSeq(stack, 1, 0)
    BY <1>4, <2>2 DEF PollReady
  <2>4. stack' = <<>>
    BY <2>2, <2>3, SubSeqEmpty
  <2> QED BY <2>1, <2>4 DEF P!Leave, Phase, Permits
<1>5. ASSUME NEW f \in Futures, Resume(f) PROVE P!Wakeup
  <2>1. /\ stack # <<>> /\ stack' = stack /\ Top = f /\ Top' = f /\ at[f] = "await"
        /\ at'[f] = "poll" /\ UNCHANGED <<value, current>>
        /\ value[promise[f]] # Pending /\ promise'[f] = value[promise[f]]
    BY <1>5 DEF Resume, Fulfilled, NextPromise, Inv, TypeOK, Top
  <2>2. promise[f] \in 1..current /\ current \in Nat /\ current = Len(value)
        /\ Permits = current - promise[f] /\ Permits' = current - promise'[f]
    BY <2>1 DEF PermitShape
  <2>3. promise'[f] = promise[f] + 1 /\ promise[f] # current
    BY <2>1, <2>2 DEF Inv, ChainShape
  <2>4. Permits > 0 /\ Permits' = Permits - 1
    BY <2>2, <2>3
  <2> QED BY <2>1, <2>4 DEF P!Wakeup, Phase
<1>6. ASSUME NEW f \in Futures, RunWake(f) PROVE P!Unpark \/ UNCHANGED P!vars
  <2>1. UNCHANGED <<stack, at, promise>> /\ Top' = Top
    BY <1>6 DEF RunWake, callVars, Top
  <2>2. CASE stack = <<>>
    BY <2>1, <2>2 DEF P!vars, Phase, Permits
  <2>3. CASE stack # <<>>
    <3>1. current # Pending /\ at[Top] # "poll"
      BY <1>6, <2>3 DEF PermitShape, Pending, RunWake, AtEventLoop
    <3>2. current' = current + 1
      BY <1>6, <2>3, <3>1 DEF RunWake, StoreEvent, NewPromise, PermitShape
    <3>3. /\ promise[Top] \in Nat /\ current \in Nat
          /\ Permits = current - promise[Top]
          /\ Permits' = current' - promise[Top]
      BY <2>1, <2>3 DEF PermitShape
    <3>4. Permits' = Permits + 1
      BY <3>2, <3>3
    <3> QED BY <2>1, <2>3, <3>1, <3>4 DEF P!Unpark, Phase
  <2> QED BY <2>2, <2>3
<1>7. ASSUME NEW f \in Futures, Fire(f) \/ SpuriousWake(f) \/ Wake(f)
      PROVE  UNCHANGED P!vars
  BY <1>1, <1>7 DEF Fire, SpuriousWake, Wake, callVars, chainVars
<1>8. CASE UNCHANGED vars
  BY <1>1, <1>8 DEF vars, callVars, chainVars
<1> QED BY <1>2, <1>3, <1>4, <1>5, <1>6, <1>7, <1>8 DEF Next, P!Next

(* One call of block_on at a time is a parker, as far as its steps go: a wake
   that finds the call is one permit, and each permit one poll. *)
THEOREM OneCallIsAParker ==
  ASSUME MaxDepth = 1
  PROVE  Spec => P!Init /\ [][P!Next]_P!vars
<1>1. Init => P!Init
  BY ParkerInit
<1>2. Init => Alone
  BY AloneInit
<1>3. Inv /\ Alone /\ [Next]_vars => Alone'
  BY AloneStep
<1>4. Inv /\ Alone => PermitShape
  BY PermitsAreLinks
<1>5. Inv /\ Alone /\ PermitShape /\ PermitShape' /\ [Next]_vars => [P!Next]_P!vars
  BY ParkerStep
<1> QED BY <1>1, <1>2, <1>3, <1>4, <1>5, Invariance, PTL DEF Spec

-----------------------------------------------------------------------------
(* What is counted for LeakBound: the wakes under way, one token each; the
   futures that hold a waker; the promises that were dropped un-awaited and
   then fulfilled, which free the next. *)
Tokens(count) == {t \in Futures \X Nat : t[2] \in 1..count[t[1]]}
Holding == {f \in Futures : registered[f]}
Used == {p \in armed : value[p] # Pending}
Waiting == IF stack # <<>> /\ at[Top] = "await" THEN 1 ELSE 0

(* Every promise that is left behind, every one that freed the next, every
   permit and every wake under way or to come was paid for by a spurious wake,
   apart from the one wake that a suspended call is waiting for. *)
Budget ==
  Cardinality(Leaked) + Cardinality(Used) + Permits + Cardinality(Tokens(calls))
    + Cardinality(Tokens(posted)) + Cardinality(Holding) <= spurious + Waiting

(* The first promise after a returned call is freed by the drop of the last
   that it awaited; only those after it can be left behind. *)
LeaksFollow ==
  /\ Leaked # {} => Used # {}
  /\ stack = <<>> /\ current # Pending /\ current \notin armed => Used # {}

(* Without nesting, only the call on the stack is polled or suspended, and
   promises dropped un-awaited are older than its first. *)
OnlyTop == \A f \in Active : stack # <<>> /\ f = Top
ArmedBefore == stack # <<>> => \A p \in armed : p < latest
Countable ==
  IsFiniteSet(Tokens(calls)) /\ IsFiniteSet(Tokens(posted)) /\ IsFiniteSet(Holding)

LeakInv == OnlyTop /\ ArmedBefore /\ Countable /\ LeaksFollow /\ Budget

(* One more wake is one more token, one less is one less. *)
LEMMA TokenAdded ==
  ASSUME NEW c \in [Futures -> Nat], NEW f \in Futures
  PROVE  LET d == [c EXCEPT ![f] = @ + 1]
         IN  /\ Tokens(d) = Tokens(c) \union {<<f, c[f] + 1>>}
             /\ <<f, c[f] + 1>> \notin Tokens(c)
<1> DEFINE d == [c EXCEPT ![f] = @ + 1]
<1>1. /\ d \in [Futures -> Nat] /\ d[f] = c[f] + 1 /\ c[f] \in Nat
      /\ \A g \in Futures : g # f => d[g] = c[g]
  OBVIOUS
<1> HIDE DEF d
<1>2. ASSUME NEW g \in Futures, NEW n \in Nat
      PROVE  <<g, n>> \in Tokens(d) <=> <<g, n>> \in Tokens(c) \/ (g = f /\ n = c[f] + 1)
  <2>1. /\ <<g, n>> \in Tokens(d) <=> n \in 1..d[g]
        /\ <<g, n>> \in Tokens(c) <=> n \in 1..c[g]
    BY DEF Tokens
  <2> QED BY <1>1, <2>1
<1>3. Tokens(d) \subseteq Futures \X Nat /\ Tokens(c) \subseteq Futures \X Nat
  BY DEF Tokens
<1>4. <<f, c[f] + 1>> \in Futures \X Nat
  BY <1>1
<1>5. Tokens(d) = Tokens(c) \union {<<f, c[f] + 1>>}
  BY <1>1, <1>2, <1>3, <1>4
<1>6. <<f, c[f] + 1>> \notin Tokens(c)
  BY <1>1 DEF Tokens
<1> QED BY <1>5, <1>6 DEF d

LEMMA TokenRemoved ==
  ASSUME NEW c \in [Futures -> Nat], NEW f \in Futures, c[f] > 0
  PROVE  LET d == [c EXCEPT ![f] = @ - 1]
         IN  /\ Tokens(d) = Tokens(c) \ {<<f, c[f]>>}
             /\ <<f, c[f]>> \in Tokens(c)
<1> DEFINE d == [c EXCEPT ![f] = @ - 1]
<1>1. d \in [Futures -> Nat] /\ c = [d EXCEPT ![f] = @ + 1] /\ d[f] + 1 = c[f]
  <2>1. d \in [Futures -> Nat] /\ d[f] = c[f] - 1
    OBVIOUS
  <2>2. [d EXCEPT ![f] = @ + 1] \in [Futures -> Nat]
    BY <2>1
  <2>3. \A g \in Futures : [d EXCEPT ![f] = @ + 1][g] = c[g]
    BY <2>1
  <2> HIDE DEF d
  <2>4. c = [d EXCEPT ![f] = @ + 1]
    BY <2>2, <2>3
  <2> QED BY <2>1, <2>4
<1> HIDE DEF d
<1>2. /\ Tokens(c) = Tokens(d) \union {<<f, c[f]>>}
      /\ <<f, c[f]>> \notin Tokens(d)
  BY <1>1, TokenAdded
<1>3. Tokens(d) = Tokens(c) \ {<<f, c[f]>>} /\ <<f, c[f]>> \in Tokens(c)
  BY <1>2
<1> QED BY <1>3 DEF d

(* The same as numbers. *)
LEMMA OneTokenMore ==
  ASSUME NEW c \in [Futures -> Nat], NEW f \in Futures, IsFiniteSet(Tokens(c))
  PROVE  LET d == [c EXCEPT ![f] = @ + 1]
         IN  IsFiniteSet(Tokens(d)) /\ Cardinality(Tokens(d)) = Cardinality(Tokens(c)) + 1
<1> DEFINE d == [c EXCEPT ![f] = @ + 1]
           t == <<f, c[f] + 1>>
<1>1. Tokens(d) = Tokens(c) \union {t} /\ t \notin Tokens(c)
  BY TokenAdded
<1> HIDE DEF d, t
<1>2. IsFiniteSet(Tokens(d)) /\ Cardinality(Tokens(d)) = Cardinality(Tokens(c)) + 1
  BY <1>1, FS_AddElement
<1> QED BY <1>2 DEF d

LEMMA OneTokenLess ==
  ASSUME NEW c \in [Futures -> Nat], NEW f \in Futures, c[f] > 0, IsFiniteSet(Tokens(c))
  PROVE  LET d == [c EXCEPT ![f] = @ - 1]
         IN  IsFiniteSet(Tokens(d)) /\ Cardinality(Tokens(d)) = Cardinality(Tokens(c)) - 1
<1> DEFINE d == [c EXCEPT ![f] = @ - 1]
           t == <<f, c[f]>>
<1>1. Tokens(d) = Tokens(c) \ {t} /\ t \in Tokens(c)
  BY TokenRemoved
<1> HIDE DEF d, t
<1>2. IsFiniteSet(Tokens(d)) /\ Cardinality(Tokens(d)) = Cardinality(Tokens(c)) - 1
  BY <1>1, FS_RemoveElement
<1> QED BY <1>2 DEF d

(* What is left behind, without nesting. *)
LeakedIs ==
  /\ stack = <<>> => Leaked = owned
  /\ stack # <<>> => Leaked = owned \ (promise[Top]..current)

(* Without nesting, the promises from the call's to the last are reachable. *)
LEMMA LeakedShape == Inv /\ Alone /\ PermitShape /\ OnlyTop => LeakedIs
<1> SUFFICES ASSUME Inv, Alone, PermitShape, OnlyTop PROVE LeakedIs
  OBVIOUS
<1>1. CASE stack = <<>>
  <2>1. Active = {}
    BY <1>1 DEF OnlyTop
  <2> QED BY <1>1, <2>1 DEF LeakedIs, Leaked
<1>2. CASE stack # <<>>
  <2>1. Active = {Top}
    BY <1>2 DEF OnlyTop, Alone
  <2>2. Reach(promise[Top]) = promise[Top]..current
    BY <1>2 DEF Reach, Inv, ChainShape, PermitShape
  <2> QED BY <1>2, <2>1, <2>2 DEF LeakedIs, Leaked
<1> QED BY <1>1, <1>2

(* All that is counted is finite. *)
LEMMA Finite ==
  ASSUME Inv, Countable
  PROVE  /\ IsFiniteSet(owned) /\ IsFiniteSet(armed)
         /\ IsFiniteSet(Leaked) /\ IsFiniteSet(Used)
         /\ Cardinality(Leaked) \in Nat /\ Cardinality(Used) \in Nat
         /\ Cardinality(Tokens(calls)) \in Nat /\ Cardinality(Tokens(posted)) \in Nat
         /\ Cardinality(Holding) \in Nat
<1>1. Len(value) \in Nat /\ owned \subseteq 1..Len(value) /\ armed \subseteq 1..Len(value)
  BY LenProperties DEF Inv, TypeOK
<1>2. IsFiniteSet(1..Len(value))
  BY <1>1, FS_Interval
<1>3. IsFiniteSet(owned) /\ IsFiniteSet(armed)
  BY <1>1, <1>2, FS_Subset
<1>4. Leaked \subseteq owned /\ Used \subseteq armed
  BY DEF Leaked, Used
<1>5. IsFiniteSet(Leaked) /\ IsFiniteSet(Used)
  BY <1>3, <1>4, FS_Subset
<1> QED BY <1>3, <1>5, FS_CardinalityType DEF Countable

(* At first there is nothing to count. *)
LEMMA LeakInit == Init => LeakInv
<1> SUFFICES ASSUME Init PROVE LeakInv
  OBVIOUS
<1>1. Active = {} /\ owned = {} /\ armed = {} /\ stack = <<>> /\ current = Pending /\ spurious = 0
  BY DEF Init, Active
<1>2. Leaked = {} /\ Used = {} /\ Permits = 0 /\ Waiting = 0
  BY <1>1 DEF Leaked, Used, Permits, Waiting
<1>3. Tokens(calls) = {} /\ Tokens(posted) = {} /\ Holding = {}
  BY DEF Init, Tokens, Holding
<1>4. IsFiniteSet({}) /\ Cardinality({}) = 0
  BY FS_EmptySet
<1>5. OnlyTop /\ ArmedBefore /\ LeaksFollow
  BY <1>1, <1>2 DEF OnlyTop, ArmedBefore, LeaksFollow
<1>6. Countable
  BY <1>3, <1>4 DEF Countable
<1>7. Budget
  BY <1>1, <1>2, <1>3, <1>4 DEF Budget
<1> QED BY <1>5, <1>6, <1>7 DEF LeakInv

(* Only the call on top of the stack is polled or suspended. *)
LEMMA OnlyTopStep == MaxDepth = 1 /\ Inv /\ Alone /\ OnlyTop /\ [Next]_vars => OnlyTop'
<1> SUFFICES ASSUME MaxDepth = 1, Inv, Alone, OnlyTop, [Next]_vars,
                    NEW g \in Futures, at'[g] \in {"poll", "await"}
             PROVE  stack' # <<>> /\ g = Top'
  BY DEF OnlyTop, Active
<1>0. /\ stack \in Seq(Futures) /\ Len(stack) \in Nat /\ at \in [Futures -> Where]
  BY LenProperties DEF Inv, TypeOK
<1>1. ASSUME NEW f \in Futures, BlockOn(f) PROVE stack' # <<>> /\ g = Top'
  <2>1. stack = <<>>
    BY <1>0, <1>1, EmptySeq DEF BlockOn
  <2>2. stack' = Append(stack, f) /\ stack' # <<>> /\ Top' = f
    BY <1>0, <1>1, <2>1, AppendProperties DEF BlockOn, Top
  <2>3. g \notin Active
    BY <2>1 DEF OnlyTop
  <2> QED BY <1>0, <1>1, <2>2, <2>3 DEF BlockOn, Active
<1>2. ASSUME NEW f \in Futures, PollReady(f) PROVE stack' # <<>> /\ g = Top'
  <2>1. Top = f /\ at' = [at EXCEPT ![f] = "returned"]
    BY <1>2 DEF PollReady, Running
  <2>2. g # f /\ g \in Active
    BY <1>0, <2>1 DEF Active
  <2> QED BY <2>1, <2>2 DEF OnlyTop
<1>3. ASSUME NEW f \in Futures, PollPending(f) \/ Resume(f) PROVE stack' # <<>> /\ g = Top'
  <2>1. stack' = stack /\ Top = f /\ Top' = Top /\ stack # <<>>
        /\ \E w \in Where : at' = [at EXCEPT ![f] = w]
    BY <1>3 DEF PollPending, Resume, Running, Top, Where
  <2>2. g = f \/ g \in Active
    BY <1>0, <2>1 DEF Active
  <2> QED BY <2>1, <2>2 DEF OnlyTop
<1>4. ASSUME UNCHANGED callVars PROVE stack' # <<>> /\ g = Top'
  <2>1. Top' = Top /\ UNCHANGED <<stack, at>>
    BY <1>4 DEF Top, callVars
  <2> QED BY <2>1 DEF OnlyTop, Active
<1>5. ASSUME NEW f \in Futures, RunWake(f) \/ Fire(f) \/ SpuriousWake(f) \/ Wake(f)
      PROVE  stack' # <<>> /\ g = Top'
  BY <1>4, <1>5 DEF RunWake, Fire, SpuriousWake, Wake
<1>6. CASE UNCHANGED vars
  BY <1>4, <1>6 DEF vars
<1> QED BY <1>1, <1>2, <1>3, <1>5, <1>6 DEF Next

(* A drop arms the last promise of the call that returns, and a call that
   begins makes a later one. *)
LEMMA ArmedBeforeStep ==
  MaxDepth = 1 /\ Inv /\ Alone /\ ArmedBefore /\ [Next]_vars => ArmedBefore'
<1> SUFFICES ASSUME MaxDepth = 1, Inv, Alone, ArmedBefore, [Next]_vars, stack' # <<>>,
                    NEW p \in armed'
             PROVE  p < latest'
  BY DEF ArmedBefore
<1>0. /\ stack \in Seq(Futures) /\ Len(stack) \in Nat /\ Len(value) \in Nat
      /\ armed \subseteq 1..Len(value)
  BY LenProperties DEF Inv, TypeOK
<1>1. ASSUME NEW f \in Futures, BlockOn(f) PROVE p < latest'
  BY <1>0, <1>1 DEF BlockOn, NewPromise
<1>2. ASSUME NEW f \in Futures, PollReady(f) PROVE FALSE
  <2>1. stack # <<>> /\ Len(stack) = 1
    <3>1. Len(stack) \in Nat \ {0}
      BY <1>0, <1>2, EmptySeq DEF PollReady, Running
    <3>2. Len(stack) <= 1
      BY DEF Alone
    <3> QED BY <1>2, <3>1, <3>2 DEF PollReady, Running
  <2>2. stack' = SubSeq(stack, 1, 0)
    BY <1>2, <2>1 DEF PollReady
  <2> QED BY <1>0, <2>2, SubSeqEmpty
<1>3. ASSUME UNCHANGED <<stack, latest, armed>> PROVE p < latest'
  BY <1>3 DEF ArmedBefore
<1>4. ASSUME NEW f \in Futures,
             \/ PollPending(f) \/ Resume(f) \/ RunWake(f) \/ Fire(f)
             \/ SpuriousWake(f) \/ Wake(f)
      PROVE  p < latest'
  BY <1>3, <1>4 DEF PollPending, Resume, RunWake, Fire, SpuriousWake, Wake, callVars, chainVars
<1>5. CASE UNCHANGED vars
  BY <1>3, <1>5 DEF vars, callVars, chainVars
<1> QED BY <1>1, <1>2, <1>4, <1>5 DEF Next

(* The shape that the counting steps start from and lead to. *)
Shape == Inv /\ Alone /\ PermitShape /\ OnlyTop /\ ArmedBefore /\ LeakedIs
Counts == Countable /\ LeaksFollow /\ Budget

(* The types the counting needs. *)
LEMMA SourceTypes ==
  Inv => /\ calls \in [Futures -> Nat] /\ posted \in [Futures -> Nat]
         /\ registered \in [Futures -> BOOLEAN] /\ spurious \in Nat
<1> SUFFICES ASSUME TypeOK
             PROVE  /\ calls \in [Futures -> Nat] /\ posted \in [Futures -> Nat]
                    /\ registered \in [Futures -> BOOLEAN] /\ spurious \in Nat
  BY DEF Inv
<1>1. spurious \in Nat
  <2>1. spurious \in 0..MaxSpurious
    BY DEF TypeOK
  <2> QED BY <2>1, BlockOnAssumption
<1> QED BY <1>1 DEF TypeOK

LEMMA WaitingNat == Waiting \in {0, 1}
  BY DEF Waiting

LEMMA PermitsNat == PermitShape => Permits \in Nat
  BY DEF PermitShape, Permits

(* The steps of others: wakes begin, and are proxied. *)
LEMMA OthersCount ==
  ASSUME Shape, Counts, UNCHANGED <<callVars, chainVars>>,
         NEW f \in Futures, Fire(f) \/ SpuriousWake(f) \/ Wake(f)
  PROVE  Counts'
<1>1. /\ Top' = Top /\ UNCHANGED <<stack, at, promise, current, value, owned, armed>>
  BY DEF callVars, chainVars, Top
<1>2. Leaked' = Leaked
  BY <1>1 DEF Leaked, Active, Reach
<1>3. Used' = Used /\ Waiting' = Waiting
  BY <1>1 DEF Used, Waiting
<1>4. Permits' = Permits
  BY <1>1 DEF Permits, Reach
<1>5. LeaksFollow'
  BY <1>1, <1>2, <1>3 DEF Counts, LeaksFollow
<1>6. /\ calls \in [Futures -> Nat] /\ posted \in [Futures -> Nat]
      /\ registered \in [Futures -> BOOLEAN] /\ spurious \in Nat /\ Waiting \in Nat
  BY SourceTypes, WaitingNat DEF Shape
<1>7. /\ Cardinality(Leaked) \in Nat /\ Cardinality(Used) \in Nat /\ Permits \in Nat
      /\ Cardinality(Tokens(calls)) \in Nat /\ Cardinality(Tokens(posted)) \in Nat
      /\ Cardinality(Holding) \in Nat
      /\ IsFiniteSet(Tokens(calls)) /\ IsFiniteSet(Tokens(posted)) /\ IsFiniteSet(Holding)
  BY Finite, PermitsNat DEF Shape, Counts, Countable
<1>8. CASE Fire(f)
  <2>1. posted' = posted /\ spurious' = spurious /\ registered' = [registered EXCEPT ![f] = FALSE]
    BY <1>8 DEF Fire
  <2>2. Holding' = Holding \ {f}
    BY <1>6, <2>1 DEF Holding
  <2>3. IsFiniteSet(Holding') /\ Cardinality(Holding')
          = IF f \in Holding THEN Cardinality(Holding) - 1 ELSE Cardinality(Holding)
    BY <1>7, <2>2, FS_RemoveElement
  <2>6. f \in Holding <=> registered[f]
    BY DEF Holding
  <2>4. CASE registered[f]
    <3>1. calls' = [calls EXCEPT ![f] = @ + 1]
      BY <1>8, <2>4 DEF Fire
    <3>2. IsFiniteSet(Tokens(calls')) /\ Cardinality(Tokens(calls')) = Cardinality(Tokens(calls)) + 1
      BY <1>6, <1>7, <3>1, OneTokenMore
    <3>3. Countable'
      BY <1>7, <2>1, <2>3, <3>2 DEF Countable
    <3>4. Budget'
      BY <1>2, <1>3, <1>4, <1>6, <1>7, <2>1, <2>3, <2>6, <2>4, <3>2 DEF Counts, Budget
    <3> QED BY <1>5, <3>3, <3>4 DEF Counts
  <2>5. CASE ~registered[f]
    <3>1. calls' = calls
      BY <1>6, <1>8, <2>5 DEF Fire
    <3>2. Countable'
      BY <1>7, <2>1, <2>3, <3>1 DEF Countable
    <3>3. Budget'
      BY <1>2, <1>3, <1>4, <1>6, <1>7, <2>1, <2>3, <2>6, <2>5, <3>1 DEF Counts, Budget
    <3> QED BY <1>5, <3>2, <3>3 DEF Counts
  <2> QED BY <2>4, <2>5
<1>9. CASE SpuriousWake(f)
  <2>1. /\ calls' = [calls EXCEPT ![f] = @ + 1] /\ posted' = posted
        /\ registered' = registered /\ spurious' = spurious + 1
    BY <1>9 DEF SpuriousWake
  <2>2. IsFiniteSet(Tokens(calls')) /\ Cardinality(Tokens(calls')) = Cardinality(Tokens(calls)) + 1
    BY <1>6, <1>7, <2>1, OneTokenMore
  <2>3. Holding' = Holding
    BY <2>1 DEF Holding
  <2>4. Countable'
    BY <1>7, <2>1, <2>2, <2>3 DEF Countable
  <2>5. Budget'
    BY <1>2, <1>3, <1>4, <1>6, <1>7, <2>1, <2>2, <2>3 DEF Counts, Budget
  <2> QED BY <1>5, <2>4, <2>5 DEF Counts
<1>10. CASE Wake(f)
  <2>1. /\ calls[f] > 0 /\ calls' = [calls EXCEPT ![f] = @ - 1]
        /\ posted' = [posted EXCEPT ![f] = @ + 1]
        /\ registered' = registered /\ spurious' = spurious
    BY <1>10 DEF Wake
  <2>2. IsFiniteSet(Tokens(calls')) /\ Cardinality(Tokens(calls')) = Cardinality(Tokens(calls)) - 1
    BY <1>6, <1>7, <2>1, OneTokenLess
  <2>3. IsFiniteSet(Tokens(posted')) /\ Cardinality(Tokens(posted')) = Cardinality(Tokens(posted)) + 1
    BY <1>6, <1>7, <2>1, OneTokenMore
  <2>4. Holding' = Holding
    BY <2>1 DEF Holding
  <2>5. Countable'
    BY <1>7, <2>2, <2>3, <2>4 DEF Countable
  <2>6. Budget'
    BY <1>2, <1>3, <1>4, <1>6, <1>7, <2>1, <2>2, <2>3, <2>4 DEF Counts, Budget
  <2> QED BY <1>5, <2>5, <2>6 DEF Counts
<1> QED BY <1>8, <1>9, <1>10

(* The call begins: nothing changes hands. *)
LEMMA BlockOnCount ==
  ASSUME MaxDepth = 1, Shape, Counts, Shape', NEW f \in Futures, BlockOn(f)
  PROVE  Counts'
<1>1. /\ stack \in Seq(Futures) /\ Len(stack) \in Nat /\ Len(value) \in Nat
      /\ value \in Seq(Nat) /\ owned \subseteq 1..Len(value) /\ armed \subseteq 1..Len(value)
      /\ at \in [Futures -> Where] /\ promise \in [Futures -> 0..Len(value)]
  BY LenProperties DEF Shape, Inv, TypeOK
<1>2. stack = <<>>
  BY <1>1, EmptySeq DEF BlockOn
<1>3. stack' = Append(stack, f) /\ stack' # <<>> /\ Top' = f
  BY <1>1, <1>2, AppendProperties DEF BlockOn, Top
<1>4. /\ value' = Append(value, Pending) /\ owned' = owned \union {NewPromise}
      /\ armed' = armed /\ current' = NewPromise /\ promise'[f] = NewPromise
      /\ at'[f] = "poll" /\ UNCHANGED <<calls, posted, registered, spurious>>
  BY <1>1 DEF BlockOn, StoreEvent, sourceVars
<1>5. \A q \in 1..Len(value) : value'[q] = value[q]
  BY <1>1, <1>4, CreatedPromise
<1>6. Used' = Used
  BY <1>1, <1>4, <1>5 DEF Used
<1>7. Leaked' = Leaked
  <2>1. Leaked = owned /\ Leaked' = owned' \ (NewPromise..NewPromise)
    BY <1>2, <1>3, <1>4 DEF Shape, LeakedIs
  <2>2. NewPromise \in Nat /\ NewPromise \notin owned
    BY <1>1 DEF NewPromise
  <2>3. NewPromise..NewPromise = {NewPromise}
    BY <2>2
  <2> QED BY <1>4, <2>1, <2>2, <2>3
<1>8. Permits = 0 /\ Permits' = 0 /\ Waiting = 0 /\ Waiting' = 0
  <2>1. Permits' = 0
    BY <1>1, <1>3, <1>4 DEF Shape, PermitShape, NewPromise
  <2> QED BY <1>2, <1>3, <1>4, <2>1 DEF Permits, Waiting
<1>9. LeaksFollow'
  BY <1>3, <1>6, <1>7 DEF Counts, LeaksFollow
<1>10. Holding' = Holding /\ Countable'
  BY <1>4 DEF Holding, Counts, Countable
<1>11. Budget'
  BY <1>4, <1>6, <1>7, <1>8, <1>10 DEF Counts, Budget
<1> QED BY <1>9, <1>10, <1>11 DEF Counts

(* The call parks: it will be woken once more. *)
LEMMA PendingCount ==
  ASSUME Shape, Counts, Shape', NEW f \in Futures, PollPending(f) PROVE Counts'
<1>1. /\ stack # <<>> /\ Top = f /\ Top' = f /\ at[f] = "poll" /\ at'[f] = "await"
      /\ UNCHANGED <<stack, promise, current, value, owned, armed, calls, posted, spurious>>
      /\ registered' = [registered EXCEPT ![f] = TRUE]
      /\ registered \in [Futures -> BOOLEAN] /\ spurious \in Nat
  BY DEF PollPending, Running, Top, chainVars, Shape, Inv, TypeOK
<1>2. Leaked' = Leaked
  BY <1>1 DEF Shape, LeakedIs
<1>3. Used' = Used /\ Waiting = 0 /\ Waiting' = 1
  BY <1>1 DEF Used, Waiting
<1>4. Permits' = Permits
  BY <1>1 DEF Permits, Reach
<1>5. LeaksFollow'
  BY <1>1, <1>2, <1>3 DEF Counts, LeaksFollow
<1>6. /\ Cardinality(Leaked) \in Nat /\ Cardinality(Used) \in Nat /\ Permits \in Nat
      /\ Cardinality(Tokens(calls)) \in Nat /\ Cardinality(Tokens(posted)) \in Nat
      /\ Cardinality(Holding) \in Nat /\ IsFiniteSet(Holding)
  BY Finite, PermitsNat DEF Shape, Counts, Countable
<1>7. Holding' = Holding \union {f}
  BY <1>1 DEF Holding
<1>8. IsFiniteSet(Holding') /\ Cardinality(Holding') \in Nat
      /\ Cardinality(Holding') <= Cardinality(Holding) + 1
  <2>1. IsFiniteSet(Holding') /\ Cardinality(Holding')
          = IF f \in Holding THEN Cardinality(Holding) ELSE Cardinality(Holding) + 1
    BY <1>6, <1>7, FS_AddElement
  <2> QED BY <1>6, <2>1
<1>9. Countable'
  BY <1>1, <1>8 DEF Counts, Countable
<1>10. Budget'
  <2>1. /\ Cardinality(Leaked') = Cardinality(Leaked) /\ Cardinality(Used') = Cardinality(Used)
        /\ Permits' = Permits /\ Waiting = 0 /\ Waiting' = 1
        /\ Tokens(calls)' = Tokens(calls) /\ Tokens(posted)' = Tokens(posted)
        /\ spurious' = spurious /\ spurious \in Nat
    BY <1>1, <1>2, <1>3, <1>4
  <2>2. Budget
    BY DEF Counts
  <2> QED BY <1>6, <1>8, <2>1, <2>2 DEF Budget
<1> QED BY <1>5, <1>9, <1>10 DEF Counts

(* The call goes on: it takes a permit and is not waiting any more. *)
LEMMA ResumeCount ==
  ASSUME Shape, Counts, Shape', NEW f \in Futures, Resume(f) PROVE Counts'
<1>1. /\ stack # <<>> /\ Top = f /\ Top' = f /\ at[f] = "await" /\ at'[f] = "poll"
      /\ UNCHANGED <<stack, current, value, armed, calls, posted, registered, spurious>>
      /\ owned' = owned \ {promise[f]} /\ promise'[f] = value[promise[f]]
      /\ value[promise[f]] # Pending
  BY DEF Resume, Fulfilled, NextPromise, Top, sourceVars, Shape, Inv, TypeOK
<1>2. /\ promise[f] \in 1..current /\ current \in Nat /\ current = Len(value)
      /\ Permits = current - promise[f] /\ Permits' = current - promise'[f]
  BY <1>1 DEF Shape, PermitShape
<1>3. promise'[f] = promise[f] + 1
  BY <1>1, <1>2 DEF Shape, Inv, ChainShape
<1>4. Leaked' = Leaked
  <2>1. Leaked = owned \ (promise[f]..current) /\ Leaked' = owned' \ ((promise[f] + 1)..current)
    BY <1>1, <1>3 DEF Shape, LeakedIs
  <2>2. promise[f]..current = {promise[f]} \union ((promise[f] + 1)..current)
    BY <1>2
  <2> QED BY <1>1, <2>1, <2>2
<1>5. Used' = Used /\ Waiting = 1 /\ Waiting' = 0 /\ Holding' = Holding
  BY <1>1 DEF Used, Waiting, Holding
<1>6. Countable' /\ LeaksFollow'
  BY <1>1, <1>4, <1>5 DEF Counts, Countable, LeaksFollow
<1>7. /\ Cardinality(Leaked) \in Nat /\ Cardinality(Used) \in Nat
      /\ Cardinality(Tokens(calls)) \in Nat /\ Cardinality(Tokens(posted)) \in Nat
      /\ Cardinality(Holding) \in Nat
  BY Finite DEF Shape, Counts
<1>8. Permits \in Nat /\ Permits' = Permits - 1
  BY <1>1, <1>2, <1>3, PermitsNat DEF Shape
<1>9. spurious \in Nat
  BY SourceTypes DEF Shape
<1>10. UNCHANGED <<calls, posted, spurious>>
  BY <1>1
<1>11. Budget'
  BY <1>4, <1>5, <1>7, <1>8, <1>9, <1>10 DEF Counts, Budget
<1> QED BY <1>6, <1>11 DEF Counts

(* The closure of a wake: it becomes a permit if a call is there, and the
   promise it makes is freed or left behind if not. *)
LEMMA RunWakeCount ==
  ASSUME Shape, Counts, Shape', NEW f \in Futures, RunWake(f) PROVE Counts'
<1>1. /\ Top' = Top /\ UNCHANGED <<stack, at, promise, armed, calls, registered, spurious>>
      /\ posted[f] > 0 /\ posted' = [posted EXCEPT ![f] = @ - 1]
  BY DEF RunWake, callVars, Top
<1>2. /\ calls \in [Futures -> Nat] /\ posted \in [Futures -> Nat] /\ spurious \in Nat
      /\ Cardinality(Leaked) \in Nat /\ Cardinality(Used) \in Nat /\ Permits \in Nat
      /\ Cardinality(Tokens(calls)) \in Nat /\ Cardinality(Tokens(posted)) \in Nat
      /\ Cardinality(Holding) \in Nat /\ IsFiniteSet(Leaked) /\ IsFiniteSet(Used)
      /\ IsFiniteSet(Tokens(posted))
  BY Finite, PermitsNat, SourceTypes DEF Shape, Counts, Countable
<1>3. IsFiniteSet(Tokens(posted')) /\ Cardinality(Tokens(posted')) = Cardinality(Tokens(posted)) - 1
  BY <1>1, <1>2, OneTokenLess
<1>4. Waiting' = Waiting /\ Holding' = Holding /\ Waiting \in {0, 1}
  BY <1>1, WaitingNat DEF Waiting, Holding
<1>5. Countable'
  BY <1>1, <1>3, <1>4 DEF Counts, Countable
<1>6. /\ value \in Seq(Nat) /\ Len(value) \in Nat /\ current = Len(value)
      /\ owned \subseteq 1..Len(value) /\ armed \subseteq 1..Len(value)
  BY LenProperties DEF Shape, Inv, TypeOK, ChainShape
<1>7. ASSUME Cardinality(Leaked') + Cardinality(Used') + Permits'
               <= Cardinality(Leaked) + Cardinality(Used) + Permits + 1,
             Cardinality(Leaked') \in Nat, Cardinality(Used') \in Nat, Permits' \in Nat
      PROVE  Budget'
  BY <1>1, <1>2, <1>3, <1>4, <1>7 DEF Counts, Budget
<1>8. CASE current = Pending
  <2>1. UNCHANGED <<current, value, owned>>
    BY <1>8 DEF RunWake
  <2>2. Leaked' = Leaked /\ Used' = Used /\ Permits' = Permits
    BY <1>1, <2>1 DEF Leaked, Used, Permits, Active, Reach
  <2>3. LeaksFollow'
    BY <1>1, <2>1, <2>2 DEF Counts, LeaksFollow
  <2>4. Budget'
    BY <1>2, <1>7, <2>2
  <2> QED BY <1>5, <2>3, <2>4 DEF Counts
<1>9. CASE current # Pending
  <2>1. /\ value' = Append([value EXCEPT ![current] = NewPromise], Pending)
        /\ current' = NewPromise /\ NewPromise = current + 1
        /\ owned' = IF current \in armed THEN owned ELSE owned \union {NewPromise}
    BY <1>6, <1>9 DEF RunWake, Fulfil, StoreEvent, NewPromise
  <2>2. current \in 1..Len(value) /\ current \in Nat /\ NewPromise \in Nat /\ NewPromise # Pending
    BY <1>6, <1>9, <2>1 DEF Pending
  <2>3. \A q \in 1..Len(value) : value'[q] = IF q = current THEN NewPromise ELSE value[q]
    BY <1>6, <2>1, <2>2, FulfilledPromise
  <2>4. value[current] = Pending
    BY <1>6, <2>2 DEF Shape, Inv, ChainShape
  <2>5. Used' = IF current \in armed THEN Used \union {current} ELSE Used
    BY <1>1, <1>6, <2>2, <2>3, <2>4 DEF Used
  <2>6. CASE stack # <<>>
    <3>1. promise[Top] \in 1..current /\ Permits = current - promise[Top]
          /\ Permits' = current' - promise[Top] /\ latest <= current /\ latest \in Nat
      BY <1>1, <2>6 DEF Shape, PermitShape
    <3>2. Permits' = Permits + 1
      <4>1. promise[Top] \in Int /\ current \in Int /\ current' = current + 1
        BY <2>1, <2>2, <3>1
      <4> QED BY <3>1, <4>1
    <3>3. current \notin armed
      BY <2>2, <2>6, <3>1 DEF Shape, ArmedBefore
    <3>4. Leaked' = Leaked
      <4>1. Leaked = owned \ (promise[Top]..current)
            /\ Leaked' = owned' \ (promise[Top]..(current + 1))
        BY <1>1, <2>1, <2>6 DEF Shape, LeakedIs
      <4>2. owned' = owned \union {current + 1} /\ current + 1 \notin owned
        BY <1>6, <2>1, <3>3
      <4>3. promise[Top]..(current + 1) = (promise[Top]..current) \union {current + 1}
        BY <2>2, <3>1
      <4> QED BY <4>1, <4>2, <4>3
    <3>5. LeaksFollow'
      BY <1>1, <2>5, <2>6, <3>3, <3>4 DEF Counts, LeaksFollow
    <3>6. Budget'
      BY <1>2, <1>7, <2>5, <3>2, <3>3, <3>4
    <3> QED BY <1>5, <3>5, <3>6 DEF Counts
  <2>7. CASE stack = <<>>
    <3>1. Permits = 0 /\ Permits' = 0
      BY <1>1, <2>7 DEF Permits
    <3>2. Leaked = owned /\ Leaked' = owned'
      BY <1>1, <2>7 DEF Shape, LeakedIs
    <3>3. CASE current \in armed
      <4>1. Used' = Used \union {current} /\ Leaked' = Leaked
        BY <2>1, <2>5, <3>2, <3>3
      <4>2. Cardinality(Used') \in Nat /\ Cardinality(Used') <= Cardinality(Used) + 1
        <5>1. Cardinality(Used') = IF current \in Used THEN Cardinality(Used) ELSE Cardinality(Used) + 1
          BY <1>2, <4>1, FS_AddElement
        <5> QED BY <1>2, <5>1
      <4>3. Budget'
        BY <1>2, <1>7, <3>1, <4>1, <4>2
      <4>4. LeaksFollow'
        BY <4>1 DEF LeaksFollow
      <4> QED BY <1>5, <4>3, <4>4 DEF Counts
    <3>4. CASE current \notin armed
      <4>1. Used' = Used /\ Leaked' = Leaked \union {NewPromise}
        BY <2>1, <2>5, <3>2, <3>4
      <4>2. Cardinality(Leaked') \in Nat /\ Cardinality(Leaked') <= Cardinality(Leaked) + 1
        <5>1. Cardinality(Leaked') = IF NewPromise \in Leaked THEN Cardinality(Leaked)
                                                               ELSE Cardinality(Leaked) + 1
          BY <1>2, <4>1, FS_AddElement
        <5> QED BY <1>2, <5>1
      <4>3. Budget'
        BY <1>2, <1>7, <3>1, <4>1, <4>2
      <4>4. LeaksFollow'
        BY <1>9, <2>7, <3>4, <4>1 DEF Counts, LeaksFollow
      <4> QED BY <1>5, <4>3, <4>4 DEF Counts
    <3> QED BY <3>3, <3>4
  <2> QED BY <2>6, <2>7
<1> QED BY <1>8, <1>9

(* The call returns: of its permits the first is freed, those after it are
   left behind. *)
LEMMA ReadyCount ==
  ASSUME MaxDepth = 1, Shape, Counts, Shape', NEW f \in Futures, PollReady(f)
  PROVE  Counts'
<1>1. /\ stack # <<>> /\ Top = f /\ at[f] = "poll"
      /\ armed' = armed \union {promise[f]}
      /\ owned' = owned \ {promise[f], value[promise[f]]}
      /\ UNCHANGED <<promise, current, value, calls, posted, registered, spurious>>
  BY DEF PollReady, Running, DropPromise, sourceVars
<1>2. stack' = <<>>
  <2>1. stack \in Seq(Futures) /\ Len(stack) \in Nat
    BY LenProperties DEF Shape, Inv, TypeOK
  <2>2. Len(stack) = 1
    <3>1. Len(stack) \in Nat \ {0}
      BY <1>1, <2>1, EmptySeq
    <3>2. Len(stack) <= 1
      BY DEF Shape, Alone
    <3> QED BY <3>1, <3>2, JustOne
  <2>3. stack' = SubSeq(stack, 1, 0)
    BY <2>2 DEF PollReady
  <2> QED BY <2>1, <2>3, SubSeqEmpty
<1> DEFINE p == promise[f]
<1>3. /\ p \in 1..current /\ current \in Nat /\ current = Len(value)
      /\ latest \in 1..p /\ Permits = current - p
  BY <1>1 DEF Shape, PermitShape
<1>4. /\ Leaked = owned \ (p..current) /\ Leaked' = owned'
  BY <1>1, <1>2 DEF Shape, LeakedIs
<1>5. Permits' = 0 /\ Waiting = 0 /\ Waiting' = 0 /\ Holding' = Holding
  BY <1>1, <1>2 DEF Permits, Waiting, Holding
<1>6. Countable'
  BY <1>1, <1>5 DEF Counts, Countable
<1>7. /\ Cardinality(Leaked) \in Nat /\ Cardinality(Used) \in Nat
      /\ Cardinality(Tokens(calls)) \in Nat /\ Cardinality(Tokens(posted)) \in Nat
      /\ Cardinality(Holding) \in Nat /\ IsFiniteSet(Leaked) /\ IsFiniteSet(Used)
      /\ spurious \in Nat
  BY Finite, SourceTypes DEF Shape, Counts, Countable
<1>8. owned \subseteq 1..current
  BY <1>3 DEF Shape, Inv, TypeOK
<1>9. p \notin armed
  BY <1>1, <1>3 DEF Shape, ArmedBefore
<1> HIDE DEF p
<1>10. Used' = IF value[p] = Pending THEN Used ELSE Used \union {p}
  BY <1>1, <1>9 DEF Used, p
<1>11. ASSUME Cardinality(Leaked') + Cardinality(Used')
                <= Cardinality(Leaked) + Cardinality(Used) + Permits,
              Cardinality(Leaked') \in Nat, Cardinality(Used') \in Nat, Permits \in Nat
       PROVE  Budget'
  <2> DEFINE others == Cardinality(Tokens(calls)) + Cardinality(Tokens(posted))
                         + Cardinality(Holding)
  <2>1. others \in Nat
    BY <1>7
  <2>2. Cardinality(Leaked) + Cardinality(Used) + Permits + others <= spurious
    BY <1>5, <1>7, <1>11, <2>1 DEF Counts, Budget
  <2> HIDE DEF others
  <2>3. Cardinality(Leaked') + Cardinality(Used') + others <= spurious
    BY <1>7, <1>11, <2>1, <2>2
  <2> QED BY <1>1, <1>5, <1>7, <1>11, <2>3 DEF Budget, others
<1>12. Permits \in Nat
  BY <1>3
<1>13. CASE value[p] = Pending
  <2>1. p = current
    BY <1>1, <1>3, <1>13 DEF Shape, Inv, ChainShape, Pending, p
  <2>2. Leaked' \subseteq Leaked
    <3>1. p..current = {p}
      BY <1>3, <2>1
    <3> QED BY <1>1, <1>4, <3>1 DEF p
  <2>3. Cardinality(Leaked') \in Nat /\ Cardinality(Leaked') <= Cardinality(Leaked)
    BY <1>7, <2>2, FS_Subset, FS_CardinalityType
  <2>4. Used' = Used
    BY <1>10, <1>13
  <2>5. Budget'
    BY <1>7, <1>11, <1>12, <2>3, <2>4
  <2>6. LeaksFollow'
    <3>1. current' \in armed'
      BY <1>1, <2>1 DEF p
    <3> QED BY <2>2, <2>4, <3>1 DEF Counts, LeaksFollow
  <2> QED BY <1>6, <2>5, <2>6 DEF Counts
<1>14. CASE value[p] # Pending
  <2>1. value[p] = p + 1 /\ p < current
    BY <1>1, <1>3, <1>14 DEF Shape, Inv, ChainShape, p
  <2>2. Used' = Used \union {p} /\ p \notin Used
    BY <1>9, <1>10, <1>14 DEF Used
  <2>3. Cardinality(Used') = Cardinality(Used) + 1
    BY <1>7, <2>2, FS_AddElement
  <2> DEFINE rest == (p + 2)..current
  <2>4. IsFiniteSet(rest) /\ Cardinality(rest) = current - p - 1
    <3>1. p + 2 \in Int /\ current \in Int
      BY <1>3
    <3>2. IsFiniteSet(rest)
          /\ Cardinality(rest) = IF p + 2 > current THEN 0 ELSE current - (p + 2) + 1
      BY <3>1, FS_Interval
    <3> QED BY <1>3, <2>1, <3>2
  <2>5. Leaked' \subseteq Leaked \union rest
    <3>1. p..current = {p, p + 1} \union rest
      BY <1>3, <2>1
    <3>2. Leaked' = owned \ {p, p + 1}
      BY <1>1, <1>4, <2>1 DEF p
    <3> HIDE DEF rest
    <3> QED BY <1>4, <3>1, <3>2
  <2> HIDE DEF rest
  <2>6. /\ IsFiniteSet(Leaked \union rest)
        /\ Cardinality(Leaked \union rest) \in Nat
        /\ Cardinality(Leaked \union rest) <= Cardinality(Leaked) + Cardinality(rest)
    <3>1. /\ IsFiniteSet(Leaked \union rest)
          /\ Cardinality(Leaked \union rest) =
               Cardinality(Leaked) + Cardinality(rest) - Cardinality(Leaked \cap rest)
      BY <1>7, <2>4, FS_Union
    <3>2. Cardinality(Leaked \cap rest) \in Nat
      BY <1>7, FS_Intersection, FS_CardinalityType
    <3>3. Cardinality(Leaked \union rest) \in Nat
      BY <3>1, FS_CardinalityType
    <3>4. Cardinality(rest) \in Nat
      BY <2>4, FS_CardinalityType
    <3> QED BY <1>7, <3>1, <3>2, <3>3, <3>4
  <2>7. Cardinality(Leaked') \in Nat /\ Cardinality(Leaked') <= Cardinality(Leaked \union rest)
    BY <2>5, <2>6, FS_Subset, FS_CardinalityType
  <2>8. Cardinality(Leaked') + Cardinality(Used') <= Cardinality(Leaked) + Cardinality(Used) + Permits
    <3>1. Cardinality(Leaked') <= Cardinality(Leaked) + Permits - 1
      <4>1. Cardinality(rest) = Permits - 1 /\ Permits \in Nat
        BY <1>3, <2>4, <1>12
      <4> QED BY <1>7, <2>6, <2>7, <4>1
    <3> QED BY <1>7, <1>12, <2>3, <2>7, <3>1
  <2>9. Budget'
    BY <1>7, <1>11, <1>12, <2>3, <2>7, <2>8
  <2>10. LeaksFollow'
    BY <2>2 DEF LeaksFollow
  <2> QED BY <1>6, <2>9, <2>10 DEF Counts
<1> QED BY <1>13, <1>14

(* No step spends more than it was paid. *)
LEMMA CountsStep == MaxDepth = 1 /\ Shape /\ Counts /\ [Next]_vars /\ Shape' => Counts'
<1> SUFFICES ASSUME MaxDepth = 1, Shape, Counts, [Next]_vars, Shape' PROVE Counts'
  OBVIOUS
<1>1. CASE UNCHANGED vars
  <2>1. Top' = Top
    BY <1>1 DEF Top, vars, callVars
  <2>2. Leaked' = Leaked /\ Used' = Used /\ Permits' = Permits /\ Waiting' = Waiting
        /\ Holding' = Holding /\ UNCHANGED <<stack, armed, current, calls, posted, spurious>>
    BY <1>1, <2>1 DEF vars, callVars, chainVars, sourceVars, Leaked, Used, Permits, Waiting,
                      Holding, Active, Reach
  <2> QED BY <2>2 DEF Counts, Countable, LeaksFollow, Budget
<1>2. ASSUME NEW f \in Futures, Fire(f) \/ SpuriousWake(f) \/ Wake(f) PROVE Counts'
  BY <1>2, OthersCount DEF Fire, SpuriousWake, Wake
<1> QED
  BY <1>1, <1>2, BlockOnCount, PendingCount, ReadyCount, ResumeCount, RunWakeCount DEF Next

(* Budget is enough: a leak was paid for by more than as many spurious wakes. *)
LEMMA BudgetBounds == Shape /\ Counts => LeakBound
<1> SUFFICES ASSUME Shape, Counts, Leaked # {}
             PROVE  Cardinality(Leaked) < spurious
  BY DEF LeakBound
<1>1. /\ Cardinality(Leaked) \in Nat /\ Cardinality(Used) \in Nat /\ Permits \in Nat
      /\ Cardinality(Tokens(calls)) \in Nat /\ Cardinality(Tokens(posted)) \in Nat
      /\ Cardinality(Holding) \in Nat /\ IsFiniteSet(Used) /\ spurious \in Nat
  BY Finite, PermitsNat, SourceTypes DEF Shape, Counts
<1>2. Cardinality(Used) # 0
  BY <1>1, FS_EmptySet DEF Counts, LeaksFollow
<1>3. CASE Waiting = 0
  BY <1>1, <1>2, <1>3 DEF Counts, Budget
<1>4. CASE Waiting # 0
  <2>1. stack # <<>> /\ at[Top] = "await" /\ Waiting = 1 /\ Top \in Futures
    BY <1>4 DEF Waiting, Shape, PermitShape
  <2>2. \/ registered[Top] \/ calls[Top] > 0 \/ posted[Top] > 0 \/ Fulfilled(Top)
    BY <2>1 DEF Shape, Alone, Inv, WakeUnderway, Innermost, Active
  <2>3. registered[Top] => Cardinality(Holding) # 0
    <3> SUFFICES ASSUME registered[Top] PROVE Cardinality(Holding) # 0
      OBVIOUS
    <3>1. Top \in Holding
      BY <2>1 DEF Holding
    <3> QED BY <3>1, FS_EmptySet DEF Counts, Countable
  <2>4. calls[Top] > 0 => Cardinality(Tokens(calls)) # 0
    <3> SUFFICES ASSUME calls[Top] > 0 PROVE Cardinality(Tokens(calls)) # 0
      OBVIOUS
    <3>1. <<Top, 1>> \in Tokens(calls)
      BY <2>1, SourceTypes DEF Tokens, Shape
    <3> QED BY <3>1, FS_EmptySet DEF Counts, Countable
  <2>5. posted[Top] > 0 => Cardinality(Tokens(posted)) # 0
    <3> SUFFICES ASSUME posted[Top] > 0 PROVE Cardinality(Tokens(posted)) # 0
      OBVIOUS
    <3>1. <<Top, 1>> \in Tokens(posted)
      BY <2>1, SourceTypes DEF Tokens, Shape
    <3> QED BY <3>1, FS_EmptySet DEF Counts, Countable
  <2>6. Fulfilled(Top) => Permits # 0
    BY <2>1 DEF Fulfilled, Shape, PermitShape, Inv, ChainShape
  <2>7. \/ Cardinality(Holding) # 0 \/ Cardinality(Tokens(calls)) # 0
        \/ Cardinality(Tokens(posted)) # 0 \/ Permits # 0
    BY <2>2, <2>3, <2>4, <2>5, <2>6
  <2>8. Cardinality(Leaked) + Cardinality(Used) + Permits + Cardinality(Tokens(calls))
          + Cardinality(Tokens(posted)) + Cardinality(Holding) <= spurious + 1
    BY <2>1 DEF Counts, Budget
  <2> QED BY <1>1, <1>2, <2>7, <2>8
<1> QED BY <1>3, <1>4

(* Without nesting, for any futures and any number of events: promises are
   left behind by spurious wakes only, and are fewer. *)
THEOREM LeaksAreFew ==
  ASSUME MaxDepth = 1
  PROVE  Spec => []LeakBound
<1>1. Init => Alone /\ LeakInv
  BY AloneInit, LeakInit
<1>2. Inv /\ Alone /\ [Next]_vars => Alone'
  BY AloneStep
<1>3. Inv /\ Alone => PermitShape
  BY PermitsAreLinks
<1>4. Inv /\ Alone /\ OnlyTop /\ [Next]_vars => OnlyTop'
  BY OnlyTopStep
<1>5. Inv /\ Alone /\ ArmedBefore /\ [Next]_vars => ArmedBefore'
  BY ArmedBeforeStep
<1>6. Inv /\ Alone /\ PermitShape /\ OnlyTop => LeakedIs
  BY LeakedShape
<1>7. Shape /\ Counts /\ [Next]_vars /\ Shape' => Counts'
  BY CountsStep
<1>8. Shape /\ Counts => LeakBound
  BY BudgetBounds
<1> QED
  BY <1>1, <1>2, <1>3, <1>4, <1>5, <1>6, <1>7, <1>8, Invariance, PTL
     DEF Spec, Shape, Counts, LeakInv

-----------------------------------------------------------------------------
(***************************************************************************)
(* What ReturnsUnlessOvertaken asks of the code besides fairness: the call *)
(* of a future that has become ready always has a step that brings it      *)
(* nearer to its return, and nothing but a later call sets it back.        *)
(***************************************************************************)
(* The stack holds the active calls, each begun after the one below it. *)
StackShape ==
  /\ \A i \in DOMAIN stack : stack[i] \in Active
  /\ \A f \in Active : \E i \in DOMAIN stack : stack[i] = f
  /\ \A i, j \in DOMAIN stack : i < j => root[stack[i]] < root[stack[j]]

(* A call is only suspended while its future is not ready. *)
SleepsUnready == \A f \in Futures : at[f] = "await" => seen[f] < Events

(* The step that brings the call of f, whose future is ready, nearer to its
   return: the poll, the return of its promise, or a wake. *)
WayBack(f) ==
  \/ Running(f)
  \/ stack # <<>> /\ Top = f /\ at[f] = "await" /\ Fulfilled(f)
  \/ AtEventLoop /\ at[f] = "await" /\ posted[f] > 0
  \/ at[f] = "await" /\ calls[f] > 0
ReadyHasAWay == \A f \in Futures : Innermost(f) /\ Ready(f) => WayBack(f)

(* How many of these steps it takes. *)
StepsBack(f) ==
  IF at[f] = "poll" THEN 1
  ELSE IF Fulfilled(f) THEN 2
  ELSE IF posted[f] > 0 THEN 3
  ELSE 4

Helps(f) ==
  \/ Resume(f)
  \/ RunWake(f) /\ StepsBack(f) = 3
  \/ Wake(f) /\ StepsBack(f) = 4

(* Nothing but a later call takes it further from its return. *)
ReadyComesBack ==
  \A f \in Futures : Innermost(f) /\ Ready(f) =>
    \/ PollReady(f) /\ at'[f] = "returned"
    \/ \E g \in Futures : BlockOn(g)
    \/ /\ (Innermost(f) /\ Ready(f))'
       /\ StepsBack(f)' <= StepsBack(f)
       /\ Helps(f) => StepsBack(f)' < StepsBack(f)

StackInv == StackShape /\ SleepsUnready

(* An index of a sequence of length n that is not before its last one. *)
LEMMA LastIndex == ASSUME NEW n \in Nat, NEW i \in 1..n, ~(i < n) PROVE i = n
  OBVIOUS

(* Taking the last element off a sequence. *)
LEMMA TopTaken ==
  ASSUME NEW S, NEW s \in Seq(S), Len(s) # 0
  PROVE  LET w == SubSeq(s, 1, Len(s) - 1)
         IN  /\ DOMAIN w = 1..(Len(s) - 1)
             /\ \A i \in 1..(Len(s) - 1) : w[i] = s[i] /\ i \in DOMAIN s
<1> DEFINE n == Len(s) - 1
<1> DEFINE w == SubSeq(s, 1, n)
<1>1. n \in Nat /\ DOMAIN s = 1..(n + 1)
  BY LenProperties
<1> HIDE DEF n
<1>2. \A i \in 1..n : s[i] \in S /\ i \in DOMAIN s
  BY <1>1, ElementOfSeq
<1>3. w \in Seq(S) /\ Len(w) = n /\ \A i \in 1..n : w[i] = s[i]
  <2>1. Len(w) = IF 1 <= n THEN n - 1 + 1 ELSE 0
    BY <1>1, <1>2, SubSeqProperties
  <2>2. n = IF 1 <= n THEN n - 1 + 1 ELSE 0
    BY <1>1
  <2>3. w \in Seq(S) /\ \A i \in 1..n : w[i] = s[i]
    <3>1. w \in Seq(S) /\ \A i \in 1..(n - 1 + 1) : w[i] = s[1 + i - 1]
      BY <1>1, <1>2, SubSeqProperties
    <3> HIDE DEF w
    <3>2. n - 1 + 1 = n /\ \A i \in 1..n : 1 + i - 1 = i
      BY <1>1
    <3> QED BY <3>1, <3>2
  <2> HIDE DEF w
  <2> QED BY <2>1, <2>2, <2>3
<1> HIDE DEF w
<1>4. DOMAIN w = 1..n
  BY <1>3, LenProperties
<1> QED BY <1>2, <1>3, <1>4 DEF n, w

LEMMA StackTop ==
  ASSUME Inv, StackShape, NEW f \in Futures, Innermost(f)
  PROVE  stack # <<>> /\ Top = f
<1>1. stack \in Seq(Futures) /\ Len(stack) \in Nat /\ DOMAIN stack = 1..Len(stack)
  BY LenProperties DEF Inv, TypeOK
<1>2. PICK i \in 1..Len(stack) : stack[i] = f
  BY <1>1 DEF Innermost, StackShape
<1>3. Len(stack) \in DOMAIN stack /\ i <= Len(stack)
  BY <1>1, <1>2
<1>4. Top \in Active /\ root[f] = latest
  BY <1>3 DEF StackShape, Top, Innermost
<1>5. root[Top] \in 1..latest /\ latest \in Nat
  <2>1. root[Top] \in 1..latest
    BY <1>4 DEF Inv, ChainShape
  <2>2. value \in Seq(Nat) /\ latest \in 0..Len(value)
    BY DEF Inv, TypeOK
  <2> QED BY <2>1, <2>2, LenProperties
<1>6. ~(i < Len(stack))
  BY <1>1, <1>2, <1>3, <1>4, <1>5 DEF StackShape, Top
<1>7. i = Len(stack) /\ stack # <<>>
  <2>1. i = Len(stack)
    BY <1>1, <1>6, LastIndex
  <2> QED BY <1>2, <2>1, EmptySeq
<1> QED BY <1>2, <1>7 DEF Top

LEMMA StackStep == Inv /\ StackShape /\ [Next]_vars => StackShape'
<1> SUFFICES ASSUME Inv, StackShape, [Next]_vars PROVE StackShape'
  OBVIOUS
<1>0. /\ stack \in Seq(Futures) /\ Len(stack) \in Nat /\ DOMAIN stack = 1..Len(stack)
      /\ at \in [Futures -> Where] /\ root \in [Futures -> 0..Len(value)]
      /\ \A f \in Active : root[f] \in Nat /\ root[f] <= Len(value)
  <2>1. Len(value) \in Nat
    BY LenProperties DEF Inv, TypeOK
  <2> QED BY <2>1, LenProperties DEF Inv, TypeOK, Active
<1>1. CASE UNCHANGED <<stack, root, Active>>
  BY <1>1 DEF StackShape
<1>2. ASSUME NEW f \in Futures, BlockOn(f) PROVE StackShape'
  <2> DEFINE n == Len(value) + 1
  <2>1. /\ at[f] = "new" /\ stack' = Append(stack, f)
        /\ at' = [at EXCEPT ![f] = "poll"] /\ root' = [root EXCEPT ![f] = n]
    BY <1>2 DEF BlockOn, NewPromise
  <2>2. /\ stack' \in Seq(Futures) /\ Len(stack') = Len(stack) + 1
        /\ stack'[Len(stack) + 1] = f
        /\ \A i \in 1..Len(stack) : stack'[i] = stack[i]
    BY <1>0, <2>1, AppendProperties
  <2>3. DOMAIN stack' = 1..(Len(stack) + 1)
    BY <2>2, LenProperties
  <2>4. f \notin Active /\ Active' = Active \union {f}
    BY <1>0, <2>1 DEF Active
  <2>5. \A i \in 1..Len(stack) :
          stack'[i] \in Active /\ root'[stack'[i]] = root[stack[i]] /\ root[stack[i]] < n
    <3> SUFFICES ASSUME NEW i \in 1..Len(stack)
                 PROVE  stack'[i] \in Active /\ root'[stack'[i]] = root[stack[i]] /\ root[stack[i]] < n
      OBVIOUS
    <3>1. stack[i] \in Active /\ stack'[i] = stack[i]
      BY <1>0, <2>2 DEF StackShape
    <3>2. stack[i] # f /\ stack[i] \in Futures
      BY <2>4, <3>1 DEF Active
    <3>3. root[stack[i]] \in Nat /\ root[stack[i]] <= Len(value) /\ Len(value) \in Nat
      BY <1>0, <3>1, LenProperties DEF Inv, TypeOK
    <3> QED BY <1>0, <2>1, <3>1, <3>2, <3>3
  <2>6. root'[f] = n
    BY <1>0, <2>1
  <2> HIDE DEF n
  <2>7. \A i \in DOMAIN stack' : stack'[i] \in Active'
    BY <1>0, <2>2, <2>3, <2>4, <2>5
  <2>8. \A g \in Active' : \E i \in DOMAIN stack' : stack'[i] = g
    <3>1. ASSUME NEW g \in Active PROVE \E i \in DOMAIN stack' : stack'[i] = g
      <4>1. PICK i \in 1..Len(stack) : stack[i] = g
        BY <1>0 DEF StackShape
      <4>2. i \in DOMAIN stack' /\ stack'[i] = g
        BY <1>0, <2>2, <2>3, <4>1
      <4> QED BY <4>2
    <3>2. Len(stack) + 1 \in DOMAIN stack'
      BY <1>0, <2>3
    <3> QED BY <2>2, <2>4, <3>1, <3>2
  <2>9. ASSUME NEW i \in DOMAIN stack', NEW j \in DOMAIN stack', i < j
        PROVE  root'[stack'[i]] < root'[stack'[j]]
    <3>1. i \in 1..Len(stack)
      BY <1>0, <2>3, <2>9
    <3>2. CASE j = Len(stack) + 1
      BY <2>2, <2>5, <2>6, <3>1, <3>2
    <3>3. CASE j # Len(stack) + 1
      <4>1. j \in 1..Len(stack)
        BY <1>0, <2>3, <3>3
      <4>2. root[stack[i]] < root[stack[j]]
        BY <1>0, <2>9, <3>1, <4>1 DEF StackShape
      <4> QED BY <2>5, <3>1, <4>1, <4>2
    <3> QED BY <3>2, <3>3
  <2> QED BY <2>7, <2>8, <2>9 DEF StackShape
<1>3. ASSUME NEW f \in Futures, PollReady(f) PROVE StackShape'
  <2>1. /\ stack # <<>> /\ stack[Len(stack)] = f
        /\ stack' = SubSeq(stack, 1, Len(stack) - 1) /\ root' = root
        /\ at' = [at EXCEPT ![f] = "returned"] /\ f \in Active
    BY <1>3 DEF PollReady, Running, Top, Active
  <2>2. Len(stack) \in Nat \ {0}
    BY <1>0, <2>1, EmptySeq
  <2>3. /\ DOMAIN stack' = 1..(Len(stack) - 1)
        /\ \A i \in 1..(Len(stack) - 1) : stack'[i] = stack[i] /\ i \in DOMAIN stack
    BY <1>0, <2>1, <2>2, TopTaken
  <2>4. Active' = Active \ {f}
    BY <1>0, <2>1 DEF Active
  <2>5. \A i \in 1..(Len(stack) - 1) : stack[i] # f
    <3> SUFFICES ASSUME NEW i \in 1..(Len(stack) - 1), stack[i] = f PROVE FALSE
      OBVIOUS
    <3>1. i < Len(stack) /\ i \in DOMAIN stack /\ Len(stack) \in DOMAIN stack
      BY <1>0, <2>2
    <3>2. root[f] < root[f] /\ root[f] \in Nat
      BY <1>0, <2>1, <3>1 DEF StackShape
    <3> QED BY <3>2
  <2>6. \A g \in Active \ {f} : \E i \in 1..(Len(stack) - 1) : stack[i] = g
    <3> SUFFICES ASSUME NEW g \in Active, g # f
                 PROVE  \E i \in 1..(Len(stack) - 1) : stack[i] = g
      OBVIOUS
    <3>1. PICK i \in 1..Len(stack) : stack[i] = g
      BY <1>0 DEF StackShape
    <3>2. i # Len(stack)
      BY <2>1, <3>1
    <3>3. i \in 1..(Len(stack) - 1)
      BY <2>2, <3>2
    <3> QED BY <3>1, <3>3
  <2>7. \A i \in DOMAIN stack' : stack'[i] \in Active'
    BY <2>3, <2>4, <2>5 DEF StackShape
  <2>8. \A g \in Active' : \E i \in DOMAIN stack' : stack'[i] = g
    BY <2>3, <2>4, <2>6
  <2>9. \A i, j \in DOMAIN stack' : i < j => root'[stack'[i]] < root'[stack'[j]]
    BY <2>1, <2>3 DEF StackShape
  <2> QED BY <2>7, <2>8, <2>9 DEF StackShape
<1>4. ASSUME NEW f \in Futures, PollPending(f) \/ Resume(f)
      PROVE  UNCHANGED <<stack, root, Active>>
  BY <1>0, <1>4 DEF PollPending, Resume, Running, Active
<1>5. ASSUME NEW f \in Futures, RunWake(f) \/ Fire(f) \/ SpuriousWake(f) \/ Wake(f)
      PROVE  UNCHANGED <<stack, root, Active>>
  BY <1>5 DEF RunWake, Fire, SpuriousWake, Wake, callVars, Active
<1>6. CASE UNCHANGED vars
  BY <1>1, <1>6 DEF vars, callVars, Active
<1> QED BY <1>1, <1>2, <1>3, <1>4, <1>5, <1>6 DEF Next

LEMMA SleepStep == Inv /\ SleepsUnready /\ [Next]_vars => SleepsUnready'
<1> SUFFICES ASSUME Inv, SleepsUnready, [Next]_vars,
                    NEW g \in Futures, at'[g] = "await"
             PROVE  seen'[g] < Events
  BY DEF SleepsUnready
<1>0. /\ at \in [Futures -> Where] /\ seen \in [Futures -> 0..Events]
      /\ fired \in [Futures -> 0..Events] /\ Events \in Nat
  BY BlockOnAssumption DEF Inv, TypeOK
<1>1. CASE at[g] = "await" /\ seen'[g] = seen[g]
  BY <1>1 DEF SleepsUnready
<1>2. ASSUME NEW f \in Futures, PollPending(f) PROVE seen'[g] < Events
  <2>1. CASE g = f
    BY <1>0, <1>2, <2>1 DEF PollPending, Ready
  <2>2. CASE g # f
    BY <1>0, <1>1, <1>2, <2>2 DEF PollPending
  <2> QED BY <2>1, <2>2
<1>3. ASSUME NEW f \in Futures, BlockOn(f) \/ PollReady(f) \/ Resume(f)
      PROVE  at[g] = "await" /\ seen'[g] = seen[g]
  BY <1>0, <1>3 DEF BlockOn, PollReady, Resume
<1>4. ASSUME NEW f \in Futures, RunWake(f) \/ Fire(f) \/ SpuriousWake(f) \/ Wake(f)
      PROVE  at[g] = "await" /\ seen'[g] = seen[g]
  BY <1>4 DEF RunWake, Fire, SpuriousWake, Wake, callVars
<1>5. CASE UNCHANGED vars
  BY <1>1, <1>5 DEF vars, callVars
<1> QED BY <1>1, <1>2, <1>3, <1>4, <1>5 DEF Next

LEMMA WayExists == Inv /\ StackInv => ReadyHasAWay
<1> SUFFICES ASSUME Inv, StackInv, NEW f \in Futures, Innermost(f), Ready(f)
             PROVE  WayBack(f)
  BY DEF ReadyHasAWay
<1>1. stack # <<>> /\ Top = f
  BY StackTop DEF StackInv
<1>2. CASE at[f] = "poll"
  BY <1>1, <1>2 DEF WayBack, Running
<1>3. CASE at[f] = "await"
  <2>1. seen[f] < fired[f]
    BY <1>3 DEF StackInv, SleepsUnready, Ready
  <2>2. calls[f] > 0 \/ posted[f] > 0 \/ Fulfilled(f)
    BY <1>3, <2>1 DEF Inv, WakeUnderway
  <2>3. AtEventLoop
    BY <1>1, <1>3 DEF AtEventLoop
  <2> HIDE DEF Fulfilled
  <2> QED BY <1>1, <1>3, <2>2, <2>3 DEF WayBack
<1> QED BY <1>2, <1>3 DEF Innermost, Active

(* A wake that is delivered to the thread fulfils the promise that the latest
   call sleeps on, and leaves one that was fulfilled as it is. *)
LEMMA DeliveredWake ==
  ASSUME Inv, NEW f \in Futures, Innermost(f), NEW g \in Futures, RunWake(g)
  PROVE  Fulfilled(f)'
<1>1. /\ value \in Seq(Nat) /\ Len(value) \in Nat /\ current = Len(value)
      /\ promise[f] \in root[f]..current /\ root[f] \in 1..latest /\ root[f] = latest
  BY LenProperties DEF Inv, TypeOK, ChainShape, Innermost
<1>2. promise[f] \in 1..Len(value) /\ current \in 1..Len(value) /\ latest \in Nat
  <2>1. latest \in 0..Len(value) /\ promise[f] \in 0..Len(value)
    BY DEF Inv, TypeOK
  <2> QED BY <1>1, <2>1
<1>3. /\ promise' = promise
      /\ value' = Append([value EXCEPT ![current] = Len(value) + 1], Pending)
  BY <1>2 DEF RunWake, Fulfil, NewPromise, Pending
<1>4. value'[promise[f]] = IF promise[f] = current THEN Len(value) + 1 ELSE value[promise[f]]
  BY <1>1, <1>2, <1>3, FulfilledPromise
<1>5. promise[f] # current => value[promise[f]] = promise[f] + 1
  BY <1>1, <1>2 DEF Inv, ChainShape
<1> QED BY <1>1, <1>2, <1>3, <1>4, <1>5 DEF Fulfilled, Pending

LEMMA ReadyStep ==
  ASSUME Inv, StackInv, Next
  PROVE  ReadyComesBack
<1> SUFFICES ASSUME NEW f \in Futures, Innermost(f), Ready(f),
                    \A g \in Futures : ~BlockOn(g)
             PROVE  \/ PollReady(f) /\ at'[f] = "returned"
                    \/ /\ (Innermost(f) /\ Ready(f))'
                       /\ StepsBack(f)' <= StepsBack(f)
                       /\ Helps(f) => StepsBack(f)' < StepsBack(f)
  BY DEF ReadyComesBack
<1>0. /\ at \in [Futures -> Where] /\ fired \in [Futures -> 0..Events]
      /\ posted \in [Futures -> Nat] /\ calls \in [Futures -> Nat]
      /\ at[f] \in {"poll", "await"} /\ Events \in Nat
      /\ stack # <<>> /\ Top = f
  BY StackTop, BlockOnAssumption DEF Inv, TypeOK, StackInv, Innermost, Active
<1>1. ASSUME NEW g \in Futures, PollReady(g)
      PROVE  PollReady(f) /\ at'[f] = "returned"
  BY <1>0, <1>1 DEF PollReady, Running
<1>2. ASSUME NEW g \in Futures, PollPending(g) PROVE FALSE
  BY <1>0, <1>2 DEF PollPending, Running
<1>3. ASSUME NEW g \in Futures, Resume(g)
      PROVE  /\ (Innermost(f) /\ Ready(f))'
             /\ StepsBack(f)' < StepsBack(f) /\ StepsBack(f)' <= StepsBack(f)
  <2>1. g = f /\ Fulfilled(f) /\ at[f] = "await"
    BY <1>0, <1>3 DEF Resume
  <2>2. at' = [at EXCEPT ![f] = "poll"] /\ UNCHANGED <<root, latest, fired>>
    BY <1>3, <2>1 DEF Resume, sourceVars
  <2>3. at'[f] = "poll"
    BY <1>0, <2>2
  <2>4. (Innermost(f) /\ Ready(f))'
    BY <2>2, <2>3 DEF Innermost, Active, Ready
  <2> HIDE DEF Fulfilled
  <2> QED BY <2>1, <2>3, <2>4 DEF StepsBack
<1>4. ASSUME NEW g \in Futures, RunWake(g)
      PROVE  /\ (Innermost(f) /\ Ready(f))'
             /\ StepsBack(f)' <= StepsBack(f)
             /\ StepsBack(f) > 2 => StepsBack(f)' < StepsBack(f)
  <2>1. UNCHANGED <<stack, at, root, latest, fired>>
    BY <1>4 DEF RunWake, callVars
  <2>2. at[f] = "await"
    BY <1>0, <1>4 DEF RunWake, AtEventLoop
  <2>3. Fulfilled(f)'
    BY <1>4, DeliveredWake
  <2>4. (Innermost(f) /\ Ready(f))'
    BY <2>1 DEF Innermost, Active, Ready
  <2> HIDE DEF Fulfilled
  <2>5. StepsBack(f)' = 2 /\ StepsBack(f) \in {2, 3, 4}
    BY <2>1, <2>2, <2>3 DEF StepsBack
  <2> QED BY <2>4, <2>5
<1>5. ASSUME NEW g \in Futures, Fire(g) \/ SpuriousWake(g) \/ Wake(g)
      PROVE  /\ (Innermost(f) /\ Ready(f))'
             /\ StepsBack(f)' <= StepsBack(f)
             /\ Wake(f) /\ StepsBack(f) = 4 => StepsBack(f)' < StepsBack(f)
  <2>1. UNCHANGED <<at, root, latest, promise, value>>
    BY <1>5 DEF Fire, SpuriousWake, Wake, callVars, chainVars
  <2>2. fired'[f] = fired[f]
    BY <1>0, <1>5 DEF Fire, SpuriousWake, Wake, Ready
  <2>3. posted[f] > 0 => posted'[f] > 0
    BY <1>0, <1>5 DEF Fire, SpuriousWake, Wake
  <2>4. Wake(f) => posted'[f] > 0
    BY <1>0 DEF Wake
  <2>5. Fulfilled(f)' = Fulfilled(f)
    BY <2>1 DEF Fulfilled
  <2>6. (Innermost(f) /\ Ready(f))'
    BY <2>1, <2>2 DEF Innermost, Active, Ready
  <2> HIDE DEF Fulfilled
  <2>7. StepsBack(f)' <= StepsBack(f)
    BY <2>1, <2>3, <2>5 DEF StepsBack
  <2>8. Wake(f) /\ StepsBack(f) = 4 => StepsBack(f)' < StepsBack(f)
    BY <2>1, <2>4, <2>5 DEF StepsBack
  <2> QED BY <2>6, <2>7, <2>8
<1>6. Resume(f) => StepsBack(f)' < StepsBack(f)
  BY <1>3
<1>7. RunWake(f) /\ StepsBack(f) = 3 => StepsBack(f)' < StepsBack(f)
  BY <1>4
<1>8. Wake(f) /\ StepsBack(f) = 4 => StepsBack(f)' < StepsBack(f)
  BY <1>5
<1> QED BY <1>1, <1>2, <1>3, <1>4, <1>5, <1>6, <1>7, <1>8 DEF Next, Helps

(* block_on, with any nesting and any wakes: the latest call, once its future
   is ready, is never without a step that brings it nearer to its return; a
   delivered wake always reaches it, and only a later call sets it back. *)
THEOREM ReadyCallsReturn == Spec => []ReadyHasAWay /\ [][ReadyComesBack]_vars
<1>1. Init => StackInv
  <2>1. ASSUME Init PROVE DOMAIN stack = {} /\ Active = {} /\ SleepsUnready
    <3>1. <<>> \in Seq(Futures) /\ DOMAIN <<>> = {}
      BY EmptySeq, LenProperties
    <3> QED BY <2>1, <3>1 DEF Init, Active, SleepsUnready
  <2> QED BY <2>1 DEF StackInv, StackShape
<1>2. Inv /\ StackInv /\ [Next]_vars => StackInv'
  BY StackStep, SleepStep DEF StackInv
<1>3. Inv /\ StackInv /\ [Next]_vars => [ReadyComesBack]_vars
  BY ReadyStep
<1> QED BY <1>1, <1>2, <1>3, WayExists, Invariance, PTL DEF Spec
=============================================================================
