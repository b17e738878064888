------------------------- MODULE FetchChunksProofs --------------------------
(***************************************************************************)
(* Proofs about FetchChunks, for bodies of any length.  The inductive      *)
(* invariant says that every channel but the last carries the chunk of its *)
(* number, and that the consumer has yielded exactly the chunks of the     *)
(* channels before the one it holds.  Each step of the chain is then a     *)
(* step of ByteStream, or leaves its variables alone.                      *)
(*                                                                         *)
(* The last part is about ResponseReader, which reads such a stream: its   *)
(* bytes come in order, for chunks and slices of any length, and none of   *)
(* its numbers passes the length of the body.                              *)
(***************************************************************************)
EXTENDS FetchChunks, ResponseReader, SequenceTheorems, TLAPS

(* The chain of channels. *)
Chain ==
  /\ delivered \in 0..MaxChunks
  /\ channel \in Seq(Int) /\ Len(channel) = delivered + 1
  /\ \A k \in 1..delivered : channel[k] = k
  /\ Last \in Errors \union {Closed, Empty}

(* The reader of the body and its box. *)
Reader ==
  /\ js \in {"start", "reading", "over", "no body"}
  /\ IF js = "over" THEN userData = 0 /\ Last # Empty
                    ELSE userData = delivered + 1 /\ Last = Empty

(* The consumer: its flags, and its place in the chain. *)
Flags == registered \in BOOLEAN /\ awake \in BOOLEAN /\ dropped \in BOOLEAN

Place ==
  /\ recv \in 0..(delivered + 1)
  /\ out \in Seq(Errors \union {None} \union 1..MaxChunks)
  /\ recv # 0 => Len(out) = recv - 1
  /\ recv = 0 /\ awake = TRUE => Len(out) > delivered /\ Last # Empty
  /\ registered = TRUE => recv = delivered + 1 /\ Last = Empty

Consumer == Flags /\ Place

IInv == Chain /\ Reader /\ Consumer

(* Something is put into the last channel. *)
LEMMA LastFilled ==
  ASSUME NEW s \in Seq(Int), NEW n \in Nat, Len(s) = n + 1, NEW x \in Int,
         NEW t, t = [s EXCEPT ![n + 1] = x]
  PROVE  /\ t \in Seq(Int) /\ Len(t) = n + 1
         /\ t[n + 1] = x
         /\ \A k \in 1..n : t[k] = s[k]
         /\ SubSeq(t, 1, n) = SubSeq(s, 1, n)
<1>1. /\ t \in Seq(Int) /\ Len(t) = n + 1 /\ t[n + 1] = x
      /\ \A k \in 1..n : t[k] = s[k]
  OBVIOUS
<1>2. SubSeq(t, 1, n) = SubSeq(s, 1, n)
  BY <1>1
<1> QED
  BY <1>1, <1>2

(* A fresh channel follows the one that a chunk was put into. *)
Extended(s, n, x) == Append([s EXCEPT ![n + 1] = x], Empty)

LEMMA ChannelAdded ==
  ASSUME NEW s \in Seq(Int), NEW n \in Nat, Len(s) = n + 1, NEW x \in Int,
         NEW t, t = Extended(s, n, x)
  PROVE  /\ t \in Seq(Int) /\ Len(t) = n + 2
         /\ t[n + 2] = Empty /\ t[n + 1] = x
         /\ \A k \in 1..n : t[k] = s[k]
         /\ SubSeq(t, 1, n + 1) = Append(SubSeq(s, 1, n), x)
<1> DEFINE u == [s EXCEPT ![n + 1] = x]
<1>1. /\ u \in Seq(Int) /\ Len(u) = n + 1 /\ u[n + 1] = x
      /\ \A k \in 1..n : u[k] = s[k]
  BY LastFilled
<1>2. t = Append(u, Empty)
  BY DEF Extended
<1> HIDE DEF u
<1>3. /\ t \in Seq(Int) /\ Len(t) = n + 2 /\ t[n + 2] = Empty
      /\ \A k \in 1..(n + 1) : t[k] = u[k]
  BY <1>1, <1>2 DEF Empty
<1>4. SubSeq(t, 1, n + 1) = Append(SubSeq(s, 1, n), x)
  <2>1. Len(SubSeq(t, 1, n + 1)) = n + 1 /\ SubSeq(t, 1, n + 1) \in Seq(Int)
    BY <1>3
  <2>2. /\ Len(Append(SubSeq(s, 1, n), x)) = n + 1
        /\ Append(SubSeq(s, 1, n), x) \in Seq(Int)
    OBVIOUS
  <2>3. ASSUME NEW k \in 1..(n + 1)
        PROVE  SubSeq(t, 1, n + 1)[k] = Append(SubSeq(s, 1, n), x)[k]
    <3>1. SubSeq(t, 1, n + 1)[k] = u[k]
      BY <1>3
    <3>2. CASE k \in 1..n
      BY <1>1, <3>1, <3>2
    <3>3. CASE k = n + 1
      BY <1>1, <3>1, <3>3
    <3> QED
      BY <3>2, <3>3
  <2> QED
    BY <2>1, <2>2, <2>3
<1> QED
  BY <1>1, <1>3, <1>4

-----------------------------------------------------------------------------
LEMMA InitIInv == Init => IInv
<1> SUFFICES ASSUME Init PROVE IInv
  OBVIOUS
<1> USE DEF Init, Empty, Closed, Errors
<1>1. Chain
  BY FetchChunksAssumption DEF Chain, Last
<1>2. Reader
  BY DEF Reader, Last
<1>3. Flags
  BY DEF Flags
<1>4. Place
  <2>1. out \in Seq(Errors \union {None} \union 1..MaxChunks) /\ Len(out) = 0
    OBVIOUS
  <2>2. registered = FALSE /\ recv = 1 /\ delivered = 0
    OBVIOUS
  <2> QED
    BY <2>1, <2>2 DEF Place
<1> QED
  BY <1>1, <1>2, <1>3, <1>4 DEF IInv, Consumer

(* What a step of the browser's reader does to the chain. *)
LEMMA ReadChunkChain ==
  ASSUME Chain, Reader, ReadChunk
  PROVE  /\ Chain' /\ Last = Empty /\ Last' = Empty
         /\ userData = delivered + 1 /\ userData' = delivered' + 1
         /\ SubSeq(channel', 1, Len(channel') - 1)
              = Append(SubSeq(channel, 1, Len(channel) - 1), delivered')
<1>1. /\ js = "reading" /\ delivered < MaxChunks /\ delivered' = delivered + 1
      /\ channel' = Append([channel EXCEPT ![delivered + 1] = delivered'], Empty)
      /\ userData' = Len(channel) + 1
      /\ userData = delivered + 1 /\ Last = Empty
  BY DEF ReadChunk, ChunkSent, NewSender, Reader
<1>2. /\ delivered \in Nat /\ MaxChunks \in Nat /\ delivered' \in Int
      /\ channel \in Seq(Int) /\ Len(channel) = delivered + 1
      /\ \A k \in 1..delivered : channel[k] = k
  BY <1>1, FetchChunksAssumption DEF Chain
<1>3. /\ channel' \in Seq(Int) /\ Len(channel') = delivered + 2
      /\ channel'[delivered + 2] = Empty /\ channel'[delivered + 1] = delivered'
      /\ \A k \in 1..delivered : channel'[k] = channel[k]
      /\ SubSeq(channel', 1, delivered + 1) = Append(SubSeq(channel, 1, delivered), delivered')
  <2>1. channel' = Extended(channel, delivered, delivered')
    BY <1>1 DEF Extended
  <2>2. /\ delivered \in Nat /\ delivered' \in Int
        /\ channel \in Seq(Int) /\ Len(channel) = delivered + 1
    BY <1>2
  <2>3. \A t : t = Extended(channel, delivered, delivered') =>
          /\ t \in Seq(Int) /\ Len(t) = delivered + 2
          /\ t[delivered + 2] = Empty /\ t[delivered + 1] = delivered'
          /\ \A k \in 1..delivered : t[k] = channel[k]
          /\ SubSeq(t, 1, delivered + 1) = Append(SubSeq(channel, 1, delivered), delivered')
    BY <2>2, ChannelAdded
  <2> QED
    BY <2>1, <2>3
<1>4. Last' = Empty
  BY <1>2, <1>3 DEF Last
<1>5. \A k \in 1..delivered' : channel'[k] = k
  BY <1>1, <1>2, <1>3
<1>6. Chain'
  BY <1>1, <1>2, <1>3, <1>4, <1>5 DEF Chain
<1> QED
  BY <1>1, <1>2, <1>3, <1>4, <1>6

LEMMA CloseChain ==
  ASSUME Chain, Reader, js = "reading", UNCHANGED delivered,
         NEW x \in Errors \union {Closed},
         channel' = [channel EXCEPT ![userData] = x]
  PROVE  /\ Chain' /\ Last = Empty /\ Last' = x /\ userData = delivered + 1
         /\ SubSeq(channel', 1, Len(channel') - 1) = SubSeq(channel, 1, Len(channel) - 1)
<1>1. userData = delivered + 1 /\ Last = Empty
  BY DEF Reader
<1>2. /\ delivered \in Nat /\ x \in Int
      /\ channel \in Seq(Int) /\ Len(channel) = delivered + 1
      /\ \A k \in 1..delivered : channel[k] = k
  BY FetchChunksAssumption DEF Chain, Errors, Closed
<1>3. /\ channel' \in Seq(Int) /\ Len(channel') = delivered + 1
      /\ channel'[delivered + 1] = x
      /\ \A k \in 1..delivered : channel'[k] = channel[k]
      /\ SubSeq(channel', 1, delivered) = SubSeq(channel, 1, delivered)
  BY <1>1, <1>2, LastFilled
<1>4. Last' = x
  BY <1>3 DEF Last
<1>5. Chain'
  BY <1>2, <1>3, <1>4 DEF Chain
<1> QED
  BY <1>1, <1>2, <1>3, <1>4, <1>5

(* Waking the receiver of the last channel leaves a consumer that is awake, if
   it was registered, and never one that is registered there. *)
LEMMA WakeConsumer ==
  ASSUME Chain, Consumer, WakeReceiver(delivered + 1)
  PROVE  /\ registered' = FALSE /\ awake' \in BOOLEAN
         /\ recv = 0 => awake' = awake
<1> USE DEF Consumer, Flags, Place
<1>1. CASE registered
  <2>1. recv = delivered + 1
    BY <1>1
  <2>2. recv # 0
    BY <2>1, FetchChunksAssumption DEF Chain
  <2> QED
    BY <1>1, <2>1, <2>2 DEF WakeReceiver
<1>2. CASE ~registered
  <2>1. UNCHANGED <<registered, awake>>
    BY <1>2 DEF WakeReceiver
  <2>2. registered = FALSE /\ awake \in BOOLEAN
    BY <1>2
  <2> QED
    BY <2>1, <2>2
<1> QED
  BY <1>1, <1>2

(* What the consumer's own steps, and Drop, have in common. *)
ConsumerStep == PollChunk \/ PollError \/ PollEnd \/ PollPending \/ SpuriousPoll \/ Drop

LEMMA ConsumerKeepsChain ==
  ASSUME IInv, ConsumerStep \/ UNCHANGED vars
  PROVE  /\ UNCHANGED <<js, delivered, channel, userData>>
         /\ Chain' /\ Reader' /\ Last' = Last
<1>1. UNCHANGED <<js, delivered, channel, userData>>
  BY DEF ConsumerStep, PollChunk, PollError, PollEnd, PollPending, SpuriousPoll, Drop, vars
<1> QED
  BY <1>1 DEF IInv, Chain, Reader, Last

(* Where the consumer stands when it polls: at a chunk, or at the last channel,
   or behind it. *)
LEMMA WhereItPolls ==
  ASSUME IInv
  PROVE  /\ PollChunk => /\ recv \in 1..delivered /\ channel[recv] = recv
                         /\ recv \in 1..MaxChunks /\ Len(out) = recv - 1
         /\ PollError => recv = delivered + 1 /\ Last = channel[recv] /\ Len(out) = delivered
         /\ PollEnd => \/ recv = delivered + 1 /\ Last = Closed /\ Len(out) = delivered
                       \/ recv = 0 /\ Len(out) > delivered /\ Last # Empty
         /\ PollPending => recv = delivered + 1 /\ Last = Empty
<1> USE DEF IInv, Chain, Consumer, Place, Errors, Closed, Empty
<1>1. delivered \in Nat /\ MaxChunks \in Nat /\ delivered <= MaxChunks
  BY FetchChunksAssumption
<1>2. Last = channel[delivered + 1]
  BY DEF Last
<1>3. recv \in 1..delivered \/ recv = delivered + 1 \/ recv = 0
  BY <1>1
<1>4. ASSUME PollChunk
      PROVE  /\ recv \in 1..delivered /\ channel[recv] = recv
             /\ recv \in 1..MaxChunks /\ Len(out) = recv - 1
  BY <1>1, <1>2, <1>3, <1>4 DEF PollChunk
<1>5. ASSUME PollError
      PROVE  recv = delivered + 1 /\ Last = channel[recv] /\ Len(out) = delivered
  BY <1>1, <1>2, <1>3, <1>5 DEF PollError
<1>6. ASSUME PollEnd
      PROVE  \/ recv = delivered + 1 /\ Last = Closed /\ Len(out) = delivered
             \/ recv = 0 /\ Len(out) > delivered /\ Last # Empty
  <2>1. awake = TRUE
    BY <1>6 DEF PollEnd, Flags
  <2>2. CASE recv = 0
    BY <2>1, <2>2
  <2>3. CASE recv # 0
    <3>1. channel[recv] = Closed
      BY <1>6, <2>3 DEF PollEnd
    <3> QED
      BY <1>1, <1>2, <1>3, <2>3, <3>1
  <2> QED
    BY <2>2, <2>3
<1>7. ASSUME PollPending
      PROVE  recv = delivered + 1 /\ Last = Empty
  BY <1>1, <1>2, <1>3, <1>7 DEF PollPending
<1> QED
  BY <1>4, <1>5, <1>6, <1>7

(* A consumer that holds a channel with something in it is not registered. *)
LEMMA NotRegistered ==
  ASSUME IInv, recv # delivered + 1 \/ Last # Empty
  PROVE  registered = FALSE
  BY DEF IInv, Consumer, Flags, Place

LEMMA NextIInv == IInv /\ [Next]_vars => IInv'
<1> SUFFICES ASSUME IInv, [Next]_vars PROVE IInv'
  OBVIOUS
<1>0. delivered \in Nat /\ MaxChunks \in Nat /\ Chain /\ Reader /\ Consumer /\ Flags /\ Place
  BY FetchChunksAssumption DEF IInv, Chain, Consumer
<1> USE <1>0
<1>1. CASE GetReader
  <2>1. UNCHANGED <<delivered, channel, userData, recv, registered, awake, dropped, out>>
    BY <1>1 DEF GetReader
  <2>2. Chain' /\ Last' = Last
    BY <2>1 DEF Chain, Last
  <2>3. Reader'
    BY <1>1, <2>1, <2>2 DEF GetReader, Reader
  <2>4. Flags' /\ Place'
    BY <2>1, <2>2 DEF Flags, Place
  <2> QED
    BY <2>2, <2>3, <2>4 DEF IInv, Consumer
<1>2. CASE ReadChunk
  <2>1. /\ Chain' /\ Last = Empty /\ Last' = Empty
        /\ userData = delivered + 1 /\ userData' = delivered' + 1
    BY <1>2, ReadChunkChain
  <2>2. /\ js' = js /\ js # "over" /\ recv' = recv /\ out' = out /\ dropped' = dropped
        /\ delivered' = delivered + 1
    BY <1>2 DEF ReadChunk
  <2>3. registered' = FALSE /\ awake' \in BOOLEAN /\ (recv = 0 => awake' = awake)
    BY <1>2, <2>1, WakeConsumer DEF ReadChunk
  <2>4. Reader'
    BY <2>1, <2>2 DEF Reader
  <2>5. Flags'
    BY <2>2, <2>3 DEF Flags
  <2>6. recv' = 0 => awake' # TRUE
    BY <2>1, <2>2, <2>3 DEF Place
  <2>7. Place'
    <3>1. recv \in 0..(delivered' + 1) /\ (recv # 0 => Len(out) = recv - 1)
          /\ out \in Seq(Errors \union {None} \union 1..MaxChunks)
      BY <2>2 DEF Place
    <3>2. registered' # TRUE
      BY <2>3
    <3> HIDE <1>0
    <3> QED
      BY <2>2, <2>6, <3>1, <3>2, Zenon DEF Place
  <2> QED
    BY <2>1, <2>4, <2>5, <2>7 DEF IInv, Consumer
<1>3. ASSUME NEW x \in Errors \union {Closed}, js = "reading", js' = "over",
             channel' = [channel EXCEPT ![userData] = x], userData' = 0,
             WakeReceiver(userData), UNCHANGED <<delivered, recv, dropped, out>>
      PROVE  IInv'
  <2>1. Chain' /\ Last = Empty /\ Last' = x /\ userData = delivered + 1
    BY <1>3, CloseChain
  <2>2. registered' = FALSE /\ awake' \in BOOLEAN /\ (recv = 0 => awake' = awake)
    BY <1>3, <2>1, WakeConsumer
  <2>3. x # Empty
    BY DEF Errors, Closed, Empty
  <2>4. Reader'
    BY <1>3, <2>1, <2>3 DEF Reader
  <2>5. Flags'
    BY <1>3, <2>2 DEF Flags
  <2>6. Place'
    BY <1>3, <2>1, <2>2, <2>3 DEF Place
  <2> QED
    BY <2>1, <2>4, <2>5, <2>6 DEF IInv, Consumer
<1>4. CASE ReadDone
  BY <1>3, <1>4 DEF ReadDone, EndDropped
<1>5. ASSUME NEW e \in Errors, ReadFails(e) PROVE IInv'
  BY <1>3, <1>5 DEF ReadFails
<1>6. CASE ConsumerStep \/ UNCHANGED vars
  <2>1. Chain' /\ Reader' /\ Last' = Last /\ delivered' = delivered
    BY <1>6, ConsumerKeepsChain
  <2>2. Flags'
    BY <1>6 DEF ConsumerStep, PollChunk, PollError, PollEnd, PollPending, SpuriousPoll, Drop,
                vars, Flags
  <2>3. Place'
    <3>1. CASE PollChunk
      <4>1. /\ recv \in 1..delivered /\ channel[recv] = recv
            /\ recv \in 1..MaxChunks /\ Len(out) = recv - 1
        BY <3>1, WhereItPolls
      <4>2. recv' = recv + 1 /\ out' = Append(out, recv)
        BY <3>1, <4>1 DEF PollChunk, RecvNext
      <4>3. registered' = FALSE
        <5>1. recv # delivered + 1
          BY <4>1
        <5>2. registered = FALSE
          BY <5>1, NotRegistered
        <5> QED
          BY <3>1, <5>2 DEF PollChunk
      <4> QED
        BY <2>1, <4>1, <4>2, <4>3 DEF Place
    <3>2. CASE PollError
      <4>1. recv = delivered + 1 /\ Last = channel[recv] /\ Len(out) = delivered
        BY <3>2, WhereItPolls
      <4>2. recv' = 0 /\ out' = Append(out, Last) /\ Last \in Errors /\ Last # Empty
        BY <3>2, <4>1 DEF PollError, Errors, Empty
      <4>3. registered' = FALSE
        BY <3>2, <4>2, NotRegistered DEF PollError
      <4> QED
        BY <2>1, <4>1, <4>2, <4>3 DEF Place
    <3>3. CASE PollEnd
      <4>1. Last # Empty /\ Len(out) >= delivered
        BY <3>3, WhereItPolls DEF Closed, Empty, Place
      <4>2. recv' = 0 /\ out' = Append(out, None)
        BY <3>3 DEF PollEnd
      <4>3. registered' = FALSE
        BY <3>3, <4>1, NotRegistered DEF PollEnd
      <4> QED
        BY <2>1, <4>1, <4>2, <4>3 DEF Place
    <3>4. CASE PollPending
      <4>1. recv = delivered + 1 /\ Last = Empty
        BY <3>4, WhereItPolls
      <4>2. recv' = recv /\ out' = out
        BY <3>4 DEF PollPending
      <4> QED
        BY <2>1, <4>1, <4>2 DEF Place
    <3>5. CASE SpuriousPoll
      BY <2>1, <3>5 DEF SpuriousPoll, Place
    <3>6. CASE Drop
      <4>1. recv' = 0 /\ out' = out /\ registered' = FALSE /\ awake' = FALSE
        BY <3>6 DEF Drop
      <4> QED
        BY <2>1, <4>1 DEF Place
    <3>7. CASE UNCHANGED vars
      BY <2>1, <3>7 DEF vars, Place
    <3> QED
      BY <1>6, <3>1, <3>2, <3>3, <3>4, <3>5, <3>6, <3>7 DEF ConsumerStep
  <2> QED
    BY <2>1, <2>2, <2>3 DEF IInv, Consumer
<1> QED
  BY <1>1, <1>2, <1>4, <1>5, <1>6 DEF Next, Poll, ConsumerStep

(* The inductive invariant holds in every reachable state of the chain made by
   ResponseBody::chunks. *)
THEOREM Invariance == Spec => []IInv
  BY InitIInv, NextIInv, PTL DEF Spec

-----------------------------------------------------------------------------
(* The stream that the chain stands for. *)
Given == SubSeq(channel, 1, Len(channel) - 1)
Source == IF Last = Closed THEN None ELSE IF Last \in Errors THEN Last ELSE Empty

LEMMA GivenChunks ==
  ASSUME IInv
  PROVE  /\ delivered \in Nat /\ Len(Given) = delivered
         /\ \A k \in 1..delivered : Given[k] = channel[k]
<1>1. delivered \in Nat /\ channel \in Seq(Int) /\ Len(channel) = delivered + 1
  BY FetchChunksAssumption DEF IInv, Chain
<1> QED
  BY <1>1 DEF Given

(* A step that leaves the chain alone leaves the stream's past alone. *)
LEMMA SameStream ==
  ASSUME UNCHANGED channel PROVE Given' = Given /\ Source' = Source
  BY DEF Given, Source, Last

(* A chunk or an end that the browser's reader puts into the chain is one that
   the stream is given. *)
LEMMA ReaderGives == IInv /\ ReadChunk => Stream!Give(delivered')
<1> SUFFICES ASSUME IInv, ReadChunk PROVE Stream!Give(delivered')
  OBVIOUS
<1>1. Chain /\ Reader
  BY DEF IInv
<1>2. Last = Empty /\ Last' = Empty /\ Given' = Append(Given, delivered')
  BY <1>1, ReadChunkChain DEF Given
<1>3. Source = Empty /\ Source' = Empty
  BY <1>2 DEF Source, Empty, Closed, Errors
<1>4. out' = out
  BY DEF ReadChunk
<1> QED
  BY <1>2, <1>3, <1>4 DEF Stream!Give, Given, Source

LEMMA ReaderCloses ==
  ASSUME IInv, js = "reading", UNCHANGED <<delivered, out>>,
         NEW x \in Errors \union {Closed}, channel' = [channel EXCEPT ![userData] = x]
  PROVE  \E e \in Errors \union {None} : Stream!Close(e)
<1>1. Chain /\ Reader
  BY DEF IInv
<1>2. Last = Empty /\ Last' = x /\ Given' = Given
  BY <1>1, CloseChain DEF Given
<1>3. Source = Empty /\ Source' \in Errors \union {None}
  BY <1>2 DEF Source, Empty, Closed, Errors
<1> QED
  BY <1>2, <1>3 DEF Stream!Close, Given, Source

(* What poll_next returns is what the stream yields next. *)
LEMMA PollYields ==
  ASSUME IInv, PollChunk \/ PollError \/ PollEnd
  PROVE  Stream!YieldChunk \/ Stream!YieldLast \/ Stream!YieldEnd
<1>1. UNCHANGED channel
  BY DEF PollChunk, PollError, PollEnd
<1>2. Given' = Given /\ Source' = Source
  BY <1>1, SameStream
<1>3. /\ delivered \in Nat /\ Len(Given) = delivered
      /\ \A k \in 1..delivered : Given[k] = channel[k]
  BY GivenChunks
<1>4. CASE PollChunk
  <2>1. /\ recv \in 1..delivered /\ channel[recv] = recv /\ Len(out) = recv - 1
    BY <1>4, WhereItPolls
  <2>2. out' = Append(out, channel[recv])
    BY <1>4 DEF PollChunk
  <2>3. Len(out) < Len(Given) /\ Given[Len(out) + 1] = channel[recv]
    BY <1>3, <2>1
  <2> QED
    BY <1>2, <2>2, <2>3 DEF Stream!YieldChunk, Given, Source
<1>5. CASE PollError
  <2>1. recv = delivered + 1 /\ Last = channel[recv] /\ Len(out) = delivered
    BY <1>5, WhereItPolls
  <2>2. Last \in Errors /\ out' = Append(out, Last)
    BY <1>5, <2>1 DEF PollError
  <2>3. Source = Last /\ Source # Empty
    BY <2>2 DEF Source, Errors, Closed, Empty
  <2> QED
    BY <1>2, <1>3, <2>1, <2>2, <2>3 DEF Stream!YieldLast, Given, Source
<1>6. CASE PollEnd
  <2>1. out' = Append(out, None)
    BY <1>6 DEF PollEnd
  <2>2. \/ Last = Closed /\ Len(out) = delivered
        \/ Len(out) > delivered
    BY <1>6, WhereItPolls
  <2>3. CASE Last = Closed /\ Len(out) = delivered
    <3>1. Source = None /\ Source # Empty
      BY <2>3 DEF Source, None, Empty
    <3> QED
      BY <1>2, <1>3, <2>1, <2>3, <3>1 DEF Stream!YieldLast, Given, Source
  <2>4. CASE Len(out) > delivered
    BY <1>2, <1>3, <2>1, <2>4 DEF Stream!YieldEnd, Given, Source
  <2> QED
    BY <2>2, <2>3, <2>4
<1> QED
  BY <1>4, <1>5, <1>6

LEMMA InitStream == Init => Stream!StreamInit
<1> SUFFICES ASSUME Init PROVE Stream!StreamInit
  OBVIOUS
<1>1. channel = <<0>> /\ out = <<>>
  BY DEF Init, Empty
<1>2. Last = Empty
  BY <1>1 DEF Last, Empty
<1>3. Given = <<>>
  BY <1>1 DEF Given
<1>4. Source = Empty
  BY <1>2 DEF Source, Empty, Closed, Errors
<1> QED
  BY <1>1, <1>3, <1>4 DEF Stream!StreamInit, Given, Source

LEMMA NextStream == IInv /\ [Next]_vars => [Stream!StreamNext]_(Stream!streamVars)
<1> SUFFICES ASSUME IInv, [Next]_vars
             PROVE  Stream!StreamNext \/ (Given' = Given /\ Source' = Source /\ out' = out)
  BY DEF Stream!streamVars, Given, Source
<1>1. CASE ReadChunk
  <2>1. delivered' \in 1..MaxChunks
    BY <1>1, FetchChunksAssumption DEF IInv, Chain, ReadChunk
  <2> QED
    BY <1>1, <2>1, ReaderGives DEF Stream!StreamNext
<1>2. CASE ReadDone \/ \E e \in Errors : ReadFails(e)
  <2>1. \E e \in Errors \union {None} : Stream!Close(e)
    BY <1>2, ReaderCloses DEF ReadDone, ReadFails, EndDropped
  <2> QED
    BY <2>1 DEF Stream!StreamNext
<1>3. CASE PollChunk \/ PollError \/ PollEnd
  BY <1>3, PollYields DEF Stream!StreamNext
<1>4. CASE GetReader \/ PollPending \/ SpuriousPoll \/ Drop \/ UNCHANGED vars
  <2>1. UNCHANGED <<channel, out>>
    BY <1>4 DEF GetReader, PollPending, SpuriousPoll, Drop, vars
  <2> QED
    BY <2>1, SameStream
<1> QED
  BY <1>1, <1>2, <1>3, <1>4 DEF Next, Poll

(* ResponseChunks gives its consumer what ByteStream promises, however long the
   body is: every chunk once and in order, then one error or the end. *)
THEOREM ChainIsAStream == Spec => ImplementsStream
  BY InitStream, NextStream, Invariance, PTL DEF Spec, ImplementsStream, Stream!StreamSpec

(* The box behind user_data is freed exactly when the reader is over, and holds
   an unused sender until then. *)
THEOREM TheSenderIsTheLast == Spec => []SenderIsLast
<1>1. IInv => SenderIsLast
  BY DEF IInv, Chain, Reader, SenderIsLast, Last
<1> QED
  BY <1>1, Invariance, PTL

(* Every variable of the chain keeps its type, so that a channel holds nothing
   but a chunk, an error or the mark of a dropped sender. *)
THEOREM TypeCorrect == Spec => []TypeOK
<1>1. IInv => TypeOK
  <2> SUFFICES ASSUME IInv PROVE TypeOK
    OBVIOUS
  <2> DEFINE Content == Errors \union {Closed, Empty} \union 1..MaxChunks
  <2>1. /\ delivered \in 0..MaxChunks /\ channel \in Seq(Int) /\ Len(channel) = delivered + 1
        /\ \A k \in 1..delivered : channel[k] = k
        /\ channel[delivered + 1] \in Errors \union {Closed, Empty}
    BY FetchChunksAssumption DEF IInv, Chain, Last
  <2>2. \A k \in 1..Len(channel) : channel[k] \in Content
    BY <2>1, FetchChunksAssumption
  <2>3. channel \in Seq(Content)
    BY <2>1, <2>2
  <2>4. /\ js \in {"start", "reading", "over", "no body"}
        /\ userData = 0 \/ userData = delivered + 1
    BY DEF IInv, Reader
  <2>5. /\ registered \in BOOLEAN /\ awake \in BOOLEAN /\ dropped \in BOOLEAN
        /\ recv \in 0..(delivered + 1)
        /\ out \in Seq(Errors \union {None} \union 1..MaxChunks)
    BY DEF IInv, Consumer, Flags, Place
  <2>6. /\ Len(channel) \in 1..(MaxChunks + 1)
        /\ userData \in 0..Len(channel) /\ recv \in 0..Len(channel)
    <3>1. delivered \in 0..MaxChunks /\ Len(channel) = delivered + 1
      BY <2>1
    <3>2. (userData = 0 \/ userData = delivered + 1) /\ recv \in 0..(delivered + 1)
      BY <2>4, <2>5
    <3> HIDE <2>1, <2>4, <2>5 DEF Content
    <3> QED
      BY <3>1, <3>2, FetchChunksAssumption
  <2> QED
    BY <2>1, <2>3, <2>4, <2>5, <2>6, Zenon DEF TypeOK
<1> QED
  BY <1>1, Invariance, PTL

-----------------------------------------------------------------------------
(* poll_next has returned None. *)
Told == Len(out) > 0 /\ out[Len(out)] = None

(* A consumer that keeps the stream polls again, or is registered where the
   next thing arrives, or has been told that there is no more. *)
NotForgotten ==
  /\ dropped = TRUE => recv = 0 /\ awake = FALSE
  /\ recv = 0 /\ dropped = FALSE =>
       Last # Empty /\ IF awake = TRUE THEN Len(out) = delivered + 1 ELSE Told /\ Len(out) > delivered
  /\ recv # 0 /\ awake = FALSE => registered = TRUE

(* What was yielded is the chunks in their order; at most an error and None
   come after the last one, and nothing before the reader is over. *)
InTheirOrder ==
  /\ Len(out) <= delivered + 2
  /\ Last = Empty => Len(out) <= delivered
  /\ \A i \in 1..Len(out) : i <= delivered => out[i] = i

PollInv == NotForgotten /\ InTheirOrder

(* Once the reader is over, every poll returns something. *)
PollReturns == Poll /\ js = "over" => Len(out') = Len(out) + 1

(* One more thing is yielded. *)
LEMMA Yielded ==
  ASSUME NEW S, NEW s \in Seq(S), NEW x \in S
  PROVE  /\ Len(Append(s, x)) = Len(s) + 1
         /\ Append(s, x)[Len(s) + 1] = x
         /\ \A i \in 1..Len(s) : Append(s, x)[i] = s[i]
  OBVIOUS

Yields == Errors \union {None} \union 1..MaxChunks

(* The reader goes on: the chunk that a registered consumer waits for, or the
   end, wakes it. *)
LEMMA ReaderServes ==
  ASSUME IInv, IInv', PollInv, UNCHANGED <<recv, dropped, out>>,
         WakeReceiver(delivered + 1), Last = Empty,
         \/ delivered' = delivered /\ Last' # Empty
         \/ delivered' = delivered + 1 /\ Last' = Empty
  PROVE  PollInv'
<1>0. /\ delivered \in Nat /\ delivered' \in Nat /\ Len(out) \in Nat
      /\ awake \in BOOLEAN /\ dropped \in BOOLEAN /\ registered \in BOOLEAN
      /\ registered = TRUE => recv = delivered + 1
      /\ Len(out) <= delivered
  <2>1. out \in Seq(Yields)
    BY DEF IInv, Consumer, Place, Yields
  <2>2. Len(out) \in Nat
    BY <2>1
  <2> QED
    BY <2>2, FetchChunksAssumption
       DEF IInv, Chain, Consumer, Place, Flags, PollInv, InTheirOrder
<1>1. registered = TRUE => awake' = TRUE
  BY <1>0 DEF WakeReceiver
<1>2. registered = FALSE => awake' = awake
  BY DEF WakeReceiver
<1>3. recv = 0 => awake' = awake
  BY <1>0, <1>1, <1>2
<1>6. NotForgotten'
  BY <1>0, <1>1, <1>2, <1>3 DEF PollInv, NotForgotten
<1>7. InTheirOrder'
  BY <1>0 DEF PollInv, InTheirOrder
<1> QED BY <1>6, <1>7 DEF PollInv

(* What the consumer's own steps leave true. *)
LEMMA ConsumerServed ==
  ASSUME IInv, IInv', PollInv, ConsumerStep
  PROVE  PollInv'
<1>0. /\ delivered \in Nat /\ delivered' = delivered /\ Last' = Last
      /\ Len(out) \in Nat /\ out \in Seq(Yields)
      /\ awake \in BOOLEAN /\ dropped \in BOOLEAN /\ registered \in BOOLEAN
      /\ recv # 0 => Len(out) = recv - 1
  <2>1. out \in Seq(Yields)
    BY DEF IInv, Consumer, Place, Yields
  <2>2. Len(out) \in Nat
    BY <2>1
  <2>3. delivered' = delivered /\ Last' = Last
    BY ConsumerKeepsChain
  <2>4. delivered \in Nat
    BY FetchChunksAssumption DEF IInv, Chain
  <2> QED
    BY <2>1, <2>2, <2>3, <2>4 DEF IInv, Consumer, Place, Flags
<1>1. CASE PollChunk
  <2>1. recv \in 1..delivered /\ channel[recv] = recv /\ recv \in Yields /\ Len(out) = recv - 1
    BY <1>1, WhereItPolls DEF Yields
  <2>2. /\ recv' = recv + 1 /\ out' = Append(out, recv)
        /\ UNCHANGED <<awake, dropped>> /\ awake = TRUE
    BY <1>0, <1>1, <2>1 DEF PollChunk, RecvNext
  <2>3. /\ Len(out') = recv /\ out'[recv] = recv
        /\ \A i \in 1..Len(out) : out'[i] = out[i]
    BY <1>0, <2>1, <2>2, Yielded
  <2>4. NotForgotten'
    BY <1>0, <2>1, <2>2 DEF PollInv, NotForgotten
  <2>5. InTheirOrder'
    BY <1>0, <2>1, <2>3 DEF PollInv, InTheirOrder
  <2> QED BY <2>4, <2>5 DEF PollInv
<1>2. CASE PollError
  <2>1. /\ recv = delivered + 1 /\ Len(out) = delivered
        /\ channel[recv] \in Yields /\ Last # Empty
    BY <1>2, WhereItPolls DEF PollError, Yields, Errors, Empty
  <2>2. /\ recv' = 0 /\ out' = Append(out, channel[recv])
        /\ UNCHANGED <<awake, dropped>> /\ awake = TRUE
    BY <1>0, <1>2 DEF PollError
  <2>3. Len(out') = delivered + 1 /\ \A i \in 1..Len(out) : out'[i] = out[i]
    BY <1>0, <2>1, <2>2, Yielded
  <2>4. NotForgotten'
    BY <1>0, <2>1, <2>2, <2>3 DEF PollInv, NotForgotten
  <2>5. InTheirOrder'
    BY <1>0, <2>1, <2>3 DEF PollInv, InTheirOrder
  <2> QED BY <2>4, <2>5 DEF PollInv
<1>3. CASE PollEnd
  <2>1. /\ awake = TRUE /\ recv' = 0 /\ out' = Append(out, None) /\ None \in Yields
        /\ awake' = FALSE /\ dropped' = dropped
    BY <1>0, <1>3 DEF PollEnd, Yields
  <2>2. Last # Empty /\ Len(out) >= delivered /\ Len(out) <= delivered + 1
    <3>1. dropped = FALSE
      BY <1>0, <2>1 DEF PollInv, NotForgotten
    <3> QED
      BY <1>0, <1>3, <2>1, <3>1, WhereItPolls DEF Closed, Empty, PollInv, NotForgotten
  <2>3. /\ Len(out') = Len(out) + 1 /\ out'[Len(out')] = None
        /\ \A i \in 1..Len(out) : out'[i] = out[i]
    BY <1>0, <2>1, Yielded
  <2>4. NotForgotten'
    BY <1>0, <2>1, <2>2, <2>3 DEF PollInv, NotForgotten, Told
  <2>5. InTheirOrder'
    BY <1>0, <2>2, <2>3 DEF PollInv, InTheirOrder
  <2> QED BY <2>4, <2>5 DEF PollInv
<1>4. CASE PollPending \/ SpuriousPoll
  <2>1. UNCHANGED <<recv, out, dropped>> /\ recv # 0
    BY <1>4 DEF PollPending, SpuriousPoll
  <2>2. awake' = TRUE \/ registered' = TRUE
    BY <1>4 DEF PollPending, SpuriousPoll
  <2>3. NotForgotten'
    BY <1>0, <2>1, <2>2 DEF PollInv, NotForgotten
  <2>4. InTheirOrder'
    BY <1>0, <2>1 DEF PollInv, InTheirOrder
  <2> QED BY <2>3, <2>4 DEF PollInv
<1>5. CASE Drop
  <2>1. recv' = 0 /\ awake' = FALSE /\ dropped' = TRUE /\ out' = out
    BY <1>5 DEF Drop
  <2>2. NotForgotten'
    BY <2>1 DEF NotForgotten
  <2>3. InTheirOrder'
    BY <1>0, <2>1 DEF PollInv, InTheirOrder
  <2> QED BY <2>2, <2>3 DEF PollInv
<1> QED BY <1>1, <1>2, <1>3, <1>4, <1>5 DEF ConsumerStep

LEMMA PollStep == IInv /\ IInv' /\ PollInv /\ [Next]_vars => PollInv'
<1> SUFFICES ASSUME IInv, IInv', PollInv, [Next]_vars PROVE PollInv'
  OBVIOUS
<1>1. CASE GetReader \/ UNCHANGED vars
  <2>1. UNCHANGED <<delivered, channel, recv, registered, awake, dropped, out>>
    BY <1>1 DEF GetReader, vars
  <2> QED BY <2>1 DEF PollInv, NotForgotten, InTheirOrder, Told, Last
<1>2. CASE ReadChunk
  <2>1. Last = Empty /\ Last' = Empty /\ userData = delivered + 1
    BY <1>2, ReadChunkChain DEF IInv
  <2> QED BY <1>2, <2>1, ReaderServes DEF ReadChunk
<1>3. ASSUME NEW x \in Errors \union {Closed}, js = "reading",
             channel' = [channel EXCEPT ![userData] = x],
             WakeReceiver(userData), UNCHANGED <<delivered, recv, dropped, out>>
      PROVE  PollInv'
  <2>1. Last = Empty /\ Last' = x /\ userData = delivered + 1
    BY <1>3, CloseChain DEF IInv
  <2>2. x # Empty
    BY DEF Errors, Closed, Empty
  <2> QED BY <1>3, <2>1, <2>2, ReaderServes
<1>4. CASE ReadDone
  BY <1>3, <1>4 DEF ReadDone, EndDropped
<1>5. ASSUME NEW e \in Errors, ReadFails(e) PROVE PollInv'
  BY <1>3, <1>5 DEF ReadFails
<1>6. CASE ConsumerStep
  BY <1>6, ConsumerServed
<1> QED
  BY <1>1, <1>2, <1>4, <1>5, <1>6 DEF Next, Poll, ConsumerStep

LEMMA EveryPollReturns == IInv => PollReturns
<1> SUFFICES ASSUME IInv, Poll, js = "over" PROVE Len(out') = Len(out) + 1
  BY DEF PollReturns
<1>1. Last # Empty /\ out \in Seq(Yields)
  BY DEF IInv, Reader, Consumer, Place, Yields
<1>2. ~PollPending
  BY <1>1, WhereItPolls
<1>3. \A x \in Yields : Len(Append(out, x)) = Len(out) + 1
  BY <1>1, Yielded
<1>4. CASE PollChunk
  BY <1>3, <1>4, WhereItPolls DEF PollChunk, Yields
<1>5. CASE PollError
  BY <1>3, <1>5 DEF PollError, Yields
<1>6. CASE PollEnd
  BY <1>3, <1>6 DEF PollEnd, Yields
<1> QED BY <1>2, <1>4, <1>5, <1>6 DEF Poll

(* A consumer that sleeps while it keeps the stream has yielded every chunk
   that was delivered, in order, and either knows that there is no more or is
   registered in the channel whose sender is in the box. *)
SleepsInTime ==
  awake = FALSE /\ dropped = FALSE =>
    /\ \A k \in 1..delivered : k <= Len(out) /\ out[k] = k
    /\ \/ Told
       \/ registered = TRUE /\ recv = userData /\ channel[recv] = Empty /\ js # "over"

LEMMA AsleepInTime == IInv /\ PollInv => SleepsInTime
<1> SUFFICES ASSUME IInv, PollInv, awake = FALSE, dropped = FALSE
             PROVE  /\ \A k \in 1..delivered : k <= Len(out) /\ out[k] = k
                    /\ \/ Told
                       \/ registered = TRUE /\ recv = userData /\ channel[recv] = Empty
                          /\ js # "over"
  BY DEF SleepsInTime
<1>1. /\ delivered \in Nat /\ Len(out) \in Nat
      /\ \A i \in 1..Len(out) : i <= delivered => out[i] = i
  <2>1. out \in Seq(Yields)
    BY DEF IInv, Consumer, Place, Yields
  <2>2. Len(out) \in Nat
    BY <2>1
  <2> QED BY <2>2, FetchChunksAssumption DEF IInv, Chain, PollInv, InTheirOrder
<1>2. CASE recv = 0
  <2>1. Told /\ Len(out) > delivered
    BY <1>1, <1>2 DEF PollInv, NotForgotten
  <2> QED BY <1>1, <2>1
<1>3. CASE recv # 0
  <2>1. registered = TRUE
    BY <1>3 DEF PollInv, NotForgotten
  <2>2. recv = delivered + 1 /\ Last = Empty /\ Len(out) = delivered
    BY <1>1, <1>3, <2>1 DEF IInv, Consumer, Place
  <2>3. js # "over" /\ userData = delivered + 1 /\ channel[recv] = Empty
    BY <2>2 DEF IInv, Reader, Chain, Last
  <2> QED BY <1>1, <2>1, <2>2, <2>3
<1> QED BY <1>2, <1>3

(* A consumer never sleeps on a chunk or on the end: whatever was sent to it
   it has yielded, and what comes next wakes it.  Once the reader is over each
   poll returns something, and there are at most two more things to return
   than chunks: so a consumer that polls is told. *)
THEOREM NothingIsSleptOn ==
  Spec => /\ []SleepsInTime
          /\ [](Len(out) <= delivered + 2)
          /\ [][PollReturns]_vars
<1>1. Init => PollInv
  <2> SUFFICES ASSUME Init PROVE PollInv
    OBVIOUS
  <2>1. /\ Len(out) = 0 /\ delivered = 0 /\ recv = 1
        /\ awake = TRUE /\ dropped = FALSE
    BY DEF Init
  <2> QED BY <2>1 DEF PollInv, NotForgotten, InTheirOrder
<1>2. IInv /\ IInv' /\ PollInv /\ [Next]_vars => PollInv'
  BY PollStep
<1>3. IInv /\ PollInv => SleepsInTime /\ Len(out) <= delivered + 2
  BY AsleepInTime DEF PollInv, InTheirOrder
<1>4. IInv /\ [Next]_vars => [PollReturns]_vars
  BY EveryPollReturns
<1> QED BY <1>1, <1>2, <1>3, <1>4, Invariance, PTL DEF Spec

-----------------------------------------------------------------------------
(* The reader over a stream. *)

(* What the variables of the reader are, as far as its bytes go. *)
ReaderTypes ==
  /\ body \in Seq(Nat) /\ received \in Nat /\ position \in Nat
  /\ filled \in Seq(Int) /\ want \in Nat
  /\ buffer = <<>> \/
       \E n \in Nat : \E p \in 0..n : buffer = <<[length |-> n, pos |-> p]>>

(* Nothing is left of the chunk while the next is waited for, and the buffer
   goes away at the end of the body only. *)
BufferShape ==
  /\ op \in {"read.next", "fill.next"} => Remaining = 0
  /\ buffer = <<>> => received = 0 \/ body = <<>>
  /\ op = "spins" => buffer = <<>>

ReaderInv == ReaderTypes /\ BufferShape /\ BytesInOrder

(* A run of numbers, and its continuation. *)
LEMMA RunExtended ==
  ASSUME NEW s \in Seq(Int), NEW p \in Nat, NEW n \in Nat,
         s = [i \in 1..Len(s) |-> p - Len(s) + i]
  PROVE  LET w == s \o [i \in 1..n |-> p + i]
         IN  /\ w \in Seq(Int)
             /\ w = [i \in 1..Len(w) |-> p + n - Len(w) + i]
<1> DEFINE e == [i \in 1..n |-> p + i]
           w == s \o e
<1>1. e \in Seq(Int) /\ Len(e) = n /\ Len(s) \in Nat
  <2>1. e \in [1..n -> Int]
    OBVIOUS
  <2> QED BY <2>1, SeqDef, LenProperties
<1>2. /\ w \in Seq(Int) /\ Len(w) = Len(s) + n
      /\ \A i \in 1..(Len(s) + n) : w[i] = IF i <= Len(s) THEN s[i] ELSE e[i - Len(s)]
  BY <1>1, ConcatProperties
<1>3. ASSUME NEW i \in 1..Len(w) PROVE w[i] = p + n - Len(w) + i
  <2>1. CASE i <= Len(s)
    <3>1. i \in 1..Len(s) /\ w[i] = s[i]
      BY <1>1, <1>2, <2>1
    <3>2. s[i] = p - Len(s) + i
      BY <3>1
    <3> QED BY <1>1, <1>2, <3>1, <3>2
  <2>2. CASE i > Len(s)
    BY <1>1, <1>2, <2>2
  <2> QED BY <1>1, <1>2, <2>1, <2>2
<1>4. w = [i \in 1..Len(w) |-> w[i]]
  BY <1>2, LenProperties
<1> HIDE DEF w
<1>5. w = [i \in 1..Len(w) |-> p + n - Len(w) + i]
  BY <1>3, <1>4
<1> QED BY <1>2, <1>5 DEF w

LEMMA FirstReaderInv == ReaderInit => ReaderInv
<1> SUFFICES ASSUME ReaderInit PROVE ReaderInv
  OBVIOUS
<1>0. BodyChunks \in Nat /\ MaxLength \in Nat
  BY ReaderAssumption
<1>1. body \in Seq(Nat)
  <2>1. PICK n \in 0..BodyChunks : body \in [1..n -> 0..MaxLength]
    BY <1>0 DEF ReaderInit, Bodies
  <2>2. body \in [1..n -> Nat] /\ n \in Nat
    BY <1>0, <2>1
  <2> QED BY <2>2, SeqDef
<1>2. ReaderTypes
  BY <1>1 DEF ReaderInit, ReaderTypes
<1> QED BY <1>2 DEF ReaderInit, ReaderInv, BufferShape, BytesInOrder, Remaining, HasBuffer

(* What the cursor has left, and what it has left when n bytes are used. *)
LEMMA CursorMoved ==
  ASSUME ReaderTypes, buffer # <<>>, NEW n \in 0..Remaining
  PROVE  /\ Remaining \in Nat
         /\ PosMoved(n) = <<[length |-> buffer[1].length, pos |-> buffer[1].pos + n]>>
         /\ buffer[1].length \in Nat /\ buffer[1].pos \in 0..buffer[1].length
         /\ buffer[1].pos + n \in 0..buffer[1].length
         /\ Remaining = buffer[1].length - buffer[1].pos
<1>1. PICK l \in Nat : \E p \in 0..l : buffer = <<[length |-> l, pos |-> p]>>
  BY DEF ReaderTypes
<1>2. PICK p \in 0..l : buffer = <<[length |-> l, pos |-> p]>>
  BY <1>1
<1>3. Remaining = l - p /\ buffer[1].length = l /\ buffer[1].pos = p
  BY <1>2 DEF Remaining, HasBuffer, cursor
<1> QED BY <1>2, <1>3 DEF PosMoved

(* A step that copies n bytes and leaves the cursor after them. *)
LEMMA CopyStep == ReaderInv /\ Copy => ReaderInv'
<1> SUFFICES ASSUME ReaderInv, Copy PROVE ReaderInv'
  OBVIOUS
<1> DEFINE n == Lesser(Remaining, want - Len(filled))
<1>0. /\ op = "read" /\ buffer # <<>> /\ Len(filled) < want
      /\ filled' = Fill(n) /\ position' = position + n
      /\ op' \in {"idle", "read.next"}
      /\ op' = "read.next" => CursorIsEmpty(PosMoved(n)[1])
      /\ buffer' = PosMoved(n)
      /\ UNCHANGED <<body, fails, received, want, empty>>
  BY DEF Copy, HasBuffer, BufferStays
<1>1. ReaderTypes /\ BufferShape /\ BytesInOrder
  BY DEF ReaderInv
<1>2. Remaining \in Nat /\ Len(filled) \in Nat
  BY <1>0, <1>1, LenProperties DEF ReaderTypes, Remaining, HasBuffer, cursor
<1>3. n \in 0..Remaining
  BY <1>0, <1>1, <1>2 DEF Lesser, ReaderTypes
<1> HIDE DEF n
<1>4. /\ buffer' = <<[length |-> buffer[1].length, pos |-> buffer[1].pos + n]>>
      /\ buffer[1].length \in Nat /\ buffer[1].pos + n \in 0..buffer[1].length
      /\ Remaining = buffer[1].length - buffer[1].pos
      /\ buffer[1].pos \in Nat
  BY <1>0, <1>1, <1>3, CursorMoved
<1>5. Remaining' = Remaining - n
  <2>1. Remaining' = buffer[1].length - (buffer[1].pos + n)
    BY <1>4 DEF Remaining, HasBuffer, cursor
  <2>2. n \in Int
    BY <1>2, <1>3
  <2> QED BY <1>4, <2>1, <2>2
<1>6. /\ filled' \in Seq(Int)
      /\ filled' = [i \in 1..Len(filled') |-> position + n - Len(filled') + i]
  BY <1>0, <1>1, <1>2, <1>3, RunExtended DEF Fill, BytesInOrder, ReaderTypes
<1>7. ReaderTypes'
  <2>1. \E l \in Nat : \E q \in 0..l : buffer' = <<[length |-> l, pos |-> q]>>
    BY <1>4
  <2>2. position' \in Nat
    BY <1>0, <1>1, <1>2, <1>3 DEF ReaderTypes
  <2> QED BY <1>0, <1>1, <1>6, <2>1, <2>2 DEF ReaderTypes
<1>8. BufferShape'
  <2>1. ASSUME op' = "read.next" PROVE Remaining' = 0
    <3>1. buffer'[1].pos >= buffer'[1].length
      BY <1>0, <2>1 DEF CursorIsEmpty
    <3> QED BY <1>3, <1>4, <1>5, <3>1
  <2> QED BY <1>0, <1>4, <2>1 DEF BufferShape
<1>9. BytesInOrder'
  BY <1>0, <1>1, <1>2, <1>3, <1>5, <1>6 DEF BytesInOrder, ReaderTypes
<1> QED BY <1>7, <1>8, <1>9 DEF ReaderInv

(* The next chunk comes, or the end. *)
LEMMA NextStep == ReaderInv /\ NextIsReady => ReaderInv'
<1> SUFFICES ASSUME ReaderInv, NextIsReady PROVE ReaderInv'
  OBVIOUS
<1>0. /\ op \in {"read.next", "fill.next"}
      /\ op' = IF op = "read.next" THEN "read" ELSE "idle"
      /\ UNCHANGED <<fails, want, filled, position>>
  BY DEF NextIsReady
<1>1. /\ ReaderTypes /\ BufferShape /\ BytesInOrder
      /\ Remaining = 0 /\ position = received
  BY <1>0 DEF ReaderInv, BufferShape, BytesInOrder, ReaderTypes
<1>2. CASE body = <<>>
  <2>1. buffer' = <<>> /\ UNCHANGED <<body, received>>
    BY <1>2 DEF NextIsReady
  <2>2. Remaining' = 0
    BY <2>1 DEF Remaining, HasBuffer
  <2>3. ReaderTypes' /\ BufferShape'
    BY <1>0, <1>1, <1>2, <2>1 DEF ReaderTypes, BufferShape
  <2>4. BytesInOrder'
    BY <1>0, <1>1, <2>1, <2>2 DEF BytesInOrder, ReaderTypes
  <2> QED BY <2>3, <2>4 DEF ReaderInv
<1>3. CASE body # <<>>
  <2>1. /\ buffer' = <<[length |-> body[1], pos |-> 0]>>
        /\ received' = received + body[1]
        /\ body' = Tail(body)
    BY <1>3 DEF NextIsReady, Wrap
  <2>2. body[1] \in Nat /\ Tail(body) \in Seq(Nat)
    BY <1>1, <1>3, HeadTailProperties DEF ReaderTypes
  <2>3. Remaining' = body[1]
    BY <2>1, <2>2 DEF Remaining, HasBuffer, cursor
  <2>4. ReaderTypes'
    BY <1>0, <1>1, <2>1, <2>2 DEF ReaderTypes
  <2>5. BufferShape'
    BY <1>0, <2>1 DEF BufferShape
  <2>6. BytesInOrder'
    BY <1>0, <1>1, <2>1, <2>2, <2>3 DEF BytesInOrder, ReaderTypes
  <2> QED BY <2>4, <2>5, <2>6 DEF ReaderInv
<1> QED BY <1>2, <1>3

(* consume moves the cursor while no read collects bytes. *)
LEMMA ConsumeStep ==
  ASSUME ReaderInv, NEW amt \in Nat, Consume(amt) PROVE ReaderInv'
<1> DEFINE n == Lesser(RestOfChunk(buffer), amt)
<1>0. /\ op = "idle"
      /\ UNCHANGED <<body, fails, received, op, want, filled, empty>>
  BY DEF Consume
<1>1. ReaderTypes /\ BufferShape /\ BytesInOrder
  BY DEF ReaderInv
<1>2. CASE buffer = <<>>
  <2>1. UNCHANGED <<buffer, position>>
    BY <1>2 DEF Consume, HasBuffer
  <2> QED
    BY <1>0, <1>1, <2>1
       DEF ReaderInv, ReaderTypes, BufferShape, BytesInOrder, Remaining, HasBuffer, cursor
<1>3. CASE buffer # <<>>
  <2>1. buffer' = PosMoved(n) /\ position' = position + n
    BY <1>3 DEF Consume, HasBuffer
  <2>2. n \in 0..Remaining
    <3>1. RestOfChunk(buffer) = Remaining
      BY <1>3 DEF RestOfChunk, Remaining, HasBuffer, cursor
    <3>2. Remaining \in Nat
      BY <1>1, <1>3 DEF ReaderTypes, Remaining, HasBuffer, cursor
    <3> QED BY <3>1, <3>2 DEF Lesser
  <2> HIDE DEF n
  <2>3. /\ buffer' = <<[length |-> buffer[1].length, pos |-> buffer[1].pos + n]>>
        /\ buffer[1].length \in Nat /\ buffer[1].pos + n \in 0..buffer[1].length
        /\ Remaining = buffer[1].length - buffer[1].pos
        /\ buffer[1].pos \in Nat
    BY <1>1, <1>3, <2>1, <2>2, CursorMoved
  <2>4. Remaining' = Remaining - n
    BY <2>2, <2>3 DEF Remaining, HasBuffer, cursor
  <2>5. ReaderTypes'
    <3>1. \E l \in Nat : \E q \in 0..l : buffer' = <<[length |-> l, pos |-> q]>>
      BY <2>3
    <3>2. position' \in Nat
      BY <1>1, <2>1, <2>2 DEF ReaderTypes
    <3> QED BY <1>0, <1>1, <3>1, <3>2 DEF ReaderTypes
  <2>6. BufferShape'
    BY <1>0, <2>3 DEF BufferShape
  <2>7. BytesInOrder'
    BY <1>0, <1>1, <2>1, <2>2, <2>3, <2>4 DEF BytesInOrder, ReaderTypes
  <2> QED BY <2>5, <2>6, <2>7 DEF ReaderInv
<1> QED BY <1>2, <1>3

(* The steps that leave the cursor where it is: what read has collected stays,
   or a method begins or ends. *)
LEMMA StillStep ==
  ReaderInv /\ (\/ \E n \in 0..MaxWant : Read(n)
                \/ ReadFull \/ Spin \/ FillBuf \/ NextFails \/ DropFuture
                \/ UNCHANGED readerVars)
    => ReaderInv'
<1> SUFFICES ASSUME ReaderInv,
                    \/ \E n \in 0..MaxWant : Read(n)
                    \/ ReadFull \/ Spin \/ FillBuf \/ NextFails \/ DropFuture
                    \/ UNCHANGED readerVars
             PROVE  ReaderInv'
  OBVIOUS
<1>1. ReaderTypes /\ BufferShape /\ BytesInOrder
  BY DEF ReaderInv
<1>2. /\ UNCHANGED <<body, received, buffer, position>>
      /\ want' \in Nat
      /\ \/ op' = "read" /\ filled' = <<>>
         \/ filled' = filled /\ op' \in {"idle", "fill.next"}
         \/ filled' = filled /\ op' = op
         \/ filled' = filled /\ op = "read" /\ op' = "spins"
      /\ op' = "spins" => buffer = <<>>
      /\ op' \in {"fill.next", "read.next"} => op' = op \/ ~Keeps(buffer)
  BY <1>1 DEF Read, ReadFull, Spin, FillBuf, NextFails, DropFuture, GiveUp,
              readerVars, HasBuffer, ReaderTypes, BufferShape
<1>3. Remaining' = Remaining
  BY <1>2 DEF Remaining, HasBuffer, cursor
<1>4. ReaderTypes'
  <2>1. filled' \in Seq(Int)
    BY <1>1, <1>2, EmptySeq DEF ReaderTypes
  <2> QED BY <1>1, <1>2, <2>1 DEF ReaderTypes
<1>5. BufferShape'
  <2>1. ~Keeps(buffer) => Remaining = 0
    BY <1>1 DEF ReaderTypes, Keeps, CursorIsEmpty, Remaining, HasBuffer, cursor
  <2> QED BY <1>1, <1>2, <1>3, <2>1 DEF BufferShape
<1>6. BytesInOrder'
  <2>1. position' + Remaining' = received'
    BY <1>1, <1>2, <1>3 DEF BytesInOrder
  <2>2. CASE op' = "read" /\ filled' = <<>>
    <3>1. <<>> = [i \in 1..Len(<<>>) |-> position' - Len(<<>>) + i]
      BY EmptySeq
    <3> QED BY <2>1, <2>2, <3>1 DEF BytesInOrder
  <2>3. CASE ~(op' = "read" /\ filled' = <<>>)
    BY <1>1, <1>2, <2>1, <2>3 DEF BytesInOrder
  <2> QED BY <2>2, <2>3
<1> QED BY <1>4, <1>5, <1>6 DEF ReaderInv

(* Every reachable state of ResponseReader satisfies its inductive invariant. *)
THEOREM ReaderInvariance == ReaderSpec => []ReaderInv
<1>1. ReaderInit => ReaderInv
  BY FirstReaderInv
<1>2. ReaderInv /\ [ReaderNext]_readerVars => ReaderInv'
  <2> SUFFICES ASSUME ReaderInv, [ReaderNext]_readerVars PROVE ReaderInv'
    OBVIOUS
  <2> 0..MaxWant \subseteq Nat /\ 0..MaxLength + 1 \subseteq Nat
    BY ReaderAssumption
  <2> QED BY CopyStep, NextStep, ConsumeStep, StillStep DEF ReaderNext
<1> QED BY <1>1, <1>2, PTL DEF ReaderSpec

(* For bodies and slices of any length: however read and fill_buf are mixed,
   bytes come in order and none is given twice. *)
THEOREM BytesComeInOrder == ReaderSpec => []BytesInOrder
  BY ReaderInvariance, PTL DEF ReaderInv

(* read only spins before the first chunk and after the last. *)
THEOREM SpinsOnlyAtTheEdges == ReaderSpec => []SpinsAtTheEdges
<1>1. ReaderInv => SpinsAtTheEdges
  BY DEF ReaderInv, BufferShape, SpinsAtTheEdges
<1> QED BY <1>1, ReaderInvariance, PTL

(* An empty slice from fill_buf is the end of the body, or a chunk without
   bytes: what is left of a buffer that is kept is not empty. *)
THEOREM EmptyIsTheEnd == ReaderSpec => EmptyMeansEnd
<1> DEFINE A == (FillBuf \/ NextIsReady) /\ op' = "idle" /\ empty' =>
                  body = <<>> \/ (op = "fill.next" /\ body[1] = 0)
<1>1. ASSUME ReaderInv, FillBuf \/ NextIsReady, op' = "idle", empty'
      PROVE  body = <<>> \/ (op = "fill.next" /\ body[1] = 0)
  <2>1. ~FillBuf
    <3> SUFFICES ASSUME FillBuf PROVE FALSE
      OBVIOUS
    <3>1. Keeps(buffer) /\ (empty' = (RestOfChunk(buffer) = 0))
      BY <1>1 DEF FillBuf
    <3>2. RestOfChunk(buffer) # 0
      BY <1>1, <3>1 DEF ReaderInv, ReaderTypes, Keeps, CursorIsEmpty, RestOfChunk
    <3> QED BY <1>1, <3>1, <3>2
  <2>2. SUFFICES ASSUME NextIsReady, body # <<>> PROVE op = "fill.next" /\ body[1] = 0
    BY <1>1, <2>1
  <2>3. /\ buffer' = <<[length |-> body[1], pos |-> 0]>>
        /\ op = "fill.next" /\ (empty' = (RestOfChunk(buffer') = 0))
    BY <1>1, <2>2 DEF NextIsReady, Wrap
  <2>4. body[1] \in Nat
    BY <1>1, <2>2, HeadTailProperties DEF ReaderInv, ReaderTypes
  <2>5. RestOfChunk(buffer') = body[1]
    BY <2>3, <2>4 DEF RestOfChunk
  <2> QED BY <1>1, <2>3, <2>5
<1>2. ReaderInv /\ [ReaderNext]_readerVars => [A]_readerVars
  BY <1>1
<1>3. ReaderSpec => [][A]_readerVars
  BY <1>2, ReaderInvariance, PTL DEF ReaderSpec
<1> QED BY <1>3 DEF EmptyMeansEnd

(* The turns that a read has left: at most two for each chunk that will come. *)
Reading == op \in {"read", "read.next"}
TurnsLeft ==
  IF ~Reading THEN 0
  ELSE 2 * Len(body) + (IF op = "read.next" THEN 2 ELSE IF HasBuffer THEN 3 ELSE 1)
ReadGoesOn == Reading => TurnsLeft' < TurnsLeft

LEMMA TurnTaken == ReaderInv /\ [ReaderNext]_readerVars => [ReadGoesOn]_readerVars
<1> SUFFICES ASSUME ReaderInv, ReaderNext, Reading PROVE TurnsLeft' < TurnsLeft
  BY DEF ReadGoesOn
<1>0. body \in Seq(Nat) /\ Len(body) \in Nat
  BY DEF ReaderInv, ReaderTypes
<1> USE DEF Reading, TurnsLeft
<1>1. CASE Copy
  <2>1. /\ op = "read" /\ HasBuffer /\ body' = body
        /\ op' = "read.next" \/ op' = "idle"
    BY <1>1 DEF Copy
  <2> QED BY <1>0, <2>1
<1>2. CASE ReadFull \/ Spin
  <2>1. op = "read" /\ op' \in {"idle", "spins"}
    BY <1>2 DEF ReadFull, Spin
  <2> QED BY <1>0, <2>1
<1>3. CASE NextIsReady
  <2>1. op = "read.next" /\ op' = "read"
    BY <1>3 DEF NextIsReady
  <2>2. CASE body = <<>>
    <3>1. body' = body /\ ~HasBuffer'
      BY <1>3, <2>2 DEF NextIsReady, HasBuffer
    <3> QED BY <1>0, <2>1, <3>1
  <2>3. CASE body # <<>>
    <3>1. Len(body') = Len(body) - 1 /\ Len(body) > 0
      BY <1>0, <1>3, <2>3 DEF NextIsReady
    <3> QED BY <1>0, <2>1, <3>1
  <2> QED BY <2>2, <2>3
<1>4. CASE NextFails \/ DropFuture
  <2>1. op = "read.next" /\ op' = "idle"
    BY <1>4 DEF NextFails, DropFuture, GiveUp
  <2> QED BY <1>0, <2>1
<1>5. op # "idle"
  OBVIOUS
<1> QED
  BY <1>1, <1>2, <1>3, <1>4, <1>5 DEF ReaderNext, Read, FillBuf, Consume

(* A read takes at most two turns for each chunk, whatever the lengths of the
   chunks and the slice: it returns, or it spins, and it spins only before the
   first chunk and after the last one (SpinsOnlyAtTheEdges). *)
THEOREM ReadTakesFewTurns == ReaderSpec => [][ReadGoesOn]_readerVars
  BY TurnTaken, ReaderInvariance, PTL DEF ReaderSpec

-----------------------------------------------------------------------------
(* What is still to come has room: the bodies are bounded in chunks and bytes. *)
Room == received + Len(body) * MaxLength <= Total

ReaderBounds == ReaderTypeOK /\ Room

(* One chunk less is MaxLength bytes less to come. *)
LEMMA OneChunkLess ==
  ASSUME NEW n \in Nat \ {0}, NEW m \in Nat
  PROVE  /\ (n - 1) * m \in Nat
         /\ n * m = (n - 1) * m + m
OBVIOUS

(* What the numbers are. *)
LEMMA RoomMeans ==
  ASSUME ReaderInv, ReaderBounds
  PROVE  /\ Total \in Nat /\ position + Remaining = received /\ received <= Total
         /\ Remaining \in Nat
<1>1. Total \in Nat
  BY ReaderAssumption DEF Total
<1>2. position + Remaining = received
  BY DEF ReaderInv, BytesInOrder
<1>3. received \in 0..Total /\ position \in 0..Total
  BY DEF ReaderBounds, ReaderTypeOK
<1>4. Remaining \in Nat
  BY DEF ReaderInv, ReaderTypes, Remaining, HasBuffer, cursor
<1> QED BY <1>1, <1>2, <1>3, <1>4

(* A body has at most so many chunks, each of at most so many bytes. *)
LEMMA FirstBounds == ReaderInit => ReaderBounds
<1> SUFFICES ASSUME ReaderInit PROVE ReaderBounds
  OBVIOUS
<1>0. BodyChunks \in Nat /\ MaxLength \in Nat /\ MaxWant \in Nat
  BY ReaderAssumption
<1>1. PICK n \in 0..BodyChunks : body \in [1..n -> 0..MaxLength]
  BY DEF ReaderInit, Bodies
<1>2. body \in Seq(0..MaxLength) /\ Len(body) = n
  <2>1. n \in Nat
    BY <1>0
  <2>2. body \in Seq(0..MaxLength)
    BY <1>1, <2>1, SeqDef
  <2>3. Len(body) \in Nat /\ DOMAIN body = 1..Len(body) /\ DOMAIN body = 1..n
    BY <1>1, <2>2, LenProperties
  <2>4. 1..Len(body) = 1..n
    BY <2>3
  <2>5. ~(Len(body) > n)
    <3> SUFFICES ASSUME Len(body) > n PROVE FALSE
      OBVIOUS
    <3>1. Len(body) \in 1..Len(body) /\ Len(body) \notin 1..n
      BY <2>1, <2>3
    <3> QED BY <2>4, <3>1, Zenon
  <2>6. ~(n > Len(body))
    <3> SUFFICES ASSUME n > Len(body) PROVE FALSE
      OBVIOUS
    <3>1. n \in 1..n /\ n \notin 1..Len(body)
      BY <2>1, <2>3
    <3> QED BY <2>4, <3>1, Zenon
  <2>7. Len(body) \in Nat
    BY <2>3
  <2>8. Len(body) = n
    BY <2>1, <2>5, <2>6, <2>7
  <2> QED BY <2>2, <2>8
<1>3. n \in Nat /\ n <= BodyChunks /\ n * MaxLength <= BodyChunks * MaxLength
      /\ n * MaxLength \in Nat /\ BodyChunks * MaxLength \in Nat
  <2>1. n \in Nat /\ n <= BodyChunks
    BY <1>0, <1>1
  <2>2. PICK d \in Nat : BodyChunks = n + d
    <3>1. BodyChunks - n \in Nat /\ BodyChunks = n + (BodyChunks - n)
      BY <1>0, <2>1
    <3> QED BY <3>1
  <2>3. BodyChunks * MaxLength = n * MaxLength + d * MaxLength
    BY <1>0, <2>1, <2>2
  <2>4. n * MaxLength \in Nat /\ d * MaxLength \in Nat
    BY <1>0, <2>1, <2>2
  <2> QED BY <1>0, <2>1, <2>3, <2>4
<1>4. Room
  BY <1>2, <1>3 DEF ReaderInit, Room, Total
<1>5. Len(buffer) \in 0..1 /\ \A i \in DOMAIN buffer : buffer[i] \in Cursor
  BY EmptySeq DEF ReaderInit
<1>6. filled \in Seq(1..Total) /\ Len(filled) = 0
  BY EmptySeq DEF ReaderInit
<1>7. ReaderTypeOK
  <2>1. /\ fails \in BOOLEAN /\ received = 0 /\ op = "idle" /\ want = 0 /\ position = 0
        /\ empty = FALSE
    BY DEF ReaderInit
  <2>2. /\ body \in Seq(0..MaxLength) /\ Len(body) <= BodyChunks
        /\ want \in 0..MaxWant /\ Len(filled) <= want
    BY <1>0, <1>2, <1>3, <1>6, <2>1
  <2>3. received \in 0..Total /\ position \in 0..Total
    BY <1>3, <2>1 DEF Total
  <2> QED BY <1>5, <1>6, <2>1, <2>2, <2>3 DEF ReaderTypeOK
<1> QED BY <1>4, <1>7 DEF ReaderBounds

(* Every step but Copy, Consume and NextIsReady leaves the bytes as they are. *)
LEMMA StillBounds ==
  ReaderInv /\ ReaderBounds
    /\ (\/ \E n \in 0..MaxWant : Read(n)
        \/ ReadFull \/ Spin \/ FillBuf \/ NextFails \/ DropFuture \/ UNCHANGED readerVars)
    => ReaderBounds'
<1> SUFFICES ASSUME ReaderInv, ReaderBounds,
                    \/ \E n \in 0..MaxWant : Read(n)
                    \/ ReadFull \/ Spin \/ FillBuf \/ NextFails \/ DropFuture
                    \/ UNCHANGED readerVars
             PROVE  ReaderBounds'
  OBVIOUS
<1>1. ReaderTypeOK /\ Room
  BY DEF ReaderBounds
<1>2. /\ UNCHANGED <<body, received, buffer, position>>
      /\ fails' \in BOOLEAN /\ empty' \in BOOLEAN
      /\ op' \in {"idle", "read", "read.next", "fill.next", "spins"}
      /\ \/ want' \in 0..MaxWant /\ filled' = <<>>
         \/ want' = want /\ filled' = filled
  BY <1>1 DEF Read, ReadFull, Spin, FillBuf, NextFails, DropFuture, GiveUp, readerVars, ReaderTypeOK
<1>3. want' \in 0..MaxWant /\ filled' \in Seq(1..Total) /\ Len(filled') <= want'
  <2>1. CASE want' \in 0..MaxWant /\ filled' = <<>>
    <3>1. filled' \in Seq(1..Total) /\ Len(filled') = 0
      BY <2>1, EmptySeq
    <3> QED BY <2>1, <3>1, ReaderAssumption
  <2>2. CASE want' = want /\ filled' = filled
    BY <1>1, <2>2 DEF ReaderTypeOK
  <2> QED BY <1>2, <2>1, <2>2
<1>4. Room'
  BY <1>1, <1>2 DEF Room, Total
<1>5. ReaderTypeOK'
  BY <1>1, <1>2, <1>3 DEF ReaderTypeOK, Cursor, Total
<1> QED BY <1>4, <1>5 DEF ReaderBounds

(* A cursor that moves stays within its chunk. *)
LEMMA MovedCursor ==
  ASSUME ReaderInv, ReaderBounds, buffer # <<>>, NEW n \in 0..Remaining,
         buffer' = PosMoved(n)
  PROVE  Len(buffer') \in 0..1 /\ \A i \in DOMAIN buffer' : buffer'[i] \in Cursor
<1>1. /\ buffer' = <<[length |-> buffer[1].length, pos |-> buffer[1].pos + n]>>
      /\ buffer[1].length \in Nat /\ buffer[1].pos + n \in 0..buffer[1].length
  BY CursorMoved DEF ReaderInv
<1>2. buffer[1].length \in 0..MaxLength
  <2>1. 1 \in DOMAIN buffer
    BY DEF ReaderInv, ReaderTypes
  <2> QED BY <2>1 DEF ReaderBounds, ReaderTypeOK, Cursor
<1>3. buffer[1].pos + n \in 0..MaxLength
  BY <1>1, <1>2, ReaderAssumption
<1> QED BY <1>1, <1>2, <1>3 DEF Cursor

(* The bytes that read copies are those of the chunks that came. *)
LEMMA CopyBounds == ReaderInv /\ ReaderBounds /\ Copy => ReaderBounds'
<1> SUFFICES ASSUME ReaderInv, ReaderBounds, Copy PROVE ReaderBounds'
  OBVIOUS
<1> DEFINE n == Lesser(Remaining, want - Len(filled))
<1>0. /\ buffer # <<>> /\ Len(filled) < want
      /\ filled' = Fill(n) /\ position' = position + n
      /\ op' \in {"idle", "read.next"} /\ buffer' = PosMoved(n)
      /\ UNCHANGED <<body, fails, received, want, empty>>
  BY DEF Copy, HasBuffer, BufferStays
<1>1. /\ Total \in Nat /\ position + Remaining = received /\ received <= Total
      /\ Remaining \in Nat
  BY RoomMeans
<1>2. /\ filled \in Seq(1..Total) /\ Len(filled) \in Nat /\ want \in 0..MaxWant
      /\ position \in 0..Total
  BY LenProperties DEF ReaderBounds, ReaderTypeOK
<1>3. want \in Nat
  BY <1>2, ReaderAssumption
<1>4. n \in 0..Remaining /\ n <= want - Len(filled)
  BY <1>0, <1>1, <1>2, <1>3 DEF Lesser
<1> HIDE DEF n
<1> DEFINE more == [i \in 1..n |-> position + i]
<1>5. more \in Seq(1..Total) /\ Len(more) = n
  <2>1. n \in Nat /\ position \in Nat /\ position + n <= Total
    BY <1>1, <1>2, <1>4
  <2>2. \A i \in 1..n : position + i \in 1..Total
    BY <1>1, <2>1
  <2>3. more \in [1..n -> 1..Total]
    BY <2>2
  <2> QED BY <2>1, <2>3, SeqDef, LenProperties
<1>6. filled' \in Seq(1..Total) /\ Len(filled') = Len(filled) + n
  <2> HIDE DEF more
  <2>1. filled \o more \in Seq(1..Total) /\ Len(filled \o more) = Len(filled) + Len(more)
    BY <1>2, <1>5, ConcatProperties
  <2> QED BY <1>0, <1>5, <2>1 DEF Fill, more
<1>7. Len(filled') <= want /\ position' \in 0..Total
  BY <1>0, <1>1, <1>2, <1>3, <1>4, <1>6
<1>8. Len(buffer') \in 0..1 /\ \A i \in DOMAIN buffer' : buffer'[i] \in Cursor
  BY <1>0, <1>4, MovedCursor
<1>9. Room'
  BY <1>0 DEF ReaderBounds, Room, Total
<1>10. ReaderTypeOK'
  BY <1>0, <1>6, <1>7, <1>8 DEF ReaderBounds, ReaderTypeOK, Cursor, Total
<1> QED BY <1>9, <1>10 DEF ReaderBounds

(* consume stays within the chunk. *)
LEMMA ConsumeBounds ==
  ASSUME ReaderInv, ReaderBounds, NEW amt \in Nat, Consume(amt) PROVE ReaderBounds'
<1> DEFINE n == Lesser(RestOfChunk(buffer), amt)
<1>0. /\ op = "idle"
      /\ UNCHANGED <<body, fails, received, op, want, filled, empty>>
  BY DEF Consume
<1>1. Room'
  BY <1>0 DEF ReaderBounds, Room, Total
<1>2. CASE buffer = <<>>
  <2>1. UNCHANGED <<buffer, position>>
    BY <1>2 DEF Consume, HasBuffer
  <2>2. ReaderTypeOK'
    BY <1>0, <2>1 DEF ReaderBounds, ReaderTypeOK, Cursor, Total
  <2> QED BY <1>1, <2>2 DEF ReaderBounds
<1>3. CASE buffer # <<>>
  <2>1. buffer' = PosMoved(n) /\ position' = position + n
    BY <1>3 DEF Consume, HasBuffer
  <2>2. n \in 0..Remaining
    <3>1. RestOfChunk(buffer) = Remaining
      BY <1>3 DEF RestOfChunk, Remaining, HasBuffer, cursor
    <3> QED BY <3>1, RoomMeans DEF Lesser
  <2> HIDE DEF n
  <2>3. Len(buffer') \in 0..1 /\ \A i \in DOMAIN buffer' : buffer'[i] \in Cursor
    BY <1>3, <2>1, <2>2, MovedCursor
  <2>4. position' \in 0..Total
    <3>1. position \in 0..Total
      BY DEF ReaderBounds, ReaderTypeOK
    <3> QED BY <2>1, <2>2, <3>1, RoomMeans
  <2>5. ReaderTypeOK'
    BY <1>0, <2>3, <2>4 DEF ReaderBounds, ReaderTypeOK, Cursor, Total
  <2> QED BY <1>1, <2>5 DEF ReaderBounds
<1> QED BY <1>2, <1>3

(* The next chunk comes out of what is still to come. *)
LEMMA NextBounds == ReaderInv /\ ReaderBounds /\ NextIsReady => ReaderBounds'
<1> SUFFICES ASSUME ReaderInv, ReaderBounds, NextIsReady PROVE ReaderBounds'
  OBVIOUS
<1>0. /\ op' \in {"read", "idle"} /\ empty' \in BOOLEAN
      /\ UNCHANGED <<fails, want, filled, position>>
  BY DEF NextIsReady, ReaderBounds, ReaderTypeOK
<1>1. CASE body = <<>>
  <2>1. buffer' = <<>> /\ UNCHANGED <<body, received>>
    BY <1>1 DEF NextIsReady
  <2>2. Len(buffer') \in 0..1 /\ \A i \in DOMAIN buffer' : buffer'[i] \in Cursor
    BY <2>1, EmptySeq
  <2>3. Room' /\ ReaderTypeOK'
    BY <1>0, <2>1, <2>2 DEF ReaderBounds, ReaderTypeOK, Cursor, Room, Total
  <2> QED BY <2>3 DEF ReaderBounds
<1>2. CASE body # <<>>
  <2>1. /\ buffer' = <<[length |-> body[1], pos |-> 0]>>
        /\ received' = received + body[1]
        /\ body' = Tail(body)
    BY <1>2 DEF NextIsReady, Wrap
  <2>2. /\ body \in Seq(0..MaxLength) /\ Len(body) <= BodyChunks /\ Len(body) \in Nat
        /\ received \in 0..Total /\ Room
    BY LenProperties DEF ReaderBounds, ReaderTypeOK
  <2>3. /\ body[1] \in 0..MaxLength /\ Tail(body) \in Seq(0..MaxLength)
        /\ Len(Tail(body)) = Len(body) - 1 /\ Len(body) \in Nat \ {0}
    <3>1. Len(body) # 0
      BY <1>2, <2>2, EmptySeq
    <3>2. Head(body) \in 0..MaxLength /\ Tail(body) \in Seq(0..MaxLength)
          /\ Len(Tail(body)) = Len(body) - 1
      BY <1>2, <2>2, HeadTailProperties
    <3> QED BY <2>2, <3>1, <3>2
  <2>4. Len(buffer') \in 0..1 /\ \A i \in DOMAIN buffer' : buffer'[i] \in Cursor
    <3>1. 0 \in 0..MaxLength
      BY ReaderAssumption
    <3> QED BY <2>1, <2>3, <3>1 DEF Cursor
  <2> DEFINE less == Len(body) - 1
  <2>5. /\ less * MaxLength \in Nat
        /\ Len(body) * MaxLength = less * MaxLength + MaxLength
    BY <2>3, OneChunkLess, ReaderAssumption
  <2>6. received' \in Nat /\ received' + less * MaxLength <= Total /\ Total \in Nat
    <3>1. received + Len(body) * MaxLength <= Total
      BY <2>2 DEF Room
    <3>2. Total \in Nat /\ MaxLength \in Nat
      BY RoomMeans, ReaderAssumption
    <3> DEFINE all == Len(body) * MaxLength
               rest == less * MaxLength
    <3> HIDE DEF all, rest
    <3>3. all = rest + MaxLength /\ rest \in Nat /\ received + all <= Total
      BY <2>5, <3>1 DEF all, rest
    <3>4. received' \in Nat /\ received' + rest <= Total
      BY <2>1, <2>2, <2>3, <3>2, <3>3
    <3> QED BY <3>2, <3>4 DEF rest
  <2>7. Room'
    <3>1. Len(body') = less
      BY <2>1, <2>3
    <3> QED BY <2>6, <3>1 DEF Room, Total
  <2>8. received' \in 0..Total
    BY <2>5, <2>6
  <2>9. body' \in Seq(0..MaxLength) /\ Len(body') <= BodyChunks
    BY <2>1, <2>2, <2>3, ReaderAssumption
  <2>10. ReaderTypeOK'
    BY <1>0, <2>4, <2>8, <2>9 DEF ReaderBounds, ReaderTypeOK, Cursor, Total
  <2> QED BY <2>7, <2>10 DEF ReaderBounds
<1> QED BY <1>1, <1>2

(* The types of the reader: no sum of chunk lengths passes Total, and read
   copies no more than it was asked for. *)
THEOREM ReaderTypeCorrect == ReaderSpec => []ReaderTypeOK
<1>1. ReaderInit => ReaderBounds
  BY FirstBounds
<1>2. ReaderInv /\ ReaderBounds /\ [ReaderNext]_readerVars => ReaderBounds'
  <2>1. 0..MaxLength + 1 \subseteq Nat
    BY ReaderAssumption
  <2> QED BY <2>1, CopyBounds, NextBounds, ConsumeBounds, StillBounds DEF ReaderNext
<1>3. ReaderBounds => ReaderTypeOK
  BY DEF ReaderBounds
<1> QED BY <1>1, <1>2, <1>3, ReaderInvariance, PTL DEF ReaderSpec
=============================================================================
