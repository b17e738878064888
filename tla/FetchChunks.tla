---------------------------- MODULE FetchChunks -----------------------------
(***************************************************************************)
(* ResponseBody::chunks: the body of a response as a stream of chunks,     *)
(* from the browser's reader (GetResponseChunks in src/fetch.cpp) to       *)
(* ResponseChunks::poll_next (src/src/fetch.rs).                           *)
(*                                                                         *)
(* The reader and the consumer share a chain of one-shot channels.  The    *)
(* box behind user_data holds the sender of the last one.  A chunk travels *)
(* together with the receiver of a fresh channel, whose sender replaces    *)
(* the one just used; the end of the body drops the last sender, and an    *)
(* error is sent through it.  The consumer may be on another thread.       *)
(*                                                                         *)
(* Chunks are numbered as the browser delivers them, and channels as they  *)
(* are made.  The one-shot channels are those of utils_atomics.            *)
(***************************************************************************)
EXTENDS Integers, Sequences

CONSTANTS MaxChunks   \* bound: chunks in the body

ASSUME FetchChunksAssumption == MaxChunks \in Nat

VARIABLES
  js,          \* the async function of GetResponseChunks
  delivered,   \* chunks that the browser's reader has delivered
  channel,     \* channel[k]: what the k-th channel holds
  userData,    \* the channel whose sender is in the box; 0: the box is freed
  recv,        \* ResponseChunks.recv: a channel, or 0 for None
  registered,  \* the consumer's waker is in that channel
  awake,       \* the consumer will poll
  dropped,     \* the consumer dropped the stream
  out          \* history: what poll_next returned, without Pending

vars == <<js, delivered, channel, userData, recv, registered, awake, dropped, out>>

(* What a channel holds, apart from the number of a chunk and the receiver
   of the next channel. *)
Empty == 0
Closed == -1
Errors == {-2, -3}    \* RequestError::TimedOut, RequestError::Unexpected
None == -4            \* what poll_next returns at the end

TypeOK ==
  /\ js \in {"start", "reading", "over", "no body"}
  /\ delivered \in 0..MaxChunks
  /\ channel \in Seq(Errors \union {Closed, Empty} \union 1..MaxChunks)
  /\ Len(channel) \in 1..(MaxChunks + 1)
  /\ userData \in 0..Len(channel)
  /\ recv \in 0..Len(channel)
  /\ registered \in BOOLEAN /\ awake \in BOOLEAN /\ dropped \in BOOLEAN
  /\ out \in Seq(Errors \union {None} \union 1..MaxChunks)

-----------------------------------------------------------------------------
(* A definition placed before another with the same parameter is a faulty
   variant of it, kept to show that the properties depend on it. *)

(* AsyncSender::send, and its drop: the receiver of channel k is woken. *)
SendUnwoken(k) == UNCHANGED <<registered, awake>>
WakeReceiver(k) ==
  IF registered /\ recv = k
    THEN registered' = FALSE /\ awake' = TRUE
    ELSE UNCHANGED <<registered, awake>>

(* The sender that is left in the box when a chunk was sent from channel k. *)
SameSender(k) == k
NewSender(k) == Len(channel) + 1

(* The channels after a chunk was sent through the k-th. *)
ChunkAlone(k) == [channel EXCEPT ![k] = delivered']
ChunkSent(k) == Append([channel EXCEPT ![k] = delivered'], Empty)

(* The drop of the box when the body has ended. *)
EndForgotten(k) == UNCHANGED channel
EndDropped(k) == channel' = [channel EXCEPT ![k] = Closed]

(* poll_next's recv after a chunk was received from channel k: the receiver
   that came with it. *)
RecvKept(k) == k
RecvNext(k) == k + 1

-----------------------------------------------------------------------------
Init ==
  /\ js = "start" /\ delivered = 0
  /\ channel = <<Empty>> /\ userData = 1 /\ recv = 1
  /\ registered = FALSE /\ awake = TRUE /\ dropped = FALSE
  /\ out = <<>>

(* response.body.getReader(), outside the try: a response without a body
   throws, and the async function ends without telling anyone. *)
GetReader ==
  /\ js = "start"
  /\ js' \in {"reading", "no body"}
  /\ UNCHANGED <<delivered, channel, userData, recv, registered, awake, dropped, out>>

(* reader.read() gave a chunk; on_bytes_post with status Sent. *)
ReadChunk ==
  /\ js = "reading"
  /\ delivered < MaxChunks
  /\ delivered' = delivered + 1
  /\ channel' = ChunkSent(userData)
  /\ userData' = NewSender(userData)
  /\ WakeReceiver(userData)
  /\ UNCHANGED <<js, recv, dropped, out>>

(* It gave done; on_bytes_post with status Ended. *)
ReadDone ==
  /\ js = "reading"
  /\ js' = "over"
  /\ EndDropped(userData)
  /\ userData' = 0
  /\ WakeReceiver(userData)
  /\ UNCHANGED <<delivered, recv, dropped, out>>

(* It threw; on_bytes_post with status TimedOut or Exception. *)
ReadFails(e) ==
  /\ js = "reading"
  /\ js' = "over"
  /\ channel' = [channel EXCEPT ![userData] = e]
  /\ userData' = 0
  /\ WakeReceiver(userData)
  /\ UNCHANGED <<delivered, recv, dropped, out>>

(* poll_next, called by a consumer that is awake. *)
PollChunk ==
  /\ awake /\ recv # 0 /\ channel[recv] > 0
  /\ out' = Append(out, channel[recv])
  /\ recv' = RecvNext(recv)
  /\ UNCHANGED <<js, delivered, channel, userData, registered, awake, dropped>>

PollError ==
  /\ awake /\ recv # 0 /\ channel[recv] \in Errors
  /\ out' = Append(out, channel[recv])
  /\ recv' = 0
  /\ UNCHANGED <<js, delivered, channel, userData, registered, awake, dropped>>

(* The consumer stops polling at the end. *)
PollEnd ==
  /\ awake
  /\ recv # 0 => channel[recv] = Closed
  /\ out' = Append(out, None)
  /\ recv' = 0
  /\ awake' = FALSE
  /\ UNCHANGED <<js, delivered, channel, userData, registered, dropped>>

PollPending ==
  /\ awake /\ recv # 0 /\ channel[recv] = Empty
  /\ registered' = TRUE /\ awake' = FALSE
  /\ UNCHANGED <<js, delivered, channel, userData, recv, dropped, out>>

Poll == PollChunk \/ PollError \/ PollEnd \/ PollPending

(* The task polls for another reason. *)
SpuriousPoll ==
  /\ registered /\ recv # 0
  /\ awake' = TRUE
  /\ UNCHANGED <<js, delivered, channel, userData, recv, registered, dropped, out>>

(* The consumer drops ResponseChunks; the reader does not learn of it. *)
Drop ==
  /\ ~dropped
  /\ dropped' = TRUE
  /\ recv' = 0 /\ registered' = FALSE /\ awake' = FALSE
  /\ UNCHANGED <<js, delivered, channel, userData, out>>

Next ==
  \/ GetReader \/ ReadChunk \/ ReadDone \/ \E e \in Errors : ReadFails(e)
  \/ Poll \/ SpuriousPoll \/ Drop

(* A consumer that is awake polls; nothing says that the network goes on. *)
Fairness == WF_vars(Poll)

Spec == Init /\ [][Next]_vars /\ Fairness

-----------------------------------------------------------------------------
(* The box behind user_data is freed exactly when the reader is over, and
   until then it holds the sender of the last channel, still unused. *)
SenderIsLast ==
  IF js = "over" THEN userData = 0
                 ELSE userData = Len(channel) /\ channel[userData] = Empty

(* The chain is the stream that ByteStream promises: what its channels but the
   last have carried, in their order, then what was left in the last one. *)
Last == channel[Len(channel)]
Stream == INSTANCE ByteStream WITH
  Chunks <- 1..MaxChunks, Open <- Empty,
  given <- SubSeq(channel, 1, Len(channel) - 1),
  source <- IF Last = Closed THEN None ELSE IF Last \in Errors THEN Last ELSE Empty

ImplementsStream == Stream!StreamSpec

(* Every chunk the browser delivered reaches a consumer that keeps the stream. *)
ChunksArrive ==
  \A k \in 1..MaxChunks :
    (delivered >= k) ~> (dropped \/ \E i \in 1..Len(out) : out[i] = k)

(* Once the reader is over, the consumer is told; a body that is missing
   is the one case in which it waits for ever. *)
EndArrives == (js = "over") ~> (dropped \/ (out # <<>> /\ out[Len(out)] = None))
=============================================================================
