--------------------------- MODULE ResponseReader ---------------------------
(***************************************************************************)
(* fetch::ResponseReader (src/src/fetch.rs): read, fill_buf and consume    *)
(* over the stream of chunks that ByteStream promises.                     *)
(*                                                                         *)
(* The methods take &mut self: one of them is active at a time, and what   *)
(* can happen between its steps is that the stream makes it wait, and that *)
(* its caller drops the future while it waits.                             *)
(*                                                                         *)
(* The bytes of the body are numbered from 1.  An Option is a sequence of  *)
(* at most one element.                                                    *)
(***************************************************************************)
EXTENDS Naturals, Sequences, Functions

CONSTANTS
  BodyChunks, \* bound: chunks in a body
  MaxLength,  \* bound: bytes in a chunk
  MaxWant     \* bound: length of the slice given to read

ASSUME ReaderAssumption == {BodyChunks, MaxLength, MaxWant} \subseteq Nat

VARIABLES
  body,       \* the lengths of the chunks that will come
  fails,      \* an error follows the last of them
  received,   \* bytes in the chunks that came
  buffer,     \* ResponseReader.buffer: a Cursor, with the chunk's length
  op,         \* the method that is active
  want,       \* buf.len()
  filled,     \* the bytes in buf[..len]
  position,   \* history: bytes of the body that were consumed
  empty       \* history: the latest fill_buf returned an empty slice

readerVars == <<body, fails, received, buffer, op, want, filled, position, empty>>

Cursor == [length : 0..MaxLength, pos : 0..MaxLength]
Bodies == UNION {[1..n -> 0..MaxLength] : n \in 0..BodyChunks}
Total == BodyChunks * MaxLength

ReaderTypeOK ==
  /\ body \in Seq(0..MaxLength) /\ Len(body) <= BodyChunks
  /\ fails \in BOOLEAN
  /\ received \in 0..Total
  /\ Len(buffer) \in 0..1 /\ \A i \in DOMAIN buffer : buffer[i] \in Cursor
  /\ op \in {"idle", "read", "read.next", "fill.next", "spins"}
  /\ want \in 0..MaxWant
  /\ filled \in Seq(1..Total) /\ Len(filled) <= want
  /\ position \in 0..Total
  /\ empty \in BOOLEAN

cursor == buffer[1]
HasBuffer == buffer # <<>>
Remaining == IF HasBuffer THEN cursor.length - cursor.pos ELSE 0
Lesser(a, b) == IF a < b THEN a ELSE b

-----------------------------------------------------------------------------
(* A definition placed before another with the same parameter is a faulty
   variant of it, kept to show that the properties depend on it. *)

(* cursor_is_empty *)
EmptyOff(c) == c.pos + 1 >= c.length
CursorIsEmpty(c) == c.pos >= c.length

(* cursor.read(&mut buf[len..]): n bytes go after those that are there. *)
FillAtStart(n) == [i \in 1..n |-> position + i] \o filled
Fill(n) == filled \o [i \in 1..n |-> position + i]

(* n bytes of the cursor are used up. *)
PosKept(n) == buffer
PosMoved(n) == [buffer EXCEPT ![1].pos = @ + n]

(* self.buffer while read waits for the next chunk, and the Cursor around a
   chunk of n bytes. *)
BufferTaken(b) == <<>>
BufferStays(b) == b
WrapNonEmpty(n) == IF n = 0 THEN <<>> ELSE <<[length |-> n, pos |-> 0]>>
Wrap(n) == <<[length |-> n, pos |-> 0]>>

(* What the slice is that fill_buf returns, as a number of bytes. *)
RestOfChunk(b) == IF b = <<>> THEN 0 ELSE b[1].length - b[1].pos

(* fill_buf keeps a buffer that is not empty. *)
KeepsAny(b) == b # <<>>
Keeps(b) == b # <<>> /\ ~CursorIsEmpty(b[1])

-----------------------------------------------------------------------------
ReaderInit ==
  /\ body \in Bodies /\ fails \in BOOLEAN
  /\ received = 0 /\ buffer = <<>>
  /\ op = "idle" /\ want = 0 /\ filled = <<>>
  /\ position = 0 /\ empty = FALSE

Read(n) ==
  /\ op = "idle"
  /\ op' = "read" /\ want' = n /\ filled' = <<>>
  /\ UNCHANGED <<body, fails, received, buffer, position, empty>>

(* One turn of the loop in read, and the return after it. *)
Copy ==
  LET n == Lesser(Remaining, want - Len(filled))
      moved == PosMoved(n) IN
  /\ op = "read" /\ Len(filled) < want /\ HasBuffer
  /\ filled' = Fill(n)
  /\ position' = position + n
  /\ IF CursorIsEmpty(moved[1]) THEN op' = "read.next" /\ buffer' = BufferStays(moved)
                                ELSE op' = "idle" /\ buffer' = moved
  /\ UNCHANGED <<body, fails, received, want, empty>>

ReadFull ==
  /\ op = "read" /\ Len(filled) = want
  /\ op' = "idle"
  /\ UNCHANGED <<body, fails, received, buffer, want, filled, position, empty>>

(* Without a buffer a turn does nothing: the loop turns for ever, and as it
   never awaits, nothing else happens on its thread. *)
Spin ==
  /\ op = "read" /\ Len(filled) < want /\ ~HasBuffer
  /\ op' = "spins"
  /\ UNCHANGED <<body, fails, received, buffer, want, filled, position, empty>>

FillBuf ==
  /\ op = "idle"
  /\ IF Keeps(buffer) THEN op' = "idle" /\ empty' = (RestOfChunk(buffer) = 0)
                      ELSE op' = "fill.next" /\ UNCHANGED empty
  /\ UNCHANGED <<body, fails, received, buffer, want, filled, position>>

(* chunks.next() is ready, with the next chunk or with None. *)
NextIsReady ==
  /\ op \in {"read.next", "fill.next"}
  /\ body = <<>> => ~fails
  /\ IF body = <<>>
       THEN buffer' = <<>> /\ UNCHANGED <<body, received>>
       ELSE /\ buffer' = Wrap(body[1])
            /\ received' = received + body[1]
            /\ body' = Tail(body)
  /\ IF op = "read.next" THEN op' = "read" /\ UNCHANGED empty
                         ELSE op' = "idle" /\ empty' = (RestOfChunk(buffer') = 0)
  /\ UNCHANGED <<fails, want, filled, position>>

(* The call returns no bytes; those that read has copied so far are lost,
   and stay behind the cursor. *)
GiveUp ==
  /\ op' = "idle"
  /\ UNCHANGED <<body, received, buffer, want, filled, position, empty>>

(* chunks.next() is ready with an error; the stream ends after it. *)
NextFails ==
  /\ op \in {"read.next", "fill.next"}
  /\ body = <<>> /\ fails
  /\ fails' = FALSE
  /\ GiveUp

(* The caller drops the future while it waits for the stream. *)
DropFuture == op \in {"read.next", "fill.next"} /\ GiveUp /\ UNCHANGED fails

(* consume, of any amount.  Cursor::consume does not look how much there is;
   a cursor beyond its chunk is used like one at its end, so it stands there,
   and the next chunk is consumed from its beginning. *)
Consume(amt) ==
  LET n == Lesser(RestOfChunk(buffer), amt) IN
  /\ op = "idle"
  /\ IF HasBuffer THEN buffer' = PosMoved(n) /\ position' = position + n
                  ELSE UNCHANGED <<buffer, position>>
  /\ UNCHANGED <<body, fails, received, op, want, filled, empty>>

ReaderNext ==
  \/ \E n \in 0..MaxWant : Read(n)
  \/ Copy \/ ReadFull \/ Spin \/ FillBuf \/ NextIsReady \/ NextFails \/ DropFuture
  \/ \E amt \in 0..MaxLength + 1 : Consume(amt)

(* A read that is running goes on.  Nothing makes the stream answer: the
   network may stop. *)
ReaderFairness == WF_readerVars(Copy) /\ WF_readerVars(ReadFull)

ReaderSpec == ReaderInit /\ [][ReaderNext]_readerVars /\ ReaderFairness

-----------------------------------------------------------------------------
(* The cursor is exactly where the caller is, so nothing is skipped or given
   twice when read and fill_buf are mixed; and while read collects bytes from
   several chunks, buf[..len] holds those that come next, in order. *)
BytesInOrder ==
  /\ position + Remaining = received
  /\ op \in {"read", "read.next", "spins"} =>
       filled = [i \in 1..Len(filled) |-> position - Len(filled) + i]

(* read only spins before the first chunk and after the last one. *)
SpinsAtTheEdges == op = "spins" => received = 0 \/ body = <<>>

(* An empty slice from fill_buf, which the caller takes for the end of the
   body, comes at its end or from a chunk without bytes. *)
EmptyMeansEnd ==
  [][(FillBuf \/ NextIsReady) /\ op' = "idle" /\ empty' =>
       body = <<>> \/ (op = "fill.next" /\ body[1] = 0)]_readerVars

(* Each wait of read for the next chunk ends. *)
StreamAnswers == []<>(op # "read.next")

(* A read that leaves something of the chunk it has in its buffer returns
   without waiting for the stream.  One that takes the last byte of a chunk
   awaits the next chunk before it returns, also when its slice is full; if the
   stream answers, it returns, provided that the body still holds enough bytes
   and that the reader held a buffer when it began. *)
BytesLeft == FoldFunction(LAMBDA a, b : a + b, 0, body)
Missing == want - Len(filled)
ReadReturns ==
  /\ (op = "read" /\ Remaining > Missing) ~> op = "idle"
  /\ StreamAnswers =>
       ((op = "read" /\ HasBuffer /\ Remaining + BytesLeft >= Missing) ~> op = "idle")
=============================================================================
