----------------------------- MODULE ByteStream -----------------------------
(***************************************************************************)
(* What ResponseChunks promises its consumer, whatever it is made of: the  *)
(* chunks of the response in the order in which the browser delivered      *)
(* them, each once, then the end of the stream, or one error and the end.  *)
(***************************************************************************)
EXTENDS Naturals, Sequences

CONSTANTS
  Chunks,  \* chunks of a body
  Errors,  \* errors that can end a stream
  Open,    \* neither
  None     \* the end of the stream

VARIABLES
  given,   \* the chunks delivered by the browser
  source,  \* Open, None when the body has ended, or the error that ended it
  out      \* what the consumer was given

streamVars == <<given, source, out>>

StreamInit == given = <<>> /\ source = Open /\ out = <<>>

Give(c) ==
  /\ source = Open
  /\ given' = Append(given, c)
  /\ UNCHANGED <<source, out>>

Close(e) ==
  /\ source = Open
  /\ source' = e
  /\ UNCHANGED <<given, out>>

YieldChunk ==
  /\ Len(out) < Len(given)
  /\ out' = Append(out, given[Len(out) + 1])
  /\ UNCHANGED <<given, source>>

(* What ended the stream follows its last chunk. *)
YieldLast ==
  /\ Len(out) = Len(given) /\ source # Open
  /\ out' = Append(out, source)
  /\ UNCHANGED <<given, source>>

YieldEnd ==
  /\ Len(out) > Len(given)
  /\ out' = Append(out, None)
  /\ UNCHANGED <<given, source>>

StreamNext ==
  \/ \E c \in Chunks : Give(c)
  \/ \E e \in Errors \union {None} : Close(e)
  \/ YieldChunk \/ YieldLast \/ YieldEnd

StreamSpec == StreamInit /\ [][StreamNext]_streamVars
=============================================================================
