------------------------- MODULE LoggingInterceptors -------------------------
(***************************************************************************)
(* ResponseLoggingInterceptor and RequestLoggingInterceptor: the body of a *)
(* message on its way through the one that buffers and logs what is        *)
(* written, over a connection, and through the one that reads, logs and    *)
(* replays what has arrived.  Both are registered with the server and with *)
(* the Client of the notify resources, so every request and every response *)
(* of a relayed notification takes this way.                               *)
(*                                                                         *)
(* The interceptors have no fields: messages do not share anything, and    *)
(* the module follows one of them.                                         *)
(***************************************************************************)
EXTENDS Naturals, Sequences

CONSTANTS Bodies,       \* message bodies, sequences of bytes
          BufferSize    \* 1024 in RequestLoggingInterceptor

Nul == 0                \* what a new byte[] holds; the bodies do not contain it

ASSUME BodiesAssumption == \A b \in Bodies : b \in Seq(Nat \ {Nul})
ASSUME BufferAssumption == BufferSize \in Nat \ {0}

VARIABLES body,         \* what the MessageBodyWriter is to write
          writer,       \* how far aroundWriteTo has got
          written,      \* bytes the MessageBodyWriter has written
          thrown,       \* ctx.proceed() has thrown
          output,       \* the context's output stream: "original" or "baos"
          baos,         \* the writing interceptor's ByteArrayOutputStream
          wire,         \* bytes sent on the original stream
          ending,       \* how the message ends on the wire
          reader,       \* how far aroundReadFrom has got
          taken,        \* bytes read from the wire
          buffer,       \* the reading interceptor's byte[]
          copy,         \* its ByteArrayOutputStream
          position,     \* the position of stream is1 over the copy
          entity        \* what the MessageBodyReader gets

writerVars == <<body, writer, written, thrown, output, baos, wire, ending>>
readerVars == <<reader, taken, buffer, copy, position, entity>>
vars == <<writerVars, readerVars>>

Bytes == {body[i] : i \in 1..Len(body)}

TypeOK ==
    /\ body \in Bodies
    /\ writer \in {"start", "proceed", "finally", "ended"}
    /\ written \in 0..Len(body)
    /\ thrown \in BOOLEAN
    /\ output \in {"original", "baos"}
    /\ baos \in Seq(Bytes) /\ wire \in Seq(Bytes)
    /\ ending \in {"open", "complete", "aborted", "broken"}
    /\ reader \in {"read", "proceed", "done", "failed"}
    /\ taken \in 0..Len(wire)
    /\ buffer \in [1..BufferSize -> Bytes \cup {Nul}]
    /\ copy \in Seq(Bytes) /\ entity \in Seq(Bytes)
    /\ position \in 0..Len(copy)

Init ==
    /\ body \in Bodies
    /\ writer = "start" /\ written = 0 /\ thrown = FALSE
    /\ output = "original" /\ baos = <<>> /\ wire = <<>> /\ ending = "open"
    /\ reader = "read" /\ taken = 0
    /\ buffer = [i \in 1..BufferSize |-> Nul]
    /\ copy = <<>> /\ position = 0 /\ entity = <<>>
-----------------------------------------------------------------------------
(***************************************************************************)
(* ResponseLoggingInterceptor.aroundWriteTo                                *)
(***************************************************************************)

\* The context's stream is replaced by a buffer.
Divert ==
    /\ writer = "start"
    /\ writer' = "proceed"
    /\ output' = "baos"
    /\ UNCHANGED <<body, written, thrown, baos, wire, ending, readerVars>>

\* ctx.proceed(): the MessageBodyWriter writes a part of the body ...
Write ==
    /\ writer = "proceed"
    /\ \E n \in written + 1 .. Len(body) :
          /\ written' = n
          /\ baos' = baos \o SubSeq(body, written + 1, n)
    /\ UNCHANGED <<body, writer, thrown, output, wire, ending, readerVars>>

\* ... and returns when all is written, or throws.
Proceeded ==
    /\ writer = "proceed"
    /\ thrown' \in {TRUE} \cup {written # Len(body)}
    /\ writer' = "finally"
    /\ UNCHANGED <<body, written, output, baos, wire, ending, readerVars>>

\* Mutant: the stream is put back after the try block, not in finally.
FlushUnguarded ==
    /\ writer = "finally"
    /\ wire' = wire \o baos
    /\ output' = IF thrown THEN output ELSE "original"
    /\ ending' = IF thrown THEN "aborted" ELSE "complete"
    /\ writer' = "ended"
    /\ UNCHANGED <<body, written, thrown, baos, readerVars>>

\* Mutant: the exception of proceed() is caught and logged.
FlushSwallows ==
    /\ writer = "finally"
    /\ wire' = wire \o baos
    /\ output' = "original"
    /\ ending' = "complete"
    /\ writer' = "ended"
    /\ UNCHANGED <<body, written, thrown, baos, readerVars>>

\* The finally block logs and sends what was buffered, all of the body or not, and
\* puts the stream back.  An exception of proceed() goes on to the container, which
\* ends the message so that it cannot pass for complete.
Flush ==
    /\ writer = "finally"
    /\ wire' = wire \o baos
    /\ output' = "original"
    /\ ending' = IF thrown THEN "aborted" ELSE "complete"
    /\ writer' = "ended"
    /\ UNCHANGED <<body, written, thrown, baos, readerVars>>

\* baos.writeTo(..) fails: the rest of the finally block is skipped.
FlushFails ==
    /\ writer = "finally"
    /\ \E n \in 0..Len(baos) : wire' = wire \o SubSeq(baos, 1, n)
    /\ ending' = "broken"
    /\ writer' = "ended"
    /\ UNCHANGED <<body, written, thrown, output, baos, readerVars>>
-----------------------------------------------------------------------------
(***************************************************************************)
(* RequestLoggingInterceptor.aroundReadFrom                                *)
(***************************************************************************)

Filled(n) == [i \in 1..BufferSize |-> IF i <= n THEN wire[taken + i] ELSE buffer[i]]

\* Mutant: the whole buffer is written, not the len bytes just read.
ReadWholeBuffer ==
    /\ reader = "read"
    /\ \E n \in 1..BufferSize :
          /\ n <= Len(wire) - taken
          /\ buffer' = Filled(n)
          /\ copy' = copy \o buffer'
          /\ taken' = taken + n
    /\ UNCHANGED <<writerVars, reader, position, entity>>

\* One round of the loop: input.read(buffer) returns between one byte and as
\* many as the buffer holds, and the rest of the buffer keeps what it held.
Read ==
    /\ reader = "read"
    /\ \E n \in 1..BufferSize :
          /\ n <= Len(wire) - taken
          /\ buffer' = Filled(n)
          /\ copy' = copy \o SubSeq(buffer', 1, n)
          /\ taken' = taken + n
    /\ UNCHANGED <<writerVars, reader, position, entity>>

\* Mutant: is1.reset() is forgotten.
ReplayConsumed ==
    /\ reader = "read"
    /\ ending = "complete" /\ taken = Len(wire)
    /\ position' = Len(copy)
    /\ reader' = "proceed"
    /\ UNCHANGED <<writerVars, taken, buffer, copy, entity>>

\* At the end of the message the copy is logged, which consumes is1; is1 is reset
\* and takes the place of the context's stream.
Replay ==
    /\ reader = "read"
    /\ ending = "complete" /\ taken = Len(wire)
    /\ position' = 0
    /\ reader' = "proceed"
    /\ UNCHANGED <<writerVars, taken, buffer, copy, entity>>

\* Mutant: an exception of read() is logged, and the loop goes on.
ReadFailsOn ==
    /\ reader = "read"
    /\ ending \in {"aborted", "broken"} /\ taken = Len(wire)
    /\ UNCHANGED vars

\* A message that breaks off makes read() throw, out of the interceptor.
ReadFails ==
    /\ reader = "read"
    /\ ending \in {"aborted", "broken"} /\ taken = Len(wire)
    /\ reader' = "failed"
    /\ UNCHANGED <<writerVars, taken, buffer, copy, position, entity>>

\* ctx.proceed(): the MessageBodyReader reads is1 from where it stands.
Unmarshal ==
    /\ reader = "proceed"
    /\ entity' = SubSeq(copy, position + 1, Len(copy))
    /\ reader' = "done"
    /\ UNCHANGED <<writerVars, taken, buffer, copy, position>>

WriterStep == Divert \/ Write \/ Proceeded \/ Flush \/ FlushFails
ReaderStep == Read \/ Replay \/ ReadFails \/ Unmarshal

Next == WriterStep \/ ReaderStep
Spec == Init /\ [][Next]_vars

\* Each side is one thread that runs to its end, and the wire delivers.
FairSpec == Spec /\ WF_vars(WriterStep) /\ WF_vars(ReaderStep)
-----------------------------------------------------------------------------
(***************************************************************************)
(* Properties                                                              *)
(***************************************************************************)

\* A message is delivered as it was to be written, or not at all: never a part
\* of it that a failing writer left behind, never bytes of an earlier read.
DeliveredWhole == reader = "done" => entity = body /\ ~thrown

\* Only a broken connection leaves the buffer behind in the context: after a
\* writer that threw, the container's error message goes to the receiver.
StreamPutBack == (writer = "ended" /\ ending # "broken") => output = "original"

\* The receiver is never left waiting: the message is delivered or fails.
TransferEnds == <>(reader \in {"done", "failed"})
=============================================================================
