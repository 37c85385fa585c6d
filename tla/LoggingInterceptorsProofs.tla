---------------------- MODULE LoggingInterceptorsProofs ----------------------
(***************************************************************************)
(* Proofs about LoggingInterceptors, for bodies of any length, a reading   *)
(* buffer of any size, writes and reads of any lengths.                    *)
(***************************************************************************)
EXTENDS LoggingInterceptors, SequenceTheorems, TLAPS

\* The buffer holds what was written of the body, and nothing is on the wire
\* before the finally block.
WriterInv ==
    /\ Len(baos) = written
    /\ \A k \in 1..written : baos[k] = body[k]
    /\ writer # "ended" => wire = <<>> /\ ending = "open"
    /\ (writer \in {"finally", "ended"} /\ ~thrown) => written = Len(body)
    /\ ending = "complete" => wire = baos /\ ~thrown
    /\ StreamPutBack

\* The copy holds what was read of the wire, and is handed on only at its end.
ReaderInv ==
    /\ Len(copy) = taken
    /\ \A k \in 1..taken : copy[k] = wire[k]
    /\ reader \in {"proceed", "done"} => ending = "complete"
    /\ reader = "proceed" => position = 0 /\ taken = Len(wire)
    /\ DeliveredWhole

IInv == TypeOK /\ WriterInv /\ ReaderInv
-----------------------------------------------------------------------------
(***************************************************************************)
(* Sequences                                                               *)
(***************************************************************************)

\* A sequence is one of its own elements.
LEMMA OwnElements == ASSUME NEW T, NEW s \in Seq(T) PROVE s \in Seq({s[k] : k \in 1..Len(s)})
  OBVIOUS

\* A piece of a sequence.
LEMMA Piece ==
    ASSUME NEW T, NEW s \in Seq(T), NEW m \in Nat, NEW n \in Nat, m <= n, n <= Len(s)
    PROVE  /\ SubSeq(s, m + 1, n) \in Seq(T)
           /\ Len(SubSeq(s, m + 1, n)) = n - m
           /\ \A k \in 1..(n - m) : SubSeq(s, m + 1, n)[k] = s[m + k]
  OBVIOUS

\* p is what stands in s after its first m elements.
Stands(p, m, s) == \A k \in 1..Len(p) : p[k] = s[m + k]

\* A prefix of s followed by the next piece is a longer prefix.
LEMMA Extend ==
    ASSUME NEW T, NEW s, NEW p \in Seq(T), NEW q \in Seq(T), Stands(p, 0, s), Stands(q, Len(p), s)
    PROVE  /\ p \o q \in Seq(T)
           /\ Len(p \o q) = Len(p) + Len(q)
           /\ Stands(p \o q, 0, s)
  <1>1. /\ p \o q \in Seq(T) /\ Len(p \o q) = Len(p) + Len(q)
        /\ \A k \in 1 .. Len(p) + Len(q) : (p \o q)[k] = IF k <= Len(p) THEN p[k] ELSE q[k - Len(p)]
    BY ConcatProperties
  <1>2. Len(p) \in Nat /\ Len(q) \in Nat
    OBVIOUS
  <1>3. ASSUME NEW k \in 1..(Len(p) + Len(q)) PROVE (p \o q)[k] = s[0 + k]
    <2>1. CASE k <= Len(p)
      BY <1>1, <1>2, <2>1 DEF Stands
    <2>2. CASE k > Len(p)
      <3>1. k - Len(p) \in 1..Len(q) /\ Len(p) + (k - Len(p)) = k
        BY <1>2, <2>2
      <3>2. (p \o q)[k] = q[k - Len(p)]
        BY <1>1, <1>2, <2>2
      <3> QED
        BY <2>2, <3>1, <3>2 DEF Stands
    <2> QED
      BY <1>2, <2>1, <2>2
  <1> QED
    BY <1>1, <1>3 DEF Stands

\* Sequences of one length with the same elements are equal.
LEMMA SameSequence ==
    ASSUME NEW T, NEW s \in Seq(T), NEW p \in Seq(T), Len(p) = Len(s),
           \A k \in 1..Len(s) : p[k] = s[k]
    PROVE  p = s
  OBVIOUS

LEMMA BodyType == TypeOK => body \in Seq(Bytes) /\ Len(body) \in Nat
  <1> SUFFICES ASSUME TypeOK PROVE body \in Seq(Bytes) /\ Len(body) \in Nat
    OBVIOUS
  <1>1. body \in Seq(Nat \ {Nul})
    BY BodiesAssumption DEF TypeOK
  <1> QED
    BY <1>1, OwnElements DEF Bytes

LEMMA BytesKept == UNCHANGED body => Bytes' = Bytes
  BY DEF Bytes

-----------------------------------------------------------------------------
LEMMA InvInit == Init => IInv
  <1> SUFFICES ASSUME Init PROVE IInv
    OBVIOUS
  <1>1. body \in Bodies /\ Len(body) \in Nat
    BY BodiesAssumption DEF Init
  <1>2. <<>> \in Seq(Bytes) /\ Len(<<>>) = 0 /\ 0 \in 0..Len(body)
    BY <1>1
  <1>3. TypeOK
    <2>1. buffer \in [1..BufferSize -> Bytes \cup {Nul}]
      BY DEF Init
    <2>2. written \in 0..Len(body) /\ taken \in 0..Len(wire) /\ position \in 0..Len(copy)
      BY <1>1, <1>2 DEF Init
    <2>3. baos \in Seq(Bytes) /\ wire \in Seq(Bytes) /\ copy \in Seq(Bytes) /\ entity \in Seq(Bytes)
      BY <1>2 DEF Init
    <2> QED
      BY <1>1, <2>1, <2>2, <2>3 DEF Init, TypeOK
  <1>4. WriterInv /\ ReaderInv
    BY <1>2 DEF Init, WriterInv, ReaderInv, StreamPutBack, DeliveredWhole
  <1> QED
    BY <1>3, <1>4 DEF IInv
-----------------------------------------------------------------------------
(***************************************************************************)
(* The writing interceptor                                                 *)
(***************************************************************************)
LEMMA DivertSafe == IInv /\ Divert => IInv'
  BY BytesKept DEF IInv, TypeOK, WriterInv, ReaderInv, StreamPutBack, DeliveredWhole, Divert, readerVars

LEMMA WriteSafe == IInv /\ Write => IInv'
  <1> SUFFICES ASSUME IInv, Write PROVE IInv'
    OBVIOUS
  <1>1. PICK n \in written + 1 .. Len(body) :
            written' = n /\ baos' = baos \o SubSeq(body, written + 1, n)
    BY DEF Write
  <1>2. /\ body \in Seq(Bytes) /\ Len(body) \in Nat
        /\ baos \in Seq(Bytes) /\ Len(baos) = written /\ \A k \in 1..written : baos[k] = body[k]
        /\ written \in Nat /\ n \in Nat /\ written <= n /\ n <= Len(body)
    <2>1. TypeOK /\ WriterInv
      BY DEF IInv
    <2>2. body \in Seq(Bytes) /\ Len(body) \in Nat
      BY <2>1, BodyType
    <2>3. baos \in Seq(Bytes) /\ written \in 0..Len(body)
      BY <2>1 DEF TypeOK
    <2>4. Len(baos) = written /\ \A k \in 1..written : baos[k] = body[k]
      BY <2>1 DEF WriterInv
    <2> QED
      BY <1>1, <2>2, <2>3, <2>4
  <1>3. /\ SubSeq(body, written + 1, n) \in Seq(Bytes)
        /\ Len(SubSeq(body, written + 1, n)) = n - written
        /\ \A k \in 1..(n - written) : SubSeq(body, written + 1, n)[k] = body[written + k]
    BY ONLY <1>2, Piece
  <1>4. baos' \in Seq(Bytes) /\ Len(baos') = n /\ \A k \in 1..n : baos'[k] = body[k]
    <2> DEFINE piece == SubSeq(body, written + 1, n)
    <2>1. /\ piece \in Seq(Bytes) /\ Len(piece) = n - written
          /\ \A k \in 1..(n - written) : piece[k] = body[written + k]
      BY <1>3
    <2> HIDE DEF piece
    <2>2. baos \in Seq(Bytes) /\ piece \in Seq(Bytes)
      BY <1>2, <2>1
    <2>3. Stands(baos, 0, body) /\ Stands(piece, Len(baos), body)
      BY <1>2, <2>1 DEF Stands
    <2>4. /\ baos \o piece \in Seq(Bytes) /\ Len(baos \o piece) = Len(baos) + Len(piece)
          /\ Stands(baos \o piece, 0, body)
      BY ONLY <2>2, <2>3, Extend, Zenon
    <2>5. Len(baos) + Len(piece) = n /\ baos' = baos \o piece
      BY <1>1, <1>2, <2>1 DEF piece
    <2> QED
      BY <1>2, <2>4, <2>5 DEF Stands
  <1>5. /\ writer = "proceed" /\ written' = n /\ n \in 0..Len(body)
        /\ UNCHANGED <<body, writer, thrown, output, wire, ending, readerVars>>
    BY <1>1, <1>2 DEF Write
  <1>6. TypeOK'
    BY <1>4, <1>5, BytesKept DEF IInv, TypeOK, readerVars
  <1>7. WriterInv'
    BY <1>4, <1>5 DEF IInv, WriterInv, StreamPutBack
  <1>8. ReaderInv'
    BY <1>5 DEF IInv, ReaderInv, DeliveredWhole, readerVars
  <1> QED
    BY <1>6, <1>7, <1>8 DEF IInv

LEMMA ProceededSafe == IInv /\ Proceeded => IInv'
  <1> SUFFICES ASSUME IInv, Proceeded PROVE IInv'
    OBVIOUS
  <1>1. /\ writer = "proceed" /\ writer' = "finally"
        /\ UNCHANGED <<body, written, output, baos, wire, ending, readerVars>>
    BY DEF Proceeded
  <1>2. thrown' = TRUE \/ thrown' = (written # Len(body))
    BY DEF Proceeded
  <1>3. thrown' \in BOOLEAN /\ (~thrown' => written = Len(body))
    BY <1>2
  <1>4. ending = "open"
    BY <1>1 DEF IInv, WriterInv
  <1>5. TypeOK'
    BY <1>1, <1>3, BytesKept DEF IInv, TypeOK, readerVars
  <1>6. WriterInv'
    BY <1>1, <1>3, <1>4 DEF IInv, WriterInv, StreamPutBack
  <1>7. ReaderInv'
    BY <1>1, <1>4 DEF IInv, ReaderInv, DeliveredWhole, readerVars
  <1> QED
    BY <1>5, <1>6, <1>7 DEF IInv

LEMMA FlushSafe == IInv /\ (Flush \/ FlushFails) => IInv'
  <1> SUFFICES ASSUME IInv, Flush \/ FlushFails PROVE IInv'
    OBVIOUS
  <1>1. /\ writer = "finally" /\ writer' = "ended" /\ wire = <<>> /\ ending = "open"
        /\ UNCHANGED <<body, written, thrown, baos, readerVars>>
        /\ baos \in Seq(Bytes) /\ taken = 0 /\ reader \notin {"proceed", "done"}
    BY DEF Flush, FlushFails, IInv, TypeOK, WriterInv, ReaderInv
  <1>2. wire' \in Seq(Bytes)
    <2>1. CASE Flush
      BY <1>1, <2>1 DEF Flush
    <2>2. CASE FlushFails
      <3>1. PICK n \in 0..Len(baos) : wire' = wire \o SubSeq(baos, 1, n)
        BY <2>2 DEF FlushFails
      <3>2. SubSeq(baos, 0 + 1, n) \in Seq(Bytes)
        BY <1>1, <3>1, Piece
      <3> QED
        BY <1>1, <3>1, <3>2
    <2> QED
      BY <2>1, <2>2
  <1>3. /\ ending' \in {"complete", "aborted", "broken"}
        /\ ending' = "complete" => wire' = baos /\ ~thrown
        /\ ending' # "broken" => output' = "original"
        /\ output' \in {"original", "baos"}
    BY <1>1 DEF Flush, FlushFails, IInv, TypeOK
  <1>4. TypeOK'
    BY <1>1, <1>2, <1>3, BytesKept DEF IInv, TypeOK, readerVars
  <1>5. WriterInv'
    BY <1>1, <1>3 DEF IInv, WriterInv, StreamPutBack
  <1>6. ReaderInv'
    BY <1>1 DEF IInv, ReaderInv, DeliveredWhole, readerVars
  <1> QED
    BY <1>4, <1>5, <1>6 DEF IInv
-----------------------------------------------------------------------------
(***************************************************************************)
(* The reading interceptor                                                 *)
(***************************************************************************)
LEMMA WriterKept == WriterInv /\ UNCHANGED writerVars => WriterInv'
  BY DEF WriterInv, StreamPutBack, writerVars

LEMMA ReadSafe == IInv /\ Read => IInv'
  <1> SUFFICES ASSUME IInv, Read PROVE IInv'
    OBVIOUS
  <1>1. PICK n \in 1..BufferSize :
            /\ n <= Len(wire) - taken /\ buffer' = Filled(n)
            /\ copy' = copy \o SubSeq(buffer', 1, n) /\ taken' = taken + n
    BY DEF Read
  <1>2. /\ reader = "read" /\ UNCHANGED <<writerVars, reader, position, entity>>
        /\ wire \in Seq(Bytes) /\ copy \in Seq(Bytes) /\ Len(wire) \in Nat
        /\ taken \in Nat /\ n \in Nat /\ n <= BufferSize /\ BufferSize \in Nat
        /\ Len(copy) = taken /\ \A k \in 1..taken : copy[k] = wire[k]
        /\ buffer \in [1..BufferSize -> Bytes \cup {Nul}] /\ position \in 0..Len(copy)
    BY <1>1, BufferAssumption DEF Read, IInv, TypeOK, ReaderInv
  <1>3. \A k \in 1..n : taken + k \in 1..Len(wire) /\ wire[taken + k] \in Bytes
    BY <1>1, <1>2
  <1>4. \A k \in 1..BufferSize : buffer'[k] = IF k <= n THEN wire[taken + k] ELSE buffer[k]
    BY <1>1 DEF Filled
  <1>5. buffer' \in [1..BufferSize -> Bytes \cup {Nul}]
    BY <1>1, <1>2, <1>3 DEF Filled
  <1> DEFINE piece == SubSeq(buffer', 1, n)
  <1>6. /\ piece \in Seq(Bytes) /\ Len(piece) = n
        /\ \A k \in 1..n : piece[k] = wire[taken + k]
    <2>1. \A k \in 1..n : buffer'[k] = wire[taken + k] /\ buffer'[k] \in Bytes
      BY <1>2, <1>3, <1>4
    <2>2. 1 \in Int /\ n \in Int /\ 1 <= n
      BY <1>2
    <2>3. /\ piece \in Seq(Bytes) /\ Len(piece) = n - 1 + 1
          /\ \A k \in 1..(n - 1 + 1) : piece[k] = buffer'[1 + k - 1]
      BY <2>1, <2>2, SubSeqProperties
    <2>4. n - 1 + 1 = n /\ \A k \in 1..n : 1 + k - 1 = k
      BY <1>2
    <2> HIDE DEF piece
    <2>5. \A k \in 1..n : piece[k] = buffer'[k]
      BY <2>3, <2>4
    <2> QED
      BY <2>1, <2>3, <2>4, <2>5
  <1>7. (taken + n) - taken = n /\ taken + n \in Nat /\ taken <= taken + n /\ taken + n <= Len(wire)
    BY <1>1, <1>2
  <1>8. copy' = copy \o piece
    BY <1>1
  <1> HIDE DEF piece
  <1>9. /\ copy' \in Seq(Bytes) /\ Len(copy') = taken + n
        /\ \A k \in 1..(taken + n) : copy'[k] = wire[k]
    <2>1. copy \in Seq(Bytes) /\ piece \in Seq(Bytes)
      BY <1>2, <1>6
    <2>2. Stands(copy, 0, wire) /\ Stands(piece, Len(copy), wire)
      BY <1>2, <1>6 DEF Stands
    <2>3. /\ copy \o piece \in Seq(Bytes) /\ Len(copy \o piece) = Len(copy) + Len(piece)
          /\ Stands(copy \o piece, 0, wire)
      BY ONLY <2>1, <2>2, Extend, Zenon
    <2>4. Len(copy) + Len(piece) = taken + n
      BY <1>2, <1>6
    <2> QED
      BY <1>2, <1>8, <2>3, <2>4 DEF Stands
  <1>10. TypeOK'
    BY <1>1, <1>2, <1>5, <1>7, <1>9, BytesKept DEF IInv, TypeOK, writerVars
  <1>11. ReaderInv'
    BY <1>1, <1>2, <1>9 DEF ReaderInv, DeliveredWhole, writerVars
  <1> QED
    BY <1>2, <1>10, <1>11, WriterKept DEF IInv

LEMMA ReplaySafe == IInv /\ (Replay \/ ReadFails) => IInv'
  <1> SUFFICES ASSUME IInv, Replay \/ ReadFails PROVE IInv'
    OBVIOUS
  <1>1. UNCHANGED writerVars
    BY DEF Replay, ReadFails
  <1>2. TypeOK'
    BY BytesKept DEF Replay, ReadFails, IInv, TypeOK, writerVars
  <1>3. ReaderInv'
    BY DEF Replay, ReadFails, IInv, ReaderInv, DeliveredWhole, writerVars
  <1> QED
    BY <1>1, <1>2, <1>3, WriterKept DEF IInv

LEMMA UnmarshalSafe == IInv /\ Unmarshal => IInv'
  <1> SUFFICES ASSUME IInv, Unmarshal PROVE IInv'
    OBVIOUS
  <1>1. /\ reader = "proceed" /\ reader' = "done" /\ position = 0
        /\ entity' = SubSeq(copy, position + 1, Len(copy))
        /\ UNCHANGED <<writerVars, taken, buffer, copy, position>>
    BY DEF Unmarshal, IInv, ReaderInv
  <1>2. /\ ending = "complete" /\ taken = Len(wire) /\ Len(copy) = taken
        /\ \A k \in 1..taken : copy[k] = wire[k]
        /\ wire = baos /\ ~thrown /\ writer = "ended"
    BY <1>1 DEF IInv, ReaderInv, WriterInv
  <1>3. /\ written = Len(body) /\ Len(baos) = written /\ \A k \in 1..written : baos[k] = body[k]
    BY <1>2 DEF IInv, WriterInv, TypeOK
  <1>4. copy \in Seq(Bytes) /\ body \in Seq(Bytes)
    BY BodyType DEF IInv, TypeOK
  <1>5. SubSeq(copy, 1, Len(copy)) = copy
    BY ONLY <1>4, SubSeqFull
  <1>6. copy = body
    BY ONLY <1>2, <1>3, <1>4, SameSequence
  <1>7. entity' = body
    BY <1>1, <1>5, <1>6
  <1>8. TypeOK'
    BY <1>1, <1>4, <1>7, BytesKept DEF IInv, TypeOK, writerVars
  <1>9. ReaderInv'
    BY <1>1, <1>2, <1>7 DEF IInv, ReaderInv, DeliveredWhole, writerVars
  <1> QED
    BY <1>1, <1>8, <1>9, WriterKept DEF IInv
-----------------------------------------------------------------------------
LEMMA InvNext == IInv /\ [Next]_vars => IInv'
  <1>1. IInv /\ UNCHANGED vars => IInv'
    BY BytesKept DEF IInv, TypeOK, WriterInv, ReaderInv, StreamPutBack, DeliveredWhole,
           vars, writerVars, readerVars
  <1> QED
    BY <1>1, DivertSafe, WriteSafe, ProceededSafe, FlushSafe, ReadSafe, ReplaySafe, UnmarshalSafe
    DEF Next, WriterStep, ReaderStep

LEMMA Inductive == Spec => []IInv
  BY InvInit, InvNext, PTL DEF Spec

\* Both interceptors' variables keep their types.
THEOREM TypeCorrect == Spec => []TypeOK
  <1>1. IInv => TypeOK
    BY DEF IInv
  <1> QED
    BY <1>1, Inductive, PTL

\* A message is delivered as it was to be written, or not at all.
THEOREM DeliveredSafe == Spec => []DeliveredWhole
  <1>1. IInv => DeliveredWhole
    BY DEF IInv, ReaderInv
  <1> QED
    BY <1>1, Inductive, PTL

\* A writer that throws does not leave the buffer in the context.
THEOREM StreamSafe == Spec => []StreamPutBack
  <1>1. IInv => StreamPutBack
    BY DEF IInv, WriterInv
  <1> QED
    BY <1>1, Inductive, PTL
-----------------------------------------------------------------------------
(***************************************************************************)
(* Why every transfer ends (TransferEnds, without fairness)                *)
(***************************************************************************)

WriterLeft == CASE writer = "start" -> 3 [] writer = "proceed" -> 2
                [] writer = "finally" -> 1 [] OTHER -> 0
ReaderLeft == CASE reader = "read" -> 2 [] reader = "proceed" -> 1 [] OTHER -> 0

\* What is left to do: reading comes last, since a flush gives more to read.
Left == <<WriterLeft, Len(body) - written, ReaderLeft, Len(wire) - taken>>

\* The lexicographic order on what is left, which is well founded on numbers.
Numbers == \A k \in 1..4 : Left[k] \in Nat
Lower == \E k \in 1..4 : Left'[k] < Left[k] /\ \A j \in 1..(k - 1) : Left'[j] = Left[j]

\* The guard of a step of either side holds, written out.
Underway ==
    \/ writer \in {"start", "proceed", "finally"}
    \/ reader = "read" /\ (ending # "open" \/ taken < Len(wire))
    \/ reader = "proceed"

Closed == writer = "ended" => ending # "open"

LEMMA LengthTypes == TypeOK => /\ Len(body) \in Nat /\ written \in Nat /\ written <= Len(body)
                               /\ Len(wire) \in Nat /\ taken \in Nat /\ taken <= Len(wire)
  <1> SUFFICES ASSUME TypeOK PROVE /\ Len(body) \in Nat /\ written \in Nat /\ written <= Len(body)
                                   /\ Len(wire) \in Nat /\ taken \in Nat /\ taken <= Len(wire)
    OBVIOUS
  <1>1. Len(body) \in Nat /\ Len(wire) \in Nat
    BY BodyType DEF TypeOK
  <1> QED
    BY <1>1 DEF TypeOK

LEMMA WriterLowers == TypeOK /\ WriterStep => Lower
  <1> SUFFICES ASSUME TypeOK, WriterStep PROVE Lower
    OBVIOUS
  <1>1. CASE Write
    <2>1. PICK n \in written + 1 .. Len(body) : written' = n
      BY <1>1 DEF Write
    <2>2. writer' = writer /\ body' = body
      BY <1>1 DEF Write
    <2>3. Left'[2] < Left[2] /\ Left'[1] = Left[1]
      BY <2>1, <2>2, LengthTypes DEF Left, WriterLeft
    <2> QED
      BY <2>3 DEF Lower
  <1>2. CASE ~Write
    <2>1. \/ writer = "start" /\ writer' = "proceed"
          \/ writer = "proceed" /\ writer' = "finally"
          \/ writer = "finally" /\ writer' = "ended"
      BY <1>2 DEF WriterStep, Divert, Proceeded, Flush, FlushFails
    <2>2. Left'[1] < Left[1]
      BY <2>1 DEF Left, WriterLeft
    <2> QED
      BY <2>2 DEF Lower
  <1> QED
    BY <1>1, <1>2

LEMMA ReaderLowers == TypeOK /\ ReaderStep => Lower
  <1> SUFFICES ASSUME TypeOK, ReaderStep PROVE Lower
    OBVIOUS
  <1>1. UNCHANGED writerVars
    BY DEF ReaderStep, Read, Replay, ReadFails, Unmarshal
  <1>2. Left'[1] = Left[1] /\ Left'[2] = Left[2]
    BY <1>1 DEF Left, WriterLeft, writerVars
  <1>3. CASE Read
    <2>1. PICK n \in 1..BufferSize : taken' = taken + n /\ reader' = reader
      BY <1>3 DEF Read
    <2>2. Left'[4] < Left[4] /\ Left'[3] = Left[3]
      BY <1>1, <2>1, LengthTypes, BufferAssumption DEF Left, ReaderLeft, writerVars
    <2> QED
      BY <1>2, <2>2 DEF Lower
  <1>4. CASE Replay \/ ReadFails \/ Unmarshal
    <2>1. Left'[3] < Left[3]
      BY <1>4 DEF Replay, ReadFails, Unmarshal, Left, ReaderLeft
    <2> QED
      BY <1>2, <2>1 DEF Lower
  <1> QED
    BY <1>3, <1>4 DEF ReaderStep

\* Every write, flush and read leaves less to do, for any body and buffer: no
\* transfer goes on for ever.  (the loop of aroundReadFrom, whose reads return at
\* least a byte, and the steps of aroundWriteTo)
THEOREM RunsOut == Spec => [][Numbers /\ Lower]_vars
  <1>1. TypeOK => Numbers
    BY LengthTypes DEF Numbers, Left, WriterLeft, ReaderLeft
  <1>2. IInv /\ [Next]_vars => [Numbers /\ Lower]_vars
    BY <1>1, WriterLowers, ReaderLowers DEF IInv, Next
  <1> QED
    BY <1>2, Inductive, PTL DEF Spec

\* Until the receiver has the message or an exception, one of the two sides can go
\* on: neither waits for what does not come, however the writer has ended.
THEOREM NeverWaiting == Spec => [](reader \in {"done", "failed"} \/ Underway)
  <1>1. Init => Closed
    BY DEF Init, Closed
  <1>2. Closed /\ [Next]_vars => Closed'
    <2> SUFFICES ASSUME Closed, [Next]_vars PROVE Closed'
      OBVIOUS
    <2>1. CASE WriterStep
      BY <2>1 DEF WriterStep, Divert, Write, Proceeded, Flush, FlushFails, Closed
    <2>2. CASE ReaderStep \/ UNCHANGED vars
      BY <2>2 DEF ReaderStep, Read, Replay, ReadFails, Unmarshal, Closed, vars, writerVars
    <2> QED
      BY <2>1, <2>2 DEF Next
  <1>3. IInv /\ Closed => reader \in {"done", "failed"} \/ Underway
    BY DEF IInv, TypeOK, Closed, Underway
  <1> QED
    BY <1>1, <1>2, <1>3, Inductive, PTL DEF Spec
=============================================================================
