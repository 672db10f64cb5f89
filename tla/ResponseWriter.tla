--------------------------- MODULE ResponseWriter ---------------------------
(***************************************************************************)
(* One response on its way to the socket: the handler's OStreamBuffer or   *)
(* its own calls of write, the ChunkedStream below, BasicHttpSession's two *)
(* write loops and the plain or TLS socket, which takes any part of what   *)
(* it is offered.  The handler's body bytes are numbered from 1.           *)
(***************************************************************************)
EXTENDS Integers, Sequences, SequencesExt, FiniteSetsExt

CONSTANTS
    Capacity,    \* m_buffer.capacity(), reserved from socketWriteSize()
    SocketSize,  \* socketWriteSize() of the TLS session
    MaxCalls,    \* calls of one handler
    MaxPut       \* bytes given to one call

ASSUME WriterAssumption ==
    /\ Capacity \in Nat \ {0} /\ SocketSize \in Nat \ {0}
    /\ MaxCalls \in Nat /\ MaxPut \in Nat

VARIABLES
    secure, chunked, ostream,  \* SslSocketSession? ChunkedStream? OStreamBuffer?
    calls, given,              \* calls made, body bytes handed over so far
    m_buffer,                  \* OStreamBuffer::m_buffer
    bad,                       \* badbit of the std::ostream on top of it
    pc,      \* "handler", "write", "suspended", "destroy", "ended", "terminated"
    in,      \* who called the write in progress
    after,   \* m_buffer once that write has returned
    rest,    \* the buffers write has still to send
    vector,  \* is it the overload for several buffers?
    error,   \* "none", "timeout" (every yield returns it) or "broken"
    wire,    \* what the socket took
    cut      \* did a write return before it had sent everything?

vars == <<secure, chunked, ostream, calls, given, m_buffer, bad, pc, in, after,
          rest, vector, error, wire, cut>>

layers == <<secure, chunked, ostream>>

-----------------------------------------------------------------------------
Byte(n) == [t |-> "body", n |-> n]
Crlf == [t |-> "crlf", n |-> 0]
ChunkHeader(n) == <<[t |-> "size", n |-> n], Crlf>>
EndOfChunckedStream == <<[t |-> "size", n |-> 0], Crlf, Crlf>>

NextBytes(k) == [i \in 1..k |-> Byte(given + i)]

Total(bufs) == Len(FlattenSeq(bufs))

(***************************************************************************)
(* ChunkedStream::write: the chunk's size, its data, and an end of line.   *)
(***************************************************************************)
Unterminated(bufs) == <<ChunkHeader(Total(bufs))>> \o bufs
Chunk(bufs) == <<ChunkHeader(Total(bufs))>> \o bufs \o << <<Crlf>> >>

Buffered(b) == m_buffer' = b /\ UNCHANGED <<after, in, pc, rest, vector>>

(***************************************************************************)
(* A call of the layers' write(buffers) by `who`, which leaves m_buffer as *)
(* b when it returns and as kept when it throws.  It returns at once when  *)
(* there is nothing to write.                                              *)
(***************************************************************************)
Write(bufs, who, kept, b) ==
    \/ Total(bufs) = 0 /\ Buffered(b)
    \/ /\ Total(bufs) > 0
       /\ m_buffer' = kept /\ after' = b
       /\ in' = who /\ pc' = "write"
       /\ rest' = IF chunked THEN Chunk(bufs) ELSE bufs
       /\ vector' = (chunked \/ Len(bufs) > 1)

(***************************************************************************)
(* OStreamBuffer::sync                                                     *)
(***************************************************************************)
Sync(who, kept, b) == Write(<<kept>>, who, kept, b)

(***************************************************************************)
(* OStreamBuffer::xsputn, and overflow with one character: what exceeds    *)
(* the capacity is written with what was buffered, what fits is appended,  *)
(* and otherwise a full buffer is written and the tail buffered.           *)
(***************************************************************************)
UnsyncedXsputn(data) ==
    \/ /\ Len(data) > Capacity
       /\ Write(<<data>>, "ostream", m_buffer, m_buffer)
    \/ /\ Len(data) <= Capacity
       /\ Buffered(m_buffer \o data)

Xsputn(data) ==
    LET free == Capacity - Len(m_buffer)
    IN \/ /\ Len(data) > Capacity
          /\ Write(IF m_buffer = <<>> THEN <<data>> ELSE <<m_buffer, data>>,
                   "ostream", m_buffer, <<>>)
       \/ /\ Len(data) <= free
          /\ Buffered(m_buffer \o data)
       \/ /\ Len(data) <= Capacity /\ Len(data) > free
          /\ Sync("ostream", m_buffer \o SubSeq(data, 1, free),
                  SubSeq(data, free + 1, Len(data)))

Put(k) ==
    /\ pc = "handler" /\ ostream /\ ~bad /\ calls < MaxCalls
    /\ calls' = calls + 1 /\ given' = given + k
    /\ Xsputn(NextBytes(k))
    /\ UNCHANGED <<layers, bad, error, wire, cut>>

Flush ==
    /\ pc = "handler" /\ ostream /\ ~bad /\ calls < MaxCalls
    /\ calls' = calls + 1
    /\ Sync("ostream", m_buffer, <<>>)
    /\ UNCHANGED <<layers, given, bad, error, wire, cut>>

(***************************************************************************)
(* A handler that writes to the stream itself, one buffer or two.          *)
(***************************************************************************)
Direct(k, m) ==
    /\ pc = "handler" /\ ~ostream /\ calls < MaxCalls
    /\ calls' = calls + 1 /\ given' = given + k + m
    /\ LET data == NextBytes(k + m)
       IN Write(IF m = 0 THEN <<data>>
                         ELSE <<SubSeq(data, 1, k), SubSeq(data, k + 1, k + m)>>,
                "handler", <<>>, <<>>)
    /\ UNCHANGED <<layers, bad, error, wire, cut>>

(***************************************************************************)
(* The handler's scope ends: ~OStreamBuffer, then ~ChunkedStream.          *)
(***************************************************************************)
Leave ==
    /\ pc = "handler"
    /\ pc' = "destroy"
    /\ UNCHANGED <<layers, calls, given, m_buffer, bad, in, after, rest, vector,
                   error, wire, cut>>

DestroyBuffer ==
    /\ pc = "destroy" /\ m_buffer # <<>>
    /\ Sync("~OStreamBuffer", m_buffer, <<>>)
    /\ UNCHANGED <<layers, calls, given, bad, error, wire, cut>>

DestroyStream ==
    /\ pc = "destroy" /\ m_buffer = <<>>
    /\ IF chunked
       THEN /\ rest' = <<EndOfChunckedStream>> /\ vector' = FALSE
            /\ pc' = "write" /\ in' = "~ChunkedStream" /\ after' = <<>>
       ELSE pc' = "ended" /\ UNCHANGED <<rest, vector, in, after>>
    /\ UNCHANGED <<layers, calls, given, m_buffer, bad, error, wire, cut>>

-----------------------------------------------------------------------------
(***************************************************************************)
(* writeSome offers the kernel everything, or OpenSSL the first buffer or  *)
(* as many of them as sharedWriteBuffer holds.                             *)
(***************************************************************************)
Offered ==
    IF ~secure \/ ~vector THEN Total(rest)
    ELSE IF Len(rest[1]) >= SocketSize \/ Len(rest) = 1 THEN Len(rest[1])
    ELSE Min({Total(rest), SocketSize})

(***************************************************************************)
(* What is left after writeSome took k bytes.  write(vector) looks for the *)
(* first buffer that was not taken completely, and goes on with the rest   *)
(* only if some of that buffer was taken: otherwise it returns.            *)
(***************************************************************************)
Repeated(k) == IF k = Total(rest) THEN <<>> ELSE rest

Left(k) ==
    IF k = Total(rest) THEN <<>>
    ELSE LET before(i) == Total(SubSeq(rest, 1, i - 1))
             i == Min({j \in DOMAIN rest : before(j + 1) > k})
         IN <<SubSeq(rest[i], k - before(i) + 1, Len(rest[i]))>>
                \o SubSeq(rest, i + 1, Len(rest))

StopsAtBoundary(k) ==
    vector /\ \E i \in 1..(Len(rest) - 1) : k = Total(SubSeq(rest, 1, i))

Return ==
    /\ rest' = <<>> /\ m_buffer' = after
    /\ pc' = CASE in \in {"ostream", "handler"} -> "handler"
               [] in = "~OStreamBuffer" -> "destroy"
               [] in = "~ChunkedStream" -> "ended"

WriteSome ==
    /\ pc = "write" /\ error # "broken"
    /\ \E k \in 1..Offered :
          /\ wire' = wire \o SubSeq(FlattenSeq(rest), 1, k)
          /\ \/ /\ Left(k) = <<>> \/ StopsAtBoundary(k)
                /\ Return
                /\ cut' = (cut \/ Left(k) # <<>>)
             \/ /\ Left(k) # <<>> /\ ~StopsAtBoundary(k)
                /\ rest' = Left(k)
                /\ UNCHANGED <<pc, m_buffer, cut>>
    /\ UNCHANGED <<layers, calls, given, bad, in, after, vector, error>>

(***************************************************************************)
(* EAGAIN, SSL_ERROR_WANT_READ or SSL_ERROR_WANT_WRITE: yield.             *)
(***************************************************************************)
Block ==
    /\ pc = "write" /\ error # "broken"
    /\ pc' = "suspended"
    /\ UNCHANGED <<layers, calls, given, m_buffer, bad, in, after, rest, vector,
                   error, wire, cut>>

Resume ==
    /\ pc = "suspended" /\ error = "none"
    /\ pc' = "write"
    /\ UNCHANGED <<layers, calls, given, m_buffer, bad, in, after, rest, vector,
                   error, wire, cut>>

(***************************************************************************)
(* write throws.  A std::ostream swallows the exception and goes bad; out  *)
(* of a handler it unwinds to the destructors, of which ~ChunkedStream     *)
(* catches it and ~OStreamBuffer, being noexcept, calls std::terminate.    *)
(***************************************************************************)
Throw ==
    /\ rest' = <<>>
    /\ bad' = (bad \/ in = "ostream")
    /\ pc' = CASE in = "ostream" -> "handler"
               [] in = "handler" -> "destroy"
               [] in = "~OStreamBuffer" -> "terminated"
               [] in = "~ChunkedStream" -> "ended"
    /\ UNCHANGED <<layers, calls, given, m_buffer, in, after, vector, wire, cut>>

YieldFails == pc = "suspended" /\ error' = "timeout" /\ Throw

WriteFails == pc = "write" /\ error' = "broken" /\ Throw

Ended == pc \in {"ended", "terminated"} /\ UNCHANGED vars

-----------------------------------------------------------------------------
Init ==
    /\ secure \in BOOLEAN /\ chunked \in BOOLEAN /\ ostream \in BOOLEAN
    /\ calls = 0 /\ given = 0
    /\ m_buffer = <<>> /\ bad = FALSE
    /\ pc = "handler" /\ in = "handler" /\ after = <<>>
    /\ rest = <<>> /\ vector = FALSE
    /\ error = "none" /\ wire = <<>> /\ cut = FALSE

Next ==
    \/ \E k \in 0..MaxPut : Put(k)
    \/ Flush
    \/ \E k, m \in 0..MaxPut : Direct(k, m)
    \/ Leave \/ DestroyBuffer \/ DestroyStream
    \/ WriteSome \/ Block \/ Resume \/ YieldFails \/ WriteFails
    \/ Ended

Spec == Init /\ [][Next]_vars

-----------------------------------------------------------------------------
Pipe == INSTANCE BytePipe
            WITH delivered <- wire, asked <- FlattenSeq(rest), several <- vector

(***************************************************************************)
(* Whatever the socket takes at a time and however the TLS session gathers *)
(* it, the write loops implement BytePipe: no byte is sent twice, skipped  *)
(* or reordered within a write, and none is left out but at the end of a   *)
(* write of several buffers.  (streams.cpp:123-169, 424-456, 521-561)      *)
(***************************************************************************)
PipeSpec == Pipe!Spec

Body(s) == SelectSeq(s, LAMBDA b : b.t = "body")

(***************************************************************************)
(* As long as nothing failed or was cut, the body bytes sent, being        *)
(* written and buffered are those the handler gave, in its order: xsputn,  *)
(* overflow and sync neither lose nor repeat any.  (stream.h:334-376)      *)
(***************************************************************************)
BodyInOrder ==
    error = "none" /\ ~cut =>
        LET unsent == IF rest = <<>> THEN m_buffer
                      ELSE Body(FlattenSeq(rest)) \o after
        IN Body(wire) \o unsent = [i \in 1..given |-> Byte(i)]

(***************************************************************************)
(* Every chunk on the wire has the length its header says and is followed  *)
(* by the next, and the last one by the terminating chunk, when the        *)
(* response ended without a failure.  (stream.h:268-305)                   *)
(***************************************************************************)
StartsChunk(i) == wire[i].t = "size" /\ wire[i + 1] = Crlf

ChunksWellFormed ==
    pc = "ended" /\ error = "none" /\ ~cut /\ chunked =>
        /\ StartsChunk(1)
        /\ \A i \in DOMAIN wire : wire[i].t = "size" =>
              LET n == wire[i].n
              IN /\ \A j \in 1..n : wire[i + 1 + j].t = "body"
                 /\ wire[i + n + 2] = Crlf
                 /\ IF n = 0 THEN i + 2 = Len(wire) ELSE StartsChunk(i + n + 3)

(***************************************************************************)
(* "Writes the specified buffers to socket." (stream.h:93): when           *)
(* write(vector) returns, all of the buffers have been sent.               *)
(***************************************************************************)
GatherWriteComplete == ~cut

(***************************************************************************)
(* A connection that fails while a response is written costs that          *)
(* connection, whether the response is written as a whole or through       *)
(* ChunkedStream and OStreamBuffer, which "is doing the same"              *)
(* (template/src/main.cpp:67-69).                                          *)
(***************************************************************************)
ProcessSurvives == pc # "terminated"
=============================================================================
