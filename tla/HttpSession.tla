---------------------------- MODULE HttpSession ----------------------------
(***************************************************************************)
(* The coroutine of one connection: BasicHttpSession::ioLoop with the      *)
(* header and body readers, the http_parser callbacks, the handlers'       *)
(* operator>> and operator<<, the error responses, and the TLS handshake   *)
(* and shutdown.  It runs until it yields; the event loop resumes it with  *)
(* an error code, and for good (quitIoLoop) once that is an error.         *)
(*                                                                         *)
(* A request is a sequence of elements as http_parser reports them, each   *)
(* of the URL and the header's value coming in two pieces.  A piece is     *)
(* <<r, i>>: the i-th of the r-th request.                                 *)
(***************************************************************************)
EXTENDS Integers, Sequences, SequencesExt, FiniteSetsExt

CONSTANTS
    Scripts,           \* what a client may send: sequences of requests
    Split, Pipelined,  \* may a segment end within a line? may a request be
                       \* sent before the previous one is answered?
    HeadersTimeout, KeepAliveTimeout, SslAcceptTimeout, SslShutdownTimeout

ASSUME SessionAssumption ==
    /\ Split \in BOOLEAN /\ Pipelined \in BOOLEAN
    /\ {HeadersTimeout, KeepAliveTimeout, SslAcceptTimeout, SslShutdownTimeout}
           \subseteq Nat

VARIABLES
    script, sent,  \* the client's requests, and how many pieces it has sent
    tidy,          \* has every segment so far ended a line or been body, and
                   \* been sent after the previous response?
    secure,        \* SslSocketSession?
    socket,        \* received pieces that have not been read
    wire,          \* the responses begun
    c              \* the stream object and its coroutine:
                   \*   pc         the place in ioLoop
                   \*   suspended  is it in m_yield()?
                   \*   ec         does m_yield.get() return an error?
                   \*   forced     how often quitIoLoop has resumed it
                   \*   broken     has the socket failed a write?
                   \*   req, parsed, leftover: the Request, m_parser (its last
                   \*              piece), m_httpParserBuffer
                   \*   canWrite, keepAlive, timeout: m_can_write_errror,
                   \*              m_keepAlive, m_sessionTimeout
                   \*   handler, callback: what create_session returned, and
                   \*              whether it set a body callback
                   \*   writing, units: the response being written, what is left
                   \*   tries      calls of SSL_shutdown
                   \*   rounds     requests of which readHeaders has seen bytes

client == <<script, sent, tidy, secure>>
vars == <<client, socket, wire, c>>

Start == <<0, 0>>
Junk == <<0, 1>>

Layout(r) ==
    <<"url", "url", "value", "value", "end">>
        \o [i \in 1..script[r].body |-> "body"]
Kind(t) == Layout(t[1])[t[2]]
EndsLine(t) == t[2] \notin {1, 3}
IsLast(t) == t[2] = Len(Layout(t[1]))

Message(r) == [i \in 1..Len(Layout(r)) |-> <<r, i>>]
Sent == FlattenSeq([r \in 1..Len(script) |-> Message(r)])

NoRequest == [state |-> "Uninitialized", url |-> <<>>, value |-> <<>>,
              stray |-> <<>>, keepAlive |-> FALSE, body |-> 0]

-----------------------------------------------------------------------------
(***************************************************************************)
(* http_parser takes the pieces of a message in order, then, if the        *)
(* connection is kept alive, the next message.  The body callback throws   *)
(* when no handler has asked for a body (Request::appendBody).             *)
(***************************************************************************)
Expects(p, t) ==
    /\ t # Junk
    /\ IF p = Start \/ (IsLast(p) /\ script[p[1]].keep)
       THEN t[2] = 1
       ELSE t = <<p[1], p[2] + 1>>
    /\ Kind(t) = "body" => c.callback

(***************************************************************************)
(* The callbacks.  The pieces of an element that are in the same call of   *)
(* http_parser_execute are reported together, others one after the other:  *)
(* each report replaces what was stored (url, headerValue), and a value is *)
(* stored under header_field, which is empty once the value's first piece  *)
(* was reported.                                                           *)
(***************************************************************************)
OldestReported(pieces, kind, old) ==
    LET all == SelectSeq(pieces, LAMBDA t : Kind(t) = kind)
    IN IF all = <<>> \/ old # <<>> THEN old
       ELSE SelectSeq(all, LAMBDA t : t[2] % 2 = 1)

Reported(pieces, kind, old) ==
    LET all == SelectSeq(pieces, LAMBDA t : Kind(t) = kind)
    IN IF all = <<>> THEN old
       ELSE SelectSeq(all, LAMBDA t : t[1] = all[Len(all)][1])

(* messageBegin and url, headersComplete, messageComplete *)
StateAfter(t) ==
    IF t = Start THEN "Uninitialized"
    ELSE IF IsLast(t) THEN "Completed"
    ELSE IF t[2] < 5 THEN "ProcessingHeader" ELSE "HeadersCompleted"

http_parser_execute(pieces) ==
    LET before(i) == IF i = 1 THEN c.parsed ELSE pieces[i - 1]
        good == {i \in 0..Len(pieces) :
                     \A j \in 1..i : Expects(before(j), pieces[j])}
        result(n, taken, value, ends) ==
            [wrong |-> n < Len(pieces),
             parsed |-> before(n + 1),
             req |-> [c.req EXCEPT
                !.url = Reported(taken, "url", @),
                !.value = IF value # <<>> /\ value[1][2] = 3 THEN value ELSE @,
                !.stray = IF value # <<>> /\ value[1][2] = 4 THEN value ELSE @,
                !.state = StateAfter(before(n + 1)),
                !.keepAlive = IF ends = {} THEN @
                              ELSE script[taken[Max(ends)][1]].keep,
                !.body = @ + Len(SelectSeq(taken, LAMBDA t : Kind(t) = "body"))]]
    IN {result(n, SubSeq(pieces, 1, n),
               Reported(SubSeq(pieces, 1, n), "value", <<>>),
               {i \in 1..n : Kind(pieces[i]) = "end"}) : n \in {Max(good)}}

Took(d, a) == [d EXCEPT !.req = a.req, !.parsed = a.parsed]

-----------------------------------------------------------------------------
(***************************************************************************)
(* What the coroutine does next, as operators on its state.                *)
(***************************************************************************)
Yield(d) == [d EXCEPT !.suspended = TRUE]

(* BasicHttpSession::write, called with a response of two units *)
BeginWrite(d, what) ==
    [d EXCEPT !.pc = "write", !.writing = what, !.units = 2]

(* operator<<(AbstractStream &, const Response &) *)
Respond(d, what) ==
    BeginWrite([d EXCEPT !.timeout = Max({@, 10})], what)

(* the end of ioLoop's do-while body *)
ServesUntilError(d) ==
    IF ~d.ec
    THEN [d EXCEPT !.pc = "headers", !.timeout = d.keepAlive, !.req = NoRequest,
                   !.parsed = Start, !.writing = "nothing",
                   !.handler = "nobody", !.callback = FALSE]
    ELSE [d EXCEPT !.pc = "shutdown", !.timeout = d.keepAlive,
                   !.writing = "nothing"]

SessionServed(d) ==
    IF ~d.ec /\ d.keepAlive > 0
    THEN [d EXCEPT !.pc = "headers", !.timeout = d.keepAlive, !.req = NoRequest,
                   !.parsed = Start, !.writing = "nothing",
                   !.handler = "nobody", !.callback = FALSE]
    ELSE [d EXCEPT !.pc = "shutdown", !.timeout = d.keepAlive,
                   !.writing = "nothing"]

(* The status page swallows what is thrown, and reports it before its response *)
writeResponse(d) ==
    IF d.writing = "response" THEN SessionServed(d) ELSE Respond(d, "status error")

(***************************************************************************)
(* An exception: out of the SslSocketSession constructor or out of ioLoop  *)
(* itself it ends the session; writeResponse (the status page) catches it; *)
(* any other handler leaves it to ioLoop, which may write an error.        *)
(***************************************************************************)
AlwaysReports(d) ==
    IF d.pc = "accept" \/ d.writing = "error" THEN [d EXCEPT !.pc = "failed"]
    ELSE BeginWrite(d, "error")

Throw(d) ==
    IF d.pc = "accept" \/ d.writing = "error" THEN [d EXCEPT !.pc = "failed"]
    ELSE IF d.handler = "status" /\ d.writing # "status error" THEN writeResponse(d)
    ELSE IF d.canWrite THEN BeginWrite(d, "error")
    ELSE [d EXCEPT !.pc = "shutdown", !.writing = "nothing"]

Step(d) == c' = d /\ UNCHANGED <<client, socket, wire>>

At(place) == c.pc = place /\ ~c.suspended

-----------------------------------------------------------------------------
(* SslSocketSession::SslSocketSession *)
Accept ==
    /\ At("accept")
    /\ \/ Step([c EXCEPT !.pc = "headers", !.timeout = HeadersTimeout])
       \/ Step(Yield(c))
       \/ Step(Throw(c))

(***************************************************************************)
(* readHeaders: the left-over bytes, copied up to the next NUL wherever    *)
(* that is, and what readSome returns after them, fed to the parser line   *)
(* by line until the headers are complete.                                 *)
(***************************************************************************)
Contents ==
    LET exact == c.leftover \o socket
        shifted == SubSeq(c.leftover \o <<Junk>> \o socket, 1, Len(exact))
    IN IF c.leftover = <<>> THEN {exact} ELSE {exact, shifted}

HeaderLines(s) ==
    LET ends == {i \in DOMAIN s : s[i] # Junk /\ Kind(s[i]) = "end"}
    IN IF ends = {} THEN Len(s) ELSE Min(ends)

readHeaders ==
    /\ At("headers")
    /\ \/ socket = <<>> /\ Step(Yield(c))
       \/ /\ socket # <<>> /\ socket' = <<>>
          /\ \E buffer \in Contents : \E n \in {HeaderLines(buffer)} :
             \E a \in http_parser_execute(SubSeq(buffer, 1, n)) :
                LET d == [Took(c, a) EXCEPT
                            !.canWrite = TRUE,
                            !.rounds = @ + (IF c.parsed = Start THEN 1 ELSE 0)]
                IN c' = IF a.wrong THEN Throw(d)
                        ELSE [d EXCEPT
                                !.leftover = SubSeq(buffer, n + 1, Len(buffer)),
                                !.pc = IF a.req.state \in {"HeadersCompleted",
                                                           "Completed"}
                                       THEN "create" ELSE @]
          /\ UNCHANGED <<client, wire>>

(***************************************************************************)
(* Server::create_session and the handler's timeout.  A URL that is not    *)
(* one the client asked for belongs to no plugin.                          *)
(***************************************************************************)
create_session ==
    LET u == c.req.url
    IN IF u = <<<<u[1][1], 1>>, <<u[1][1], 2>>>> THEN script[u[1][1]].to
                                                 ELSE "nobody"

CreateSession ==
    /\ At("create")
    /\ LET r == script[c.req.url[1][1]]
           d == [c EXCEPT !.keepAlive = IF c.req.keepAlive THEN KeepAliveTimeout
                                                           ELSE 0,
                          !.handler = create_session]
       IN CASE d.handler = "nobody" -> Step(BeginWrite(d, "503"))
            [] d.handler = "refuses" -> Step(Throw(d))
            [] OTHER -> Step([d EXCEPT !.pc = "expect", !.callback = r.accepts,
                                       !.timeout = IF r.body > 0
                                                   THEN KeepAliveTimeout
                                                   ELSE 300])

(***************************************************************************)
(* The handler: operator>>(stream, req) ...                                *)
(***************************************************************************)
Request == script[c.req.url[1][1]]

ExpectsContinue ==
    LET r == c.req.url[1][1]
    IN Request.expect /\ c.req.value = <<<<r, 3>>, <<r, 4>>>>

Expect ==
    /\ At("expect")
    /\ IF ~ExpectsContinue THEN Step([c EXCEPT !.pc = "read"])
       ELSE IF Request.body > 0 /\ ~c.callback THEN Step(Throw(c))
       ELSE Step(Respond(c, "100"))

(***************************************************************************)
(* ... with BasicHttpSession::read: first the left-over bytes, then those  *)
(* of the socket, until the body is complete.                              *)
(***************************************************************************)
ReadBody(d, a) ==
    LET e == Took(d, a)
    IN IF a.wrong THEN Throw(e)
       ELSE [e EXCEPT !.leftover = <<>>,
                      !.pc = IF a.req.state = "Completed" THEN "respond"
                                                          ELSE "body"]

read ==
    \/ /\ At("read")
       /\ IF c.req.state = "Completed" THEN Step([c EXCEPT !.pc = "respond"])
          ELSE \E a \in http_parser_execute(c.leftover) :
                  Step(ReadBody([c EXCEPT !.canWrite = TRUE], a))
    \/ /\ At("body") /\ socket = <<>>
       /\ Step(Yield(c))
    \/ /\ At("body") /\ socket # <<>>
       /\ \E a \in http_parser_execute(socket) : c' = ReadBody(c, a)
       /\ socket' = <<>>
       /\ UNCHANGED <<client, wire>>

ReadFails == c.pc \in {"headers", "body"} /\ ~c.suspended /\ Step(Throw(c))

(* ... and operator<<(stream, res). *)
SendResponse == At("respond") /\ Step(Respond(c, "response"))

(***************************************************************************)
(* write: the socket takes some of the response, nothing for now, or       *)
(* fails.  Once a response has begun no error response may follow.         *)
(***************************************************************************)
Announced ==
    [what |-> c.writing, sent |-> 0,
     keepAlive |-> c.writing \notin {"503", "error"} /\ c.keepAlive > 0]

Written(d) ==
    CASE d.writing = "100" -> [d EXCEPT !.pc = "read", !.writing = "nothing"]
      [] d.writing \in {"503", "error"} ->
             [d EXCEPT !.pc = "shutdown", !.writing = "nothing"]
      [] d.writing = "response" /\ d.handler = "throws" ->
             Throw([d EXCEPT !.writing = "nothing"])
      [] OTHER -> SessionServed(d)

Taken(d, k) == [d EXCEPT !.units = @ - k]
writeSome(d, k) == [d EXCEPT !.units = @ - k, !.canWrite = FALSE]

Write ==
    /\ At("write")
    /\ \/ \E k \in 1..(IF c.broken THEN 0 ELSE c.units) :
             LET begun == IF c.units = 2 THEN Append(wire, Announced) ELSE wire
                 d == writeSome(c, k)
             IN /\ wire' = [begun EXCEPT ![Len(begun)].sent = @ + k]
                /\ c' = IF d.units = 0 THEN Written(d) ELSE d
                /\ UNCHANGED <<client, socket>>
       \/ ~c.broken /\ Step(Yield(c))
       \/ Step(Throw([c EXCEPT !.broken = TRUE]))

(***************************************************************************)
(* shutdown: at most five calls of SSL_shutdown, which may fail, be done   *)
(* or have to be called again, then ::shutdown.                            *)
(***************************************************************************)
ShutdownWithoutTimeout ==
    /\ At("shutdown")
    /\ \/ Step([c EXCEPT !.pc = "done"])
       \/ /\ secure /\ c.tries < 5
          /\ Step(Yield([c EXCEPT !.tries = @ + 1]))

Shutdown ==
    /\ At("shutdown")
    /\ \/ Step([c EXCEPT !.pc = "done"])
       \/ /\ secure /\ c.tries < 5
          /\ Step(Yield([c EXCEPT !.tries = @ + 1,
                                  !.timeout = SslShutdownTimeout]))

-----------------------------------------------------------------------------
(***************************************************************************)
(* The event loop resumes the coroutine: after an event, or, with an       *)
(* error, when the peer hung up, the deadline passed or the session is     *)
(* destroyed; then again and again until it has ended.                     *)
(***************************************************************************)
nextTimeout == IF c.pc = "accept" THEN HeadersTimeout ELSE c.timeout

Resume == c.suspended /\ ~c.ec /\ Step([c EXCEPT !.suspended = FALSE])

ShutdownIgnoresError ==
    LET d == [c EXCEPT !.suspended = FALSE, !.ec = TRUE, !.forced = @ + 1]
    IN Step(IF c.pc = "shutdown" THEN d ELSE Throw(d))

quitIoLoop ==
    LET d == [c EXCEPT !.suspended = FALSE, !.ec = TRUE, !.forced = @ + 1]
    IN Step(IF c.pc = "shutdown" THEN [d EXCEPT !.pc = "done"] ELSE Throw(d))

HangUp == c.suspended /\ quitIoLoop

Timeout == c.suspended /\ (c.ec \/ nextTimeout > 0) /\ quitIoLoop

(***************************************************************************)
(* A segment with the client's next k pieces arrives; when it did matters  *)
(* only to the next read.                                                  *)
(***************************************************************************)
IsFinal(w) == w.what # "100"
Answered == Len(SelectSeq(wire, LAMBDA w : IsFinal(w) /\ w.sent = 2))

Arrive(k) ==
    LET segment == SubSeq(Sent, sent + 1, sent + k)
        whole == EndsLine(segment[k])
        inTurn == segment[k][1] <= Answered + 1
    IN /\ c.pc \in {"headers", "body"}
       /\ whole \/ Split
       /\ inTurn \/ Pipelined
       /\ sent' = sent + k /\ socket' = socket \o segment
       /\ tidy' = (tidy /\ whole /\ inTurn)
       /\ UNCHANGED <<script, secure, wire, c>>

Over == c.pc \in {"done", "failed"} /\ UNCHANGED vars

-----------------------------------------------------------------------------
Init ==
    /\ script \in Scripts /\ sent = 0 /\ tidy = TRUE
    /\ secure \in BOOLEAN
    /\ socket = <<>> /\ wire = <<>>
    /\ c = [pc |-> IF secure THEN "accept" ELSE "headers",
            suspended |-> FALSE, ec |-> FALSE, forced |-> 0, broken |-> FALSE,
            req |-> NoRequest, callback |-> FALSE, parsed |-> Start,
            leftover |-> <<>>, canWrite |-> FALSE, keepAlive |-> 0,
            timeout |-> IF secure THEN SslAcceptTimeout ELSE HeadersTimeout,
            handler |-> "nobody", writing |-> "nothing", units |-> 0,
            tries |-> 0, rounds |-> 0]

Coroutine ==
    \/ Accept \/ readHeaders \/ CreateSession \/ Expect \/ read \/ ReadFails
    \/ SendResponse \/ Write \/ Shutdown

Next ==
    \/ Coroutine \/ Resume \/ HangUp \/ Timeout \/ Over
    \/ \E k \in 1..(Len(Sent) - sent) : Arrive(k)

Spec == Init /\ [][Next]_vars

(***************************************************************************)
(* The coroutine runs, and deadlines pass: being resumed in vain does not  *)
(* move them.  Nothing is assumed of the peer.                             *)
(***************************************************************************)
FairSpec == Spec /\ WF_vars(Coroutine) /\ SF_vars(Timeout)

-----------------------------------------------------------------------------
(***************************************************************************)
(* A response is never written into the middle of another: ioLoop's error  *)
(* responses respect m_can_write_errror and the status page its own flag,  *)
(* which covers the response but not the interim 100.                      *)
(* (streams.cpp:265-288, 436, 453, 538; serverservicesessions.cpp:63-81)   *)
(***************************************************************************)
NoResponseInsideAnother ==
    \A i \in 1..(Len(wire) - 1) :
        wire[i].sent = 2 \/ (wire[i].what = "100" /\ wire[i + 1].what = "status error")

(***************************************************************************)
(* A peer gets at most one final response for each request of which bytes  *)
(* were received, and so none when an idle connection is timed out.        *)
(* (streams.cpp:77, 265-288, 369)                                          *)
(***************************************************************************)
NoUnsolicitedResponse == Len(SelectSeq(wire, IsFinal)) <= c.rounds

(***************************************************************************)
(* Once a response has said "Connection: close" no request is served or    *)
(* answered any more.  (streams.cpp:249, 264, http.h:167-172)              *)
(***************************************************************************)
CloseIsFinal ==
    \A i \in DOMAIN wire :
        IsFinal(wire[i]) /\ ~wire[i].keepAlive /\ wire[i].sent = 2 =>
            i = Len(wire) /\ c.pc \in {"shutdown", "done"}

(***************************************************************************)
(* The coroutine never waits without a deadline.  (streams.cpp:229-236,    *)
(* 246, 258-262, 488, http.h:191-193, serversession.h:114)                 *)
(***************************************************************************)
DeadlineWhileSuspended == c.suspended => nextTimeout > 0

(***************************************************************************)
(* quitIoLoop, which runs on the event loop's thread, resumes a coroutine  *)
(* at most three times: in a handler, in an error response and in the TLS  *)
(* shutdown.  (serversession.h:126-137)                                    *)
(***************************************************************************)
QuitEndsSoon == c.forced <= 3

(***************************************************************************)
(* A handler sees the URL and the header as the client sent them.          *)
(* (streams.cpp:299-320; "The server will call this function to create a   *)
(* session for the provided request object", plugin.h:55)                  *)
(***************************************************************************)
RequestAsSent ==
    c.pc \in {"create", "expect", "read"} =>
        LET r == c.req.url[1][1]
        IN /\ c.req.url = <<<<r, 1>>, <<r, 2>>>>
           /\ c.req.value = <<<<r, 3>>, <<r, 4>>>>
           /\ c.req.stray = <<>>

(***************************************************************************)
(* It does if every segment ends with a line and the client waits for each *)
(* response, and then it is also the next request and its whole body.      *)
(***************************************************************************)
TidyRequestAsSent ==
    tidy => /\ RequestAsSent
            /\ c.pc \in {"create", "expect", "read", "body", "respond"} =>
                  c.req.url[1][1] = Answered + 1
            /\ c.pc = "respond" => c.req.body = Request.body

(***************************************************************************)
(* Every connection comes to an end: there is no input, and no failure of  *)
(* the socket, on which the coroutine waits or is resumed for ever.        *)
(***************************************************************************)
ConnectionEnds == <>(c.pc \in {"done", "failed"})
=============================================================================
