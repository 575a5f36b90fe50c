----------------------------- MODULE HttpSession -----------------------------
(***************************************************************************)
(* One HTTP connection from its first byte to its close: http_run_session  *)
(* with read_request, http_parse_request, http_dispatch and close_graceful. *)
(*                                                                          *)
(* The client's bytes are tokens, each of which stands for one unit of the  *)
(* buffer: "req", a text with a blank in it (the blank a request line must  *)
(* have); "len", the text "Content-Length: 1"; "CR" and "LF".  The client   *)
(* sends them one by one while the session runs, so a read ends anywhere.   *)
(* A text is what lies between two line ends or CRs, so two texts do not    *)
(* follow each other.                                                       *)
(* What a response says, beyond its status, is left out.                    *)
(***************************************************************************)
EXTENDS Integers, Sequences, FiniteSetsExt

CONSTANTS
    BufSz,          \* HTTP_RECV_MAX, in tokens
    Chunk,          \* what one recv takes after the request (512, 256 on a stream)
    DrainMax,       \* how often it receives
    MaxSent         \* bound: tokens the client sends

ASSUME HttpAssumption ==
    BufSz \in Nat \ {0} /\ Chunk \in Nat \ {0} /\ DrainMax \in Nat /\ MaxSent \in Nat

Text == {"req", "len"}

Token == Text \union {"CR", "LF"}

VARIABLES
    sent,           \* the tokens the client has sent
    peer,           \* "open", "done" (it sends no more) or "gone" (reset)
    have,           \* tokens in the request buffer
    off,            \* tokens received and thrown away later
    pc,             \* where the thread is
    verdict,        \* how read_request ended: "", "ok", "bad", "large", "quiet", "left"
    total,          \* length of the request read_request returned
    body,           \* req->body_len
    replies,        \* statuses answered, oldest first
    reply,          \* "none", "part" (the client must read first), "rest" (it
                    \* has), "sent", "read" by the client, or "lost"
    responded,      \* c->responded
    turns,          \* iterations of the loop of close_graceful
    owed,           \* tokens not received when close_graceful began
    late            \* the client sent a token after that

vars == <<sent, peer, have, off, pc, verdict, total, body, replies, reply, responded,
          turns, owed, late>>

client == <<sent, peer>>

reading == <<have, verdict, total, body>>

answer == <<replies, reply, responded>>

closing == <<turns, owed>>

Unread == Len(sent) - have - off

-----------------------------------------------------------------------------
(* http_parse_request *)

\* get_line: the line that starts at p, and where the next one starts; a
\* line ends with LF, and one CR before the LF is not part of it.
Newlines(buf, p) == {i \in p .. Len(buf) : buf[i] = "LF"}

get_line(buf, p) ==
    LET nl == Min(Newlines(buf, p))
        crlf == nl > p /\ buf[nl - 1] = "CR"
    IN  [text |-> SubSeq(buf, p, IF crlf THEN nl - 2 ELSE nl - 1), next |-> nl + 1]

\* parse_request_line: a line without a blank is malformed.
WellFormed(text) == \E i \in DOMAIN text : text[i] \in Text

\* A Content-Length header overrides the ones before it.
Length(text, length) == IF text[1] = "len" THEN 1 ELSE length

More == [code |-> 0, length |-> 0]

Malformed == [code |-> -1, length |-> 0]

\* The end of the header has been found: is the body there as well?
Finish(buf, header, length) ==
    IF Len(buf) < header + length THEN More
    ELSE [code |-> header + length, length |-> length]

\* One turn of the loop over the header lines, at the line that starts at p;
\* rest is what the loop makes of the lines after it.
HeaderLine(buf, rest, p, length) ==
    IF Newlines(buf, p) = {} THEN More
    ELSE LET line == get_line(buf, p)
         IN  IF line.text = <<>> THEN Finish(buf, line.next - 1, length)
             ELSE rest[line.next][Length(line.text, length)]

http_parse_request(buf) ==
    LET Headers[p \in 1 .. Len(buf) + 1] ==
          [length \in 0 .. 1 |-> HeaderLine(buf, Headers, p, length)]
    IN  IF Newlines(buf, 1) = {} THEN More
        ELSE IF ~WellFormed(get_line(buf, 1).text) THEN Malformed
        ELSE Headers[get_line(buf, 1).next][0]

-----------------------------------------------------------------------------
(* The states *)

Status == {200, 201, 400, 404, 405, 408, 413, 500}

\* The type invariant.  The buffer never holds more than it has room for,
\* and close_graceful (http_session.c:324) receives a bounded number of times.
TypeOK ==
    /\ sent \in Seq(Token) /\ Len(sent) <= MaxSent
    /\ peer \in {"open", "done", "gone"}
    /\ have \in 0 .. BufSz
    /\ off \in Nat
    /\ pc \in {"read", "dispatch", "send", "stream", "frame", "dispatched",
              "unregister", "drain", "closed"}
    /\ verdict \in {"", "ok", "bad", "large", "quiet", "left"}
    /\ total \in 0 .. BufSz
    /\ body \in 0 .. 1
    /\ replies \in Seq(Status)
    /\ reply \in {"none", "part", "rest", "sent", "read", "lost"}
    /\ responded \in BOOLEAN
    /\ turns \in 0 .. DrainMax
    /\ owed \in Nat
    /\ late \in BOOLEAN

Init ==
    /\ sent = <<>> /\ peer = "open"
    /\ have = 0 /\ verdict = "" /\ total = 0 /\ body = 0
    /\ off = 0 /\ pc = "read"
    /\ replies = <<>> /\ reply = "none" /\ responded = FALSE
    /\ turns = 0 /\ owed = 0 /\ late = FALSE

-----------------------------------------------------------------------------
(* The client and the network *)

\* A token that reaches a closed socket is answered with a reset, which
\* throws away what the client has not yet read.  Nobody parses what comes
\* after read_request has returned: one token stands for all then.
Send(x) ==
    /\ peer = "open" /\ Len(sent) < MaxSent
    /\ IF verdict = "" THEN x \in Text /\ sent # <<>> => sent[Len(sent)] \notin Text ELSE x = "LF"
    /\ sent' = Append(sent, x)
    /\ late' = (late \/ pc \in {"drain", "closed"})
    /\ reply' = IF pc = "closed" /\ reply = "sent" THEN "lost" ELSE reply
    /\ UNCHANGED <<peer, reading, off, pc, replies, responded, closing>>

\* The client ends its half of the connection, or resets it.
Leave(how) ==
    /\ peer # "gone" /\ how \in {"done", "gone"} /\ how # peer
    /\ peer' = how
    /\ UNCHANGED <<sent, reading, off, pc, answer, closing, late>>

\* The client reads what has been sent, which makes room for the rest.
ReadReply ==
    /\ reply \in {"sent", "part"} /\ peer # "gone"
    /\ reply' = IF reply = "sent" THEN "read" ELSE "rest"
    /\ UNCHANGED <<client, reading, off, pc, replies, responded, closing, late>>

-----------------------------------------------------------------------------
(* The session's thread *)

\* A mutant: the response is not noted.
http_respondForgets(status) ==
    /\ replies' = Append(replies, status)
    /\ reply' = IF peer = "gone" THEN "lost" ELSE "sent"
    /\ UNCHANGED responded

\* http_respond and http_sse_begin: a failed send is not noticed, the response
\* counts as sent.
http_respond(status) ==
    /\ replies' = Append(replies, status)
    /\ reply' = IF peer = "gone" THEN "lost" ELSE "sent"
    /\ responded' = TRUE

\* http_respond with a body that the socket's buffer cannot take, which only
\* those of a 200 are large enough for: send_all stays in send.
http_respond_held(status) ==
    /\ status = 200 /\ peer # "gone"
    /\ replies' = Append(replies, status)
    /\ reply' = "part"
    /\ UNCHANGED responded

\* A mutant: the size is tested before the parser has seen the last bytes.
VerdictSizeFirst(parsed, n) ==
    CASE n >= BufSz -> "large"
      [] parsed.code > 0 -> "ok"
      [] parsed.code < 0 -> "bad"
      [] OTHER -> ""

Verdict(parsed, n) ==
    CASE parsed.code > 0 -> "ok"
      [] parsed.code < 0 -> "bad"
      [] parsed.code = 0 /\ n >= BufSz -> "large"
      [] OTHER -> ""

\* A mutant: recv is given the size of the buffer, not of its free part.
FilledPastEnd == have + Unread

\* recv takes what has arrived and fits.
Filled == Min({have + Unread, BufSz})

\* One turn of read_request that receives something.
Receive ==
    /\ pc = "read" /\ Unread > 0 /\ peer # "gone"
    /\ have' = Filled
    /\ \E parsed \in {http_parse_request(SubSeq(sent, 1, Filled))} :
       \E v \in {Verdict(parsed, Filled)} :
         /\ verdict' = v
         /\ total' = IF v = "ok" THEN parsed.code ELSE 0
         /\ body' = parsed.length
         /\ CASE v = "ok" -> pc' = "dispatch" /\ UNCHANGED answer
              [] v = "bad" -> pc' = "unregister" /\ http_respond(400)
              [] v = "large" -> pc' = "unregister" /\ http_respond(413)
              [] OTHER -> UNCHANGED <<pc, answer>>
    /\ UNCHANGED <<client, off, closing, late>>

\* A mutant: the poll of read_request has no timeout.
QuietForever == FALSE /\ UNCHANGED vars

\* The poll of read_request times out.
Quiet ==
    /\ pc = "read" /\ Unread = 0 /\ peer = "open"
    /\ verdict' = "quiet" /\ pc' = "unregister"
    /\ http_respond(408)
    /\ UNCHANGED <<client, have, total, body, off, closing, late>>

\* recv returns 0, all bytes having been read, or an error.
PeerLeft ==
    /\ pc = "read" /\ (peer = "gone" \/ (peer = "done" /\ Unread = 0))
    /\ verdict' = "left" /\ pc' = "unregister"
    /\ UNCHANGED <<client, have, total, body, off, answer, closing, late>>

Method == {"GET", "POST", "OTHER"}

Path == {"page", "health", "rooms", "messages", "users", "sub", "events", "else"}

\* The statuses of the handlers that have several.  A POST needs a body with a
\* user and a text that chat_room_post accepts.
serve_static == {200, 404, 500}

handle_messages_get == {200, 500}

handle_messages_post == IF body = 0 THEN {400} ELSE {201, 400}

\* The routes of http_dispatch that are answered at once; room says whether
\* chat_room_by_id finds the room the path names.
Answers(method, path, room) ==
    CASE method = "GET" /\ path = "page" -> serve_static
      [] method = "GET" /\ path \in {"health", "rooms"} -> {200}
      [] path \in {"messages", "users", "sub"} /\ ~room -> {404}
      [] path = "messages" /\ room /\ method = "GET" -> handle_messages_get
      [] path = "messages" /\ room /\ method = "POST" -> handle_messages_post
      [] path = "messages" /\ room /\ method = "OTHER" -> {405}
      [] path = "users" /\ room /\ method = "GET" -> {200}
      [] OTHER -> {404}

Streams(method, path, room) == method = "GET" /\ path = "events" /\ room

\* http_dispatch of a request that is answered at once.
Dispatch(method, path, room) ==
    /\ ~Streams(method, path, room)
    /\ \E status \in Answers(method, path, room) :
         \/ http_respond(status) /\ pc' = "dispatched"
         \/ http_respond_held(status) /\ pc' = "send"
    /\ UNCHANGED <<client, reading, off, closing, late>>

\* send_all goes on: the client has read, or is gone.
SendRest ==
    /\ pc = "send" /\ (reply = "rest" \/ peer = "gone")
    /\ reply' = IF peer = "gone" THEN "lost" ELSE "sent"
    /\ responded' = TRUE
    /\ pc' = "dispatched"
    /\ UNCHANGED <<client, reading, off, replies, closing, late>>

\* http_dispatch of a stream: http_sse_begin, then handle_sse's loop.
DispatchStream(method, path, room) ==
    /\ Streams(method, path, room)
    /\ http_respond(200)
    /\ pc' = "stream"
    /\ UNCHANGED <<client, reading, off, closing, late>>

\* http_sse_send or http_sse_comment: the frame fits the socket's buffer, or
\* send_all stays in send.
SendFrame ==
    \/ pc' = "stream" /\ UNCHANGED answer
    \/ pc' = "frame" /\ reply' = "part" /\ UNCHANGED <<replies, responded>>

\* http_conn_wait throws away what the client sends on a stream, a part at a
\* time, and handle_sse sends a keep-alive for it.
StreamTick ==
    /\ pc = "stream" /\ Unread > 0 /\ peer # "gone"
    /\ off' = off + Min({Unread, Chunk})
    /\ SendFrame
    /\ UNCHANGED <<client, reading, closing, late>>

\* A message or a keep-alive is due.
StreamFrame ==
    /\ pc = "stream" /\ peer # "gone"
    /\ SendFrame
    /\ UNCHANGED <<client, reading, off, closing, late>>

\* send_all goes on, or fails and ends the stream.
FrameRest ==
    /\ pc = "frame" /\ (reply = "rest" \/ peer = "gone")
    /\ pc' = IF peer = "gone" THEN "dispatched" ELSE "stream"
    /\ reply' = IF peer = "gone" THEN "lost" ELSE "sent"
    /\ UNCHANGED <<client, reading, off, replies, responded, closing, late>>

\* http_conn_wait or a send finds the client gone.
StreamLeft ==
    /\ pc = "stream" /\ (peer = "gone" \/ (peer = "done" /\ Unread = 0))
    /\ pc' = "dispatched"
    /\ UNCHANGED <<client, reading, off, answer, closing, late>>

\* http_conn_wait finds shutdown_requested set (see module Server).
StreamStopped ==
    /\ pc = "stream"
    /\ pc' = "dispatched"
    /\ UNCHANGED <<client, reading, off, answer, closing, late>>

\* http_run_session answers for a handler that did not.
Fallback ==
    /\ pc = "dispatched"
    /\ IF responded THEN UNCHANGED answer ELSE http_respond(404)
    /\ pc' = "unregister"
    /\ UNCHANGED <<client, reading, off, closing, late>>

\* session_unregister, the pipe's ends closed, and shutdown (fd, SHUT_WR).
Unregister ==
    /\ pc = "unregister"
    /\ pc' = "drain" /\ owed' = Unread
    /\ UNCHANGED <<client, reading, off, answer, turns, late>>

\* One turn of the loop of close_graceful that receives something.
Drain ==
    /\ pc = "drain" /\ turns < DrainMax /\ Unread > 0 /\ peer # "gone"
    /\ turns' = turns + 1
    /\ off' = off + Min({Unread, Chunk})
    /\ UNCHANGED <<client, reading, pc, answer, owed, late>>

\* close: what was not received makes the kernel reset the connection.
CloseNow ==
    /\ pc' = "closed"
    /\ reply' = IF reply = "sent" /\ Unread > 0 THEN "lost" ELSE reply
    /\ UNCHANGED <<client, reading, off, replies, responded, closing, late>>

\* A mutant: the socket is closed without draining it.
CloseAtOnce == pc = "drain" /\ CloseNow

\* The loop ends: all turns taken, 10 ms of silence, end of file or an error.
Close ==
    /\ pc = "drain" /\ (turns = DrainMax \/ Unread = 0 \/ peer = "gone")
    /\ CloseNow

-----------------------------------------------------------------------------
Handle ==
    /\ pc = "dispatch"
    /\ \E method \in Method, path \in Path, room \in BOOLEAN :
         Dispatch(method, path, room) \/ DispatchStream(method, path, room)

Thread ==
    \/ Receive \/ Quiet \/ PeerLeft \/ Handle \/ SendRest
    \/ StreamTick \/ FrameRest \/ StreamLeft
    \/ Fallback \/ Unregister \/ Drain \/ Close

Next ==
    \/ Thread \/ StreamFrame \/ StreamStopped
    \/ \E x \in Token : Send(x)
    \/ \E how \in {"done", "gone"} : Leave(how)
    \/ ReadReply

Spec == Init /\ [][Next]_vars

\* The thread runs: its polls end with something to read or with their time.
\* That the client reads is not assumed, so a send need not end; nor is it
\* that a frame fails to fit.
FairSpec == Spec /\ WF_vars(Thread)

-----------------------------------------------------------------------------
(* The reference: what a stream of tokens is, as a whole *)

FirstLine(s) == LET nl == Newlines(s, 1) IN SubSeq(s, 1, Min(nl) - 1)

\* The ends of the empty lines after the first line.
Blanks(s) ==
    {i \in Newlines(s, 2) : s[i - 1] = "LF" \/ (i > 2 /\ s[i - 1] = "CR" /\ s[i - 2] = "LF")}

BodyLength(s) ==
    IF \E i \in 2 .. Min(Blanks(s)) : s[i - 1] = "LF" /\ s[i] = "len" THEN 1 ELSE 0

RequestLength(s) == Min(Blanks(s)) + BodyLength(s)

Expected(s) ==
    CASE Newlines(s, 1) # {} /\ ~WellFormed(FirstLine(s)) -> "bad"
      [] Newlines(s, 1) # {} /\ WellFormed(FirstLine(s)) /\ Blanks(s) # {}
           /\ RequestLength(s) <= Len(s) -> "ok"
      [] OTHER -> IF Len(s) >= BufSz THEN "large" ELSE ""

-----------------------------------------------------------------------------
(* What is checked *)

\* However the bytes are cut into reads, and whatever follows them, the
\* request read_request returns (or its 400 or 413) is the one the stream
\* begins with; a 408 or a silent abort means that no request had arrived.
VerdictExact ==
    /\ verdict \in {"ok", "bad", "large"} =>
         LET s == SubSeq(sent, 1, Min({Len(sent), BufSz}))
         IN  /\ verdict = Expected(s)
             /\ verdict = "ok" => total = RequestLength(s) /\ body = BodyLength(s)
    /\ verdict \in {"", "quiet", "left"} => Expected(SubSeq(sent, 1, have)) = ""

\* http_session.h:59: every request gets exactly one response, whichever of
\* read_request, the handlers and http_run_session gives it; none is given
\* only to a client that left before its request was complete.
OneReply ==
    /\ Len(replies) <= 1
    /\ pc \in {"drain", "closed"} => (replies = <<>>) = (verdict = "left")

\* close_graceful (http_session.c:309): a client that has stopped sending
\* when the server ends its half receives the response, provided that what
\* it sent fits the drain's budget.
ReplyKept ==
    reply = "lost" => peer = "gone" \/ late \/ owed > DrainMax * Chunk

\* The thread is in send, and the client neither reads nor resets.
Held == pc \in {"send", "frame"} /\ reply = "part" /\ peer # "gone"

\* Whatever the client does or fails to do, its thread gets to the end of
\* http_run_session, except on a stream the client keeps open, or in send_all
\* (http_session.c:91), which has no timeout: a client that does not read
\* keeps the thread there, for ever or frame after frame.
HandlerEnds == <>[](pc = "closed" \/ (pc = "stream" /\ peer = "open")) \/ []<>Held
=============================================================================
