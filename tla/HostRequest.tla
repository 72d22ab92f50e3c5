------------------------------ MODULE HostRequest ------------------------------
(***************************************************************************)
(* One request of a development session, from the WebView to the           *)
(* framework's server: the gateway's connection thread                     *)
(* (tokamak/src/transport.rs), the proxy's job on a pool thread            *)
(* (dev_proxy.rs), the relay of tok dev (tokamak-cli/src/dev.rs) and the   *)
(* server, which is external and may go away at any byte.                  *)
(*                                                                         *)
(* A message is a head, which is a sequence of [name, value] lines, and a  *)
(* wire, which is a sequence of pieces of body.  A piece is bytes as they  *)
(* are, or belongs to the chunked coding.  A line has no line feed in it:  *)
(* no WebView lets one into a header, and the gateway, which ends a line   *)
(* at a carriage return and a line feed, and the relay, which ends it at   *)
(* the line feed, find the same lines in what has none.  How a streamed    *)
(* body is passed from thread to thread is the module ResponseStream.      *)
(***************************************************************************)
EXTENDS Integers, Sequences, SequencesExt, FiniteSetsExt

CONSTANTS
  Requests,  \* what the client may send
  Responses, \* what the server may answer
  Token,     \* the session token of the relay
  Tokens,    \* session tokens that an app may have been built with
  ChunkedLists, \* values of transfer-encoding that list the chunked coding
  MaxHeaders,  \* MAX_HEADERS, in lines of a trailer
  MaxHttpBody  \* MAX_HTTP_BODY

ASSUME RequestBounds == MaxHeaders \in Nat /\ MaxHttpBody \in Nat

VARIABLES
  request,    \* what the client sends
  token,      \* DevProxy.session_token
  connection, \* the connection's thread
  parsed,     \* the request as it was read
  job,        \* the proxy's job
  link,       \* what its connection to the relay still brings
  late,       \* HTTP_RETRY_TIMEOUT has passed
  reply,      \* what was sent into the job's response channel
  stream,     \* the response stream's queue
  phase,      \* the runtime: "running", "suspended" or "stopping"
  gone,       \* the client's socket was shut down, or closed with nothing left unread
  answer,     \* what the client was sent
  served,     \* the first two requests that the server got (for the properties)
  source      \* the server's last response (for the properties)

clientVars == <<request, phase, gone>>
jobVars    == <<job, link, late, reply, stream, served, source>>
vars == <<clientVars, token, connection, parsed, jobVars, answer>>

-----------------------------------------------------------------------------
(* Heads and bodies. *)

Ok == "ok"
Found(value)   == [error |-> Ok, value |-> value]
Failed(error)  == [error |-> error]
Nothing == [error |-> "nothing"]

Data(bytes)  == [kind |-> "data", bytes |-> bytes]
\* A chunk, and whether it is all there.
Chunk(bytes, closed) == [kind |-> "chunk", bytes |-> bytes, closed |-> closed]
\* The chunk of length zero, and the lines behind it.
Final(lines)  == [kind |-> "last", lines |-> lines]

\* The bytes on the wire, where 0 is a byte of the coding itself.
Raw(wire) ==
  FlattenSeq([i \in DOMAIN wire |->
    CASE wire[i].kind = "data"  -> wire[i].bytes
      [] wire[i].kind = "chunk" -> <<0>> \o wire[i].bytes \o <<0>>
      [] wire[i].kind = "last"  -> <<0>>])

\* The content, however it is coded.
Content(wire) ==
  FlattenSeq([i \in DOMAIN wire |-> IF wire[i].kind = "last" THEN <<>> ELSE wire[i].bytes])

Line(name, value) == [name |-> name, value |-> value]
Sized(n) == [name |-> "content-length", length |-> n]  \* -1: not a number
Names(lines) == {lines[i].name : i \in DOMAIN lines}

\* A BTreeMap of the lines by their names: the last of a name counts.
Headers(lines) ==
  [name \in Names(lines) |-> lines[Max({i \in DOMAIN lines : lines[i].name = name})]]

Without(headers, names) == [name \in DOMAIN headers \ names |-> headers[name]]
With(headers, line) ==
  [name \in DOMAIN headers \cup {line.name} |-> IF name = line.name THEN line ELSE headers[name]]
Default(headers, line) == IF line.name \in DOMAIN headers THEN headers ELSE With(headers, line)
Has(headers, name, value) == name \in DOMAIN headers /\ headers[name].value = value

Chunked(lines) == \E i \in DOMAIN lines : /\ lines[i].name = "transfer-encoding"
                                          /\ lines[i].value \in ChunkedLists
InvalidLength(lines) == Sized(-1) \in ToSet(lines)
HasLength(lines) == "content-length" \in Names(lines)
Length(lines) == IF HasLength(lines) THEN Headers(lines)["content-length"].length ELSE 0

\* eq_ignore_ascii_case: of the spellings, two stand for all.
GETs  == {"GET", "get"}
HEADs == {"HEAD", "head"}

NoBody(method, status) == method \in HEADs \/ status \in 100..199 \/ status \in {204, 304}

-----------------------------------------------------------------------------
(* What clients and servers may send: any lines, and pieces that fit them.  *)

Byte  == 0 .. 255
Lines == [name : STRING \ {"content-length"}, value : STRING]
           \cup [name : {"content-length"}, length : Nat \cup {-1}]
Pieces == [kind : {"data"}, bytes : Seq(Byte)]
            \cup [kind : {"chunk"}, bytes : Seq(Byte), closed : BOOLEAN]
            \cup [kind : {"last"}, lines : Nat]

\* Nothing stands behind the last chunk; what is not chunked has no more bytes
\* than were announced.
Framed(lines, wire) ==
  IF Chunked(lines) THEN \A i \in DOMAIN wire : wire[i].kind = "last" => i = Len(wire)
  ELSE /\ \A i \in DOMAIN wire : wire[i].kind = "data"
       /\ HasLength(lines) => InvalidLength(lines) \/ Len(Raw(wire)) <= Length(lines)

\* A client that announces no body sends none, and an upgrade has none either.
ASSUME RequestShape ==
  /\ Requests \subseteq [connect : BOOLEAN, certificate : BOOLEAN, method : STRING,
                         lines : Seq(Lines), wire : Seq(Pieces)]
  /\ \A r \in Requests :
       /\ Framed(r.lines, r.wire)
       /\ ~Chunked(r.lines) /\ ~HasLength(r.lines) => r.wire = <<>>
       /\ Line("upgrade", "websocket") \in ToSet(r.lines) => r.wire = <<>>

\* The server's own framing is right, however much of it arrives.
ASSUME ResponseShape ==
  /\ Responses \subseteq [headed : {TRUE}, status : Nat, lines : Seq(Lines), wire : Seq(Pieces)]
  /\ \A r \in Responses : Framed(r.lines, r.wire)

-----------------------------------------------------------------------------
(* The client's request. *)

read_chunked_body(wire) ==
  LET ends   == {i \in DOMAIN wire : wire[i].kind = "last"}
      chunks == SubSeq(wire, 1, Min(ends) - 1)
  IN IF ends = {} THEN Failed("eof")
     ELSE IF \E i \in DOMAIN chunks : chunks[i].kind # "chunk" \/ ~chunks[i].closed
     THEN Failed("startup")
     ELSE IF Len(Content(chunks)) > MaxHttpBody \/ wire[Min(ends)].lines > MaxHeaders
     THEN Failed("startup")
     ELSE Found(Content(chunks))

read_body(lines, wire) ==
  IF Chunked(lines) THEN read_chunked_body(wire)
  ELSE IF Length(lines) > Len(Raw(wire)) THEN Failed("eof")
  ELSE Found(SubSeq(Raw(wire), 1, Length(lines)))

\* The head and the body; an empty body is none.
read_request(r) ==
  IF r.method = "" \/ InvalidLength(r.lines) \/ (Chunked(r.lines) /\ HasLength(r.lines))
       \/ Length(r.lines) > MaxHttpBody
  THEN Failed("startup")
  ELSE LET body == read_body(r.lines, r.wire)
       IN IF body.error # Ok THEN body
          ELSE Found([method |-> r.method, headers |-> Headers(r.lines), body |-> body.value])

is_websocket(r) == Has(r.headers, "upgrade", "websocket")

-----------------------------------------------------------------------------
(* What the proxy writes, and what the relay makes of it. *)

Forwarded == {"host", "content-length", "x-forwarded-host", "x-forwarded-proto",
              "x-tokamak-session"}

\* A bug: the client's coding is announced though the body was decoded.
is_hop_by_hop_but_coding(name) ==
  name \in {"connection", "keep-alive", "proxy-connection", "te", "trailer", "upgrade"}

is_hop_by_hop(name) ==
  name \in {"connection", "keep-alive", "proxy-connection", "te", "trailer",
            "transfer-encoding", "upgrade"}

write_request(r, websocket) ==
  LET host == IF "host" \in DOMAIN r.headers THEN r.headers["host"].value ELSE "endpoint"
      kept == {name \in DOMAIN r.headers :
                 /\ name \notin Forwarded /\ ~is_hop_by_hop(name)
                 /\ ~(websocket /\ name = "sec-websocket-extensions")}
      names == SetToSeq(kept)
      own == <<Line("host", host), Line("x-forwarded-host", host),
               Line("x-forwarded-proto", "https"), Line("x-tokamak-session", token)>>
      last == IF websocket
              THEN <<Line("connection", "upgrade"), Line("upgrade", "websocket")>>
              ELSE <<Line("connection", "close"), Sized(Len(r.body))>>
  IN [method |-> r.method,
      lines  |-> [i \in DOMAIN names |-> r.headers[names[i]]] \o own \o last,
      wire   |-> IF websocket \/ r.body = <<>> THEN <<>> ELSE <<Data(r.body)>>]

\* Every session line has to have the token, and there has to be one.
authorized(lines) ==
  LET sessions == SelectSeq(lines, LAMBDA line : line.name = "x-tokamak-session")
  IN sessions # <<>> /\ \A i \in DOMAIN sessions : sessions[i].value = Token

rewrite_request(r) ==
  LET Rewritten(line) == CASE line.name = "x-tokamak-session" -> <<>>
                           [] line.name = "host" -> <<Line("host", "server")>>
                           [] OTHER -> <<line>>
  IN [r EXCEPT !.lines = FlattenSeq([i \in DOMAIN @ |-> Rewritten(@[i])])]

-----------------------------------------------------------------------------
(* What comes back.  An error of the socket tells how the connection ended:  *)
(* its end, a reset, or ten seconds without a byte.                          *)

read_response(method, r, end) ==
  LET chunked == Chunked(r.lines)
      dropped == {name \in Names(r.lines) : is_hop_by_hop(name)}
                   \cup IF chunked THEN {"content-length"} ELSE {}
      Response(body, framing) ==
        Found([status |-> r.status, headers |-> Without(Headers(r.lines), dropped),
               body |-> body, framing |-> framing])
  IN IF ~r.headed THEN Failed(end)
     ELSE IF r.status = 0 \/ InvalidLength(r.lines) THEN Failed("startup")
     ELSE IF NoBody(method, r.status) THEN Response(<<>>, "none")
     ELSE IF chunked THEN Response(<<>>, "chunked")
     ELSE IF ~HasLength(r.lines) THEN Response(<<>>, "close")
     ELSE IF Length(r.lines) > Len(Raw(r.wire)) THEN Failed(end)
     ELSE Response(SubSeq(Raw(r.wire), 1, Length(r.lines)), "none")

\* A bug: what may have been done is done again.
can_retry_anything(method, error) == error \in {"eof", "reset"}

can_retry_http(method, error) == method \in GETs \cup HEADs /\ error \in {"eof", "reset"}

\* The head that the client gets.
write_response_headers(method, r) ==
  LET own == Default(r.headers, Line("connection", "close"))
  IN IF r.framing = "none" THEN Default(own, Sized(Len(r.body)))
     ELSE With(Without(own, {"content-length"}), Line("transfer-encoding", "chunked"))

text(status) ==
  [status |-> status, headers |-> Headers(<<Line("content-type", "text/plain")>>), body |-> <<1>>,
   framing |-> "none"]

-----------------------------------------------------------------------------
(* The connection's thread. *)

Init ==
  /\ request \in Requests
  /\ token \in Tokens
  /\ connection = "connect" /\ parsed = Nothing
  /\ job = "none" /\ link = Nothing
  /\ late = FALSE
  /\ reply = Nothing /\ stream = <<>>
  /\ phase = "running" /\ gone = FALSE
  /\ answer = Nothing
  /\ served = <<>> /\ source = Nothing

Sent(r, method) ==
  [status |-> r.status, method |-> method, framing |-> r.framing,
   headers |-> write_response_headers(method, r),
   body |-> IF r.framing = "none" /\ ~NoBody(method, r.status) THEN r.body ELSE <<>>,
   ended |-> FALSE]

\* The client asks for a tunnel to the app's host, and gets it or 400.
Connects ==
  /\ connection = "connect" /\ ~gone
  /\ IF request.connect
       THEN connection' = "handshake" /\ UNCHANGED answer
       ELSE connection' = "done" /\ answer' = Sent(text(400), "GET")
  /\ UNCHANGED <<clientVars, token, parsed, jobVars>>

\* The acceptor is made and the handshake is done, unless one of them fails; a
\* client that has to have a certificate and has none gets 403.
Handshakes ==
  /\ connection = "handshake" /\ ~gone
  /\ \/ connection' = "done" /\ UNCHANGED answer
     \/ IF request.certificate
          THEN connection' = "request" /\ UNCHANGED answer
          ELSE connection' = "done" /\ answer' = Sent(text(403), "GET")
  /\ UNCHANGED <<clientVars, token, parsed, jobVars>>

\* A request that cannot be read gets no answer.
Reads ==
  /\ connection = "request"
  /\ LET r == read_request(request)
     IN IF r.error # Ok \/ gone
          THEN connection' = "done" /\ UNCHANGED <<parsed, job>>
          ELSE connection' = "wait" /\ parsed' = r.value /\ job' = "queued"
  /\ UNCHANGED <<clientVars, token, link, late, reply, stream, served, source, answer>>

\* Nothing but the job ends this wait.
Waits ==
  /\ connection = "wait"
  /\ \/ reply # Nothing /\ connection' = "write"
     \/ reply = Nothing /\ job = "done" /\ connection' = "done"
  /\ UNCHANGED <<clientVars, token, parsed, jobVars, answer>>

\* The head and a body that is not streamed; or the upgrade, for which the key
\* is needed.
Writes ==
  /\ connection = "write" /\ ~gone
  /\ IF reply.framing = "websocket"
       THEN /\ connection' = IF "sec-websocket-key" \in DOMAIN parsed.headers
                             THEN "session" ELSE "done"
            /\ UNCHANGED answer
       ELSE /\ connection' = IF reply.framing = "none" THEN "done" ELSE "stream"
            /\ answer' = Sent(reply, parsed.method)
  /\ UNCHANGED <<clientVars, token, parsed, jobVars>>

\* The next of the stream.  An error leaves the body without its end.
Streams ==
  /\ connection = "stream" /\ ~gone /\ stream # <<>>
  /\ stream' = Tail(stream)
  /\ IF Head(stream) = "error"
       THEN connection' = "done" /\ UNCHANGED answer
       ELSE answer' = [answer EXCEPT !.body = @ \o Head(stream)] /\ UNCHANGED connection
  /\ UNCHANGED <<clientVars, token, parsed, job, link, late, reply, served, source>>

\* The job is done and everything was written.
EndsStream ==
  /\ connection = "stream" /\ ~gone /\ stream = <<>> /\ job = "done"
  /\ answer' = [answer EXCEPT !.ended = TRUE]
  /\ connection' = "done"
  /\ UNCHANGED <<clientVars, token, parsed, jobVars>>

\* Reads and writes fail once the socket is gone, and an idle stream is told of
\* it; nobody is while the thread waits for the job.
ConnectionFails ==
  /\ gone /\ connection \in {"connect", "handshake", "write", "stream"}
  /\ connection' = "done"
  /\ UNCHANGED <<clientVars, token, parsed, jobVars, answer>>

-----------------------------------------------------------------------------
(* The job. *)

JobUnchanged == UNCHANGED <<clientVars, token, connection, parsed, link, late, reply, stream,
                           served, source, answer>>

\* Lifecycle::enter: the job of a suspended runtime waits here until the runtime is
\* resumed, that of a stopped one is dropped.
Enters ==
  /\ job = "queued" /\ phase # "suspended"
  /\ job' = IF phase = "running" THEN "entered" ELSE "done"
  /\ JobUnchanged

\* handle drops the job of a runtime that was suspended or stopped since.
HandleChecks ==
  /\ job = "entered"
  /\ job' = IF phase = "running" THEN "connect" ELSE "done"
  /\ JobUnchanged

\* connect: to the relay at once, whose timeouts are set, or first to a TLS server
\* in front of it, whose handshake comes before them.  Which it is, is left open.
Connected == job = "connect" /\ job' \in {"attempt", "secure"} /\ JobUnchanged
Secured   == job = "secure" /\ job' = "attempt" /\ JobUnchanged

\* What the server sent in answer to a request, up to where the connection
\* ended: in its head, between two pieces of its body, in one of them or behind
\* it.  Only a client that expects it gets an interim answer.
Arrived(r) ==
  LET Cut(n) == [r EXCEPT !.wire = SubSeq(@, 1, n)]
      Inside(n) == [r EXCEPT !.wire = Append(SubSeq(@, 1, n - 1), Chunk(<<>>, FALSE))]
  IN {[r EXCEPT !.headed = FALSE, !.wire = <<>>]} \cup {Cut(n) : n \in 0 .. Len(r.wire)}
     \cup {Inside(n) : n \in {m \in DOMAIN r.wire : r.wire[m].kind = "chunk"}}

Ends == {"eof", "reset", "timeout"}

\* A bug: a host that always hangs up is asked for ever.
ErrsForEver(e) ==
  IF can_retry_http(parsed.method, e)
    THEN job' = "pause" /\ UNCHANGED reply
    ELSE job' = "done" /\ reply' = text(500)

\* The same request again after a pause; or the error, as an answer.
Errs(e) ==
  IF can_retry_http(parsed.method, e) /\ ~late
    THEN job' = "pause" /\ UNCHANGED reply
    ELSE job' = "done" /\ reply' = text(500)

\* forward_http, once request_http has returned.
ForwardsHttp(r, wire, end) ==
  IF r.error # Ok THEN Errs(r.error) /\ UNCHANGED link
  ELSE /\ reply' = r.value
       /\ job' = IF r.value.framing = "none" THEN "done" ELSE "pump"
       /\ link' = [wire |-> wire, end |-> end]

\* open_websocket; what follows an upgrade is the module WebSocketBridge.
ForwardsWebSocket(r) ==
  LET accepted == /\ r.error = Ok /\ "sec-websocket-key" \in DOMAIN parsed.headers
                  /\ r.value.status = 101
                  /\ Has(r.value.headers, "sec-websocket-accept", "right")
  IN /\ reply' = IF accepted THEN [framing |-> "websocket"] ELSE text(500)
     /\ job' = "done" /\ UNCHANGED link

Forwards(r, wire, end) ==
  /\ IF is_websocket(parsed) THEN ForwardsWebSocket(r) ELSE ForwardsHttp(r, wire, end)
  /\ UNCHANGED <<clientVars, token, connection, parsed, late, stream, answer>>

Written == write_request(parsed, is_websocket(parsed))

\* The handshake fails.
SecureFails ==
  /\ job = "secure"
  /\ Forwards(Failed("startup"), <<>>, "startup")
  /\ source' = Nothing /\ UNCHANGED served

\* No relay, or one that finds no server or loses it and says nothing.
AttemptFails ==
  /\ job \in {"connect", "attempt"}
  /\ \E e \in {"refused", "startup"} \cup Ends : Forwards(Failed(e), <<>>, e)
  /\ source' = Nothing /\ UNCHANGED served

\* The relay does not know the token.
AttemptIsRejected ==
  /\ job = "attempt" /\ ~authorized(Written.lines)
  /\ Forwards(read_response(parsed.method, [headed |-> TRUE, status |-> 401,
                                            lines |-> <<Sized(0)>>, wire |-> <<>>], "eof"),
              <<>>, "eof")
  /\ source' = Nothing /\ UNCHANGED served

\* The server gets the request.
AttemptIsAnswered ==
  /\ job = "attempt" /\ authorized(Written.lines)
  /\ served' = IF Len(served) = 2 THEN served ELSE Append(served, rewrite_request(Written))
  /\ \E r \in Responses, end \in Ends :
       /\ r.status = 100 => "expect" \in DOMAIN parsed.headers
       /\ source' = r
       /\ \E got \in Arrived(r) :
            Forwards(read_response(parsed.method, got, end), got.wire, end)

Pauses == job = "pause" /\ job' = "connect" /\ JobUnchanged

PumpUnchanged == UNCHANGED <<clientVars, token, connection, parsed, late, reply, served, source,
                             answer>>

\* The thread that reads the stream is gone.
PumpIsCancelled ==
  /\ job = "pump" /\ connection \in {"done", "session"}
  /\ job' = "done"
  /\ UNCHANGED <<link, stream>> /\ PumpUnchanged

\* pump_close_delimited_body: what came, until the connection ends.
PumpsBytes ==
  /\ job = "pump" /\ reply.framing = "close"
  /\ IF link.wire # <<>>
       THEN /\ stream' = Append(stream, Raw(<<Head(link.wire)>>))
            /\ link' = [link EXCEPT !.wire = Tail(@)] /\ UNCHANGED job
       ELSE /\ link.end # "timeout"
            /\ job' = "done" /\ UNCHANGED link
            /\ stream' = IF link.end = "eof" THEN stream ELSE Append(stream, "error")
  /\ PumpUnchanged

\* A bug: the end of the connection is taken for the end of the body.
PumpsEarlyEnd ==
  /\ link.wire = <<>> /\ link.end # "timeout"
  /\ job' = "done" /\ UNCHANGED <<link, stream>>

\* The connection ends before the last chunk.
PumpsEnd ==
  /\ link.wire = <<>> /\ link.end # "timeout"
  /\ job' = "done" /\ stream' = Append(stream, "error") /\ UNCHANGED link

\* pump_chunked_body: the content of the next chunk, or the last one with its
\* trailers, or something that is not a chunk.
PumpsChunk ==
  /\ link.wire # <<>>
  /\ LET piece == Head(link.wire)
         bytes == IF piece.kind = "chunk" THEN <<piece.bytes>> ELSE <<>>
         bad   == CASE piece.kind = "chunk" -> ~piece.closed
                    [] piece.kind = "last"  -> piece.lines > MaxHeaders
                    [] piece.kind = "data"  -> TRUE
     IN /\ stream' = stream \o bytes \o IF bad THEN <<"error">> ELSE <<>>
        /\ job' = IF bad \/ piece.kind = "last" THEN "done" ELSE job
  /\ link' = [link EXCEPT !.wire = Tail(@)]

Pumps == /\ job = "pump" /\ reply.framing = "chunked"
         /\ PumpsChunk \/ PumpsEnd
         /\ PumpUnchanged

-----------------------------------------------------------------------------
(* The rest. *)

\* The ten seconds for another attempt are over.
Late ==
  /\ job \in {"connect", "secure", "attempt", "pause"} /\ ~late /\ late' = TRUE
  /\ UNCHANGED <<clientVars, token, connection, parsed, job, link, reply, stream, served, source,
                 answer>>

RuntimeUnchanged == UNCHANGED <<request, gone, token, connection, parsed, jobVars, answer>>

\* suspend or Drop: executions are told to end, then the sockets are shut down.
Suspends == phase = "running" /\ phase' = "suspended" /\ RuntimeUnchanged
Resumes  == phase = "suspended" /\ phase' = "running" /\ RuntimeUnchanged
Stops    == phase # "stopping" /\ phase' = "stopping" /\ RuntimeUnchanged

\* ... and with it, or by itself, the client's socket ends.
Goes ==
  /\ ~gone /\ gone' = TRUE
  /\ UNCHANGED <<request, phase, token, connection, parsed, jobVars, answer>>

ConnectionStep == \/ Connects \/ Handshakes \/ Reads \/ Waits \/ Writes \/ Streams \/ EndsStream
                  \/ ConnectionFails
JobStep == \/ Enters \/ HandleChecks \/ Connected \/ AttemptFails \/ AttemptIsRejected
           \/ AttemptIsAnswered \/ Pauses \/ PumpIsCancelled \/ PumpsBytes \/ Pumps
SecureStep  == Secured \/ SecureFails
RuntimeStep == Suspends \/ Resumes \/ Stops

Next == ConnectionStep \/ JobStep \/ SecureStep \/ Late \/ RuntimeStep \/ Goes
Spec == Init /\ [][Next]_vars

\* Threads go on, every read and write of a job ends in time, and time passes.
\* A TLS server may be silent for ever: the handshake has no time.
FairSpec == Spec /\ WF_vars(ConnectionStep) /\ WF_vars(JobStep) /\ WF_vars(Late)

-----------------------------------------------------------------------------
(* Correctness. *)

\* A request that may change something reaches the server at most once, whatever
\* became of the connection and however the retries go.
UnsafeOnce == Len(served) > 1 => served[1].method \in GETs \cup HEADs

\* The server, which reads a request by the head that it gets, reads the body
\* that the client meant, however the client coded it, and never the token.
ServerReadsTheBody ==
  \A i \in DOMAIN served :
    LET body == read_body(served[i].lines, served[i].wire)
    IN /\ body.error = Ok /\ body.value = Content(request.wire)
       /\ "x-tokamak-session" \notin Names(served[i].lines)

\* The client takes an answer for whole by the head that it gets.
TakenForWhole ==
  /\ answer # Nothing /\ ~NoBody(answer.method, answer.status)
  /\ IF "transfer-encoding" \in DOMAIN answer.headers THEN answer.ended
     ELSE Len(answer.body) = answer.headers["content-length"].length

\* What the client takes for a whole answer of the server is what the server
\* sent in one attempt, all of it; of a body that only the end of the connection
\* delimits, nobody can tell more than that it is a beginning.
WholeIsWhole ==
  TakenForWhole /\ source # Nothing /\ answer.status = source.status =>
    IF Chunked(source.lines) \/ HasLength(source.lines)
      THEN answer.body = Content(source.wire)
      ELSE IsPrefix(answer.body, Content(source.wire))

\* A job ends, also when nobody waits for the answer any more: it starts no attempt
\* once its ten seconds are over, each attempt ends, and only a body that is
\* streamed to the client may take longer, which a client that is gone ends.  Two
\* things keep a job for as long as they last: a runtime that is suspended, and a
\* TLS server that never answers a handshake, which connect() waits for before it
\* sets a timeout.
JobEnds ==
  <>[](phase # "suspended") /\ []<>(job # "secure") =>
    /\ (job = "queued") ~> (job \in {"pump", "done"})
    /\ gone ~> (job \in {"none", "done"})
================================================================================
