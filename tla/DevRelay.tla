------------------------------- MODULE DevRelay -------------------------------
(***************************************************************************)
(* The relay of tok dev (tokamak-cli/src/dev.rs): a thread that accepts    *)
(* connections of the app, and for each of them a thread that reads the    *)
(* request's head, connects to the framework's server, sends it the        *)
(* rewritten head, and copies back what the server sends while a second    *)
(* thread copies forth what the client sends.  Client and server are       *)
(* external.  What authorized and rewrite_request do to a head is in the   *)
(* module HostRequest; here a head is right or not, and its rewritten form *)
(* is the piece 0.                                                         *)
(*                                                                         *)
(* A connection has four directions, each with room for a few pieces:      *)
(*   client --up1--> relay --up2--> server --down2--> relay --down1--> client *)
(***************************************************************************)
EXTENDS Integers, Sequences, SequencesExt

CONSTANTS
  Conns,        \* the connections
  ClientPieces, \* the pieces a client sends at most
  ServerPieces, \* the pieces a server sends at most
  Room,         \* the pieces that a direction holds before a writer has to wait
  HeaderLimit   \* RELAY_HEADER_LIMIT, in pieces

ASSUME RelayBounds == /\ ClientPieces \in Nat /\ ServerPieces \in Nat
                      /\ Room \in Nat \ {0} /\ HeaderLimit \in Nat

VARIABLES
  accept,  \* relay_loop: "none", "running" or "over"
  stop,    \* DevRelay.stop
  serving, \* whether the server listens
  conn     \* each connection

relayVars == <<accept, stop, serving, conn>>

Unauthorized == 401

-----------------------------------------------------------------------------
(* Directions: what was written and not yet read, and whether the writer has *)
(* shut it, or either side has broken it off.                                *)

Open   == [pieces |-> <<>>, end |-> "open"]
Broken == [pieces |-> <<>>, end |-> "reset"]

Shut(d) == IF d.end = "open" THEN [d EXCEPT !.end = "fin"] ELSE d
AtEnd(d) == d.end = "reset" \/ (d.pieces = <<>> /\ d.end = "fin")
HasRoom(d) == d.end = "open" /\ Len(d.pieces) < Room

\* What is written to a direction that broke off is lost before an error tells
\* of it.
IsWritable(d) == HasRoom(d) \/ d.end = "reset"
Written(d, piece) == IF d.end = "open" THEN [d EXCEPT !.pieces = Append(@, piece)] ELSE d

\* io::copy: a piece that was read is written; its buffer counts as part of what
\* the direction holds.
Passed(c, from, to) ==
  [c EXCEPT ![to] = Written(@, Head(c[from].pieces)), ![from].pieces = Tail(@)]

\* A socket is closed.  What the other side writes from now on is lost; what it
\* has still to read is lost too if something was left unread on this side,
\* or not, by the platform.
Closed(c, out, in) ==
  {[c EXCEPT ![out] = d, ![in] = Broken] :
     d \in {Shut(c[out])} \cup IF c[in].pieces = <<>> THEN {} ELSE {Broken}}

ClientClosed(c) == {[d EXCEPT !.client = "closed"] : d \in Closed(c, "up1", "down1")}
ServerClosed(c) == {[d EXCEPT !.server = "closed"] : d \in Closed(c, "down2", "up2")}

\* The relay drops both of its sockets.
Dropped(c) ==
  {[d EXCEPT !.thread = "over", !.forward = "over"] :
     d \in UNION {Closed(e, "up2", "down2") : e \in Closed(c, "down1", "up1")}}

NoConnection ==
  [client |-> "none", head |-> 1, token |-> TRUE, sent |-> 0, got |-> <<>>,
   thread |-> "none", forward |-> "none", initial |-> <<>>,
   server |-> "none", asked |-> <<>>, answered |-> 0,
   up1 |-> Open, up2 |-> Open, down1 |-> Open, down2 |-> Open]

Set(k, c) == conn' = [conn EXCEPT ![k] = c] /\ UNCHANGED <<accept, stop, serving>>

RelayInit ==
  /\ accept = "none" /\ stop = FALSE /\ serving = FALSE
  /\ conn = [k \in Conns |-> NoConnection]

-----------------------------------------------------------------------------
(* The client. *)

ClientConnects(k) ==
  /\ conn[k].client = "none" /\ accept = "running"
  /\ \E head \in 1 .. ClientPieces, token \in BOOLEAN :
       /\ token \/ head = 1
       /\ Set(k, [conn[k] EXCEPT !.client = "open", !.head = head, !.token = token,
                                 !.thread = "backlog"])

ClientSends(k) ==
  /\ conn[k].client = "open" /\ conn[k].sent < ClientPieces /\ HasRoom(conn[k].up1)
  /\ Set(k, [conn[k] EXCEPT !.sent = @ + 1, !.up1.pieces = Append(@, conn[k].sent + 1)])

ClientReads(k) ==
  /\ conn[k].client = "open" /\ conn[k].down1.pieces # <<>>
  /\ Set(k, [conn[k] EXCEPT !.got = Append(@, Head(conn[k].down1.pieces)),
                            !.down1.pieces = Tail(@)])

ClientCloses(k) ==
  /\ conn[k].client = "open"
  /\ \E c \in ClientClosed(conn[k]) : Set(k, c)

ClientGoesOn(k) == ClientReads(k) \/ (AtEnd(conn[k].down1) /\ ClientCloses(k))

-----------------------------------------------------------------------------
(* The server. *)

ServerReads(k) ==
  /\ conn[k].server = "open" /\ conn[k].up2.pieces # <<>>
  /\ Set(k, [conn[k] EXCEPT !.asked = Append(@, Head(conn[k].up2.pieces)),
                            !.up2.pieces = Tail(@)])

ServerSends(k) ==
  /\ conn[k].server = "open" /\ conn[k].asked # <<>>
  /\ conn[k].answered < ServerPieces /\ HasRoom(conn[k].down2)
  /\ Set(k, [conn[k] EXCEPT !.answered = @ + 1,
                            !.down2.pieces = Append(@, conn[k].answered + 1)])

ServerCloses(k) ==
  /\ conn[k].server = "open"
  /\ \E c \in ServerClosed(conn[k]) : Set(k, c)

ServerGoesOn(k) == ServerReads(k) \/ (AtEnd(conn[k].up2) /\ ServerCloses(k))

-----------------------------------------------------------------------------
(* The accept loop. *)

Fails(k) == \E c \in Dropped(conn[k]) : Set(k, c)

\* A connection gets its thread, or there is none to be had and it is dropped.
Accepts(k) ==
  /\ accept = "running" /\ ~stop /\ conn[k].thread = "backlog"
  /\ \/ Set(k, [conn[k] EXCEPT !.thread = "headers"])
     \/ Fails(k)

\* The loop ends, the listener with it, and who waits to be accepted is refused.
\* It ends once it is told to, or with the first error of accept.
AcceptLoopEnds ==
  /\ accept = "running" /\ accept' = "over"
  /\ conn' = [k \in Conns |-> IF conn[k].thread # "backlog" THEN conn[k]
                              ELSE [conn[k] EXCEPT !.thread = "over", !.forward = "over",
                                                   !.up1 = Broken, !.down1 = Broken]]
  /\ UNCHANGED <<stop, serving>>

-----------------------------------------------------------------------------
(* The thread of a connection. *)

\* A bug: what came behind the head in the same read is forgotten.
RewrittenAlone(pieces, head) == IF Len(pieces) < head THEN <<>> ELSE <<0>>

\* rewrite_request, for what was read of the request so far.
Rewritten(pieces, head) ==
  IF Len(pieces) < head THEN <<>> ELSE <<0>> \o SubSeq(pieces, head + 1, Len(pieces))

\* What becomes of a connection by what was read of its head: it is read on, it is
\* too long, it has not the token, or it is to be sent.
HeadRead(c) ==
  IF Len(c.initial) < c.head
    THEN IF Len(c.initial) > HeaderLimit THEN Dropped(c) ELSE {c}
  ELSE IF c.token THEN {[c EXCEPT !.thread = "connect"]}
  ELSE Dropped([c EXCEPT !.down1 = Written(@, Unauthorized)])

\* read_headers, and authorized once the head is whole: 401 or on.
ReadsHead(k) ==
  /\ conn[k].thread = "headers"
  /\ \/ AtEnd(conn[k].up1) /\ Fails(k)
     \/ \E n \in 1 .. Len(conn[k].up1.pieces) :
          LET c == [conn[k] EXCEPT !.initial = @ \o SubSeq(conn[k].up1.pieces, 1, n),
                                   !.up1.pieces = SubSeq(@, n + 1, Len(@))]
          IN \E d \in HeadRead(c) : Set(k, d)

\* ServerEndpoint::connect, which may also run out of time.
Connects(k) ==
  /\ conn[k].thread = "connect"
  /\ \/ serving /\ Set(k, [conn[k] EXCEPT !.thread = "send", !.server = "open",
                                          !.initial = Rewritten(conn[k].initial, conn[k].head)])
     \/ Fails(k)

\* write_all of the rewritten request: a piece at a time, as there is room.
SendsHead(k) ==
  /\ conn[k].thread = "send"
  /\ \/ /\ conn[k].initial # <<>> /\ IsWritable(conn[k].up2)
        /\ Set(k, [conn[k] EXCEPT !.initial = Tail(@),
                                  !.up2 = Written(@, Head(conn[k].initial))])
     \/ conn[k].initial # <<>> /\ conn[k].up2.end = "reset" /\ Fails(k)
     \/ /\ conn[k].initial = <<>>
        /\ Set(k, [conn[k] EXCEPT !.thread = "copy", !.forward = "copy"])

\* A bug: the server is not told that the client has nothing more to send.
EndsForwardSilently(k) == [conn[k] EXCEPT !.forward = "over"]

\* The end of the thread that copies forth, whether it failed or not.
EndsForward(k) == [conn[k] EXCEPT !.forward = "over", !.up2 = Shut(@)]

\* The thread that copies forth: a piece, or the end of what it reads or an
\* error of what it writes to.
CopiesForth(k) ==
  /\ conn[k].forward = "copy"
  /\ \/ /\ conn[k].up1.pieces # <<>> /\ IsWritable(conn[k].up2)
        /\ Set(k, Passed(conn[k], "up1", "up2"))
     \/ /\ AtEnd(conn[k].up1) \/ (conn[k].up1.pieces # <<>> /\ conn[k].up2.end = "reset")
        /\ Set(k, EndsForward(k))

\* The other direction, on the connection's own thread.
CopiesBack(k) ==
  /\ conn[k].thread = "copy"
  /\ \/ /\ conn[k].down2.pieces # <<>> /\ IsWritable(conn[k].down1)
        /\ Set(k, Passed(conn[k], "down2", "down1"))
     \/ /\ \/ AtEnd(conn[k].down2)
           \/ conn[k].down2.pieces # <<>> /\ conn[k].down1.end = "reset"
        /\ Set(k, [conn[k] EXCEPT !.thread = "join", !.down1 = Shut(@)])

Joins(k) ==
  /\ conn[k].thread = "join" /\ conn[k].forward = "over" /\ Fails(k)

ConnectionThread(k) ==
  ReadsHead(k) \/ Connects(k) \/ SendsHead(k) \/ CopiesBack(k) \/ Joins(k)

RelayNext ==
  \E k \in Conns :
    \/ ClientSends(k) \/ ClientReads(k) \/ ClientCloses(k)
    \/ ServerReads(k) \/ ServerSends(k) \/ ServerCloses(k)
    \/ Accepts(k) \/ ConnectionThread(k) \/ CopiesForth(k)

-----------------------------------------------------------------------------
(* Correctness. *)

\* What the server is to get: the rewritten head and whatever came behind it.
Meant(k) == IF conn[k].sent < conn[k].head THEN <<>>
            ELSE <<0>> \o [i \in 1 .. conn[k].sent - conn[k].head |-> conn[k].head + i]
Answered(k) == [i \in 1 .. conn[k].answered |-> i]

\* Each side gets what the other one sent, in its order, each piece once, and
\* the server nothing of a client that has not the token; and where nothing was
\* broken off, an end that is passed on comes behind the last piece.
RelayIsTransparent ==
  \A k \in Conns :
    LET c    == conn[k]
        up   == c.asked \o c.up2.pieces
        down == c.got \o c.down1.pieces
        whole == Meant(k)
    IN /\ IF c.token THEN IsPrefix(up, whole) /\ IsPrefix(down, Answered(k))
                     ELSE up = <<>> /\ down \in {<<>>, <<Unauthorized>>}
       /\ c.forward = "over" /\ c.up1.end = "fin" /\ c.up2.end = "fin" => up = whole
       /\ c.thread = "join" /\ c.down2.end = "fin" /\ c.down1.end = "fin" => down = Answered(k)

\* A connection that either side has left lets go of its threads and sockets.
ConnectionEnds ==
  \A k \in Conns :
    (conn[k].client = "closed" \/ conn[k].server = "closed") ~> (conn[k].thread = "over")
================================================================================
