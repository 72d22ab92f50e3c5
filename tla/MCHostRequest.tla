----------------------------- MODULE MCHostRequest -----------------------------
(* Bodies of up to two bytes in every coding.                               *)
EXTENDS HostRequest

Own == <<Line("host", "app"), Line("te", "trailers"), Line("x-tokamak-session", "other")>>
Asks(method, lines, wire) ==
  [connect |-> TRUE, certificate |-> TRUE, method |-> method, lines |-> Own \o lines, wire |-> wire]
Coded  == Line("transfer-encoding", "chunked")
Listed == Line("transfer-encoding", "gzip, chunked")
MCRequests ==
  {Asks("GET", <<>>, <<>>), Asks("head", <<>>, <<>>),
   Asks("POST", <<Sized(2), Line("expect", "100-continue")>>, <<Data(<<1, 2>>)>>),
   Asks("POST", <<Coded>>, <<Chunk(<<1>>, TRUE), Chunk(<<2>>, TRUE), Final(1)>>),
   Asks("POST", <<Listed>>, <<Chunk(<<1, 2>>, TRUE), Chunk(<<1>>, TRUE), Final(0)>>),
   Asks("POST", <<Coded>>, <<Chunk(<<1>>, TRUE)>>),
   Asks("POST", <<Coded, Sized(1)>>, <<Chunk(<<1>>, TRUE), Final(0)>>),
   Asks("POST", <<Sized(2)>>, <<Data(<<1>>)>>),
   Asks("GET", <<Line("upgrade", "websocket"), Line("sec-websocket-key", "key")>>, <<>>),
   [Asks("GET", <<>>, <<>>) EXCEPT !.connect = FALSE],
   [Asks("GET", <<>>, <<>>) EXCEPT !.certificate = FALSE]}

Answers(status, lines, wire) ==
  [headed |-> TRUE, status |-> status, lines |-> lines, wire |-> wire]
MCResponses ==
  {Answers(200, <<Sized(2), Line("connection", "keep-alive")>>, <<Data(<<3>>), Data(<<4>>)>>),
   Answers(200, <<Coded>>, <<Chunk(<<3>>, TRUE), Chunk(<<4>>, TRUE), Final(1)>>),
   Answers(200, <<Sized(9), Listed>>, <<Chunk(<<3, 4>>, TRUE), Final(2)>>),
   Answers(200, <<>>, <<Data(<<3>>), Data(<<4>>)>>),
   Answers(204, <<>>, <<>>),
   Answers(304, <<Sized(2)>>, <<>>),
   Answers(100, <<>>, <<>>),
   Answers(101, <<Line("sec-websocket-accept", "right")>>, <<>>)}
================================================================================
