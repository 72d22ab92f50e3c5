---------------------------- MODULE ResponseStream ----------------------------
(***************************************************************************)
(* A streamed response: the pool thread that reads the worker's            *)
(* ReadableStream (tokamak/src/dispatcher.rs) or the development host's    *)
(* body (dev_proxy.rs) and sends its chunks into a bounded queue, and the  *)
(* connection's thread that writes them to the client in the chunked       *)
(* coding (transport.rs).  The head of the response has been sent.         *)
(*                                                                         *)
(* Chunks are numbered in the order they were read.  An empty chunk has no *)
(* number: it passes the queue but is never written, because a chunk of    *)
(* length zero ends the body.                                              *)
(***************************************************************************)
EXTENDS Integers, Sequences, SequencesExt

CONSTANTS
  Sources,   \* whose streams are read: "worker", "host" or both
  Capacity,  \* RESPONSE_STREAM_QUEUE
  MaxChunks  \* bound: chunks with content that the source yields

ASSUME SourceKinds == Sources \subseteq {"worker", "host"}
ASSUME StreamBounds == Capacity \in Nat \ {0} /\ MaxChunks \in Nat

VARIABLES
  kind,      \* whose stream it is
  producer,  \* the pool thread
  source,    \* what became of the stream it reads
  chunk,     \* what it is sending
  made,      \* number of the last chunk read
  queue,     \* the bounded queue
  writer,    \* the connection's thread
  taken,     \* the chunk it is writing
  cancelled, \* BodyStream.cancelled
  severed,   \* Connection.cancelled is set and its socket shut down
  client,    \* "open", "left", or "notified": left with bytes unread, as a TLS
             \* client leaves that sends close_notify
  wrote,     \* numbers of the chunks written, 0 for the terminator
  begun      \* the response has a body

producerVars == <<kind, producer, source, chunk, made>>
writerVars   == <<writer, taken, wrote>>
vars == <<producerVars, queue, writerVars, cancelled, severed, client, begun>>

ProducerStates == {"check", "read", "send", "drain", "gone"}
WriterStates == {"receive", "write", "finish", "gone"}

None == 0
Failure == -1
Empty == -2
Item == Empty..MaxChunks
Terminator == 0

Init ==
  /\ kind \in Sources
  /\ producer = "check" /\ source = "open" /\ chunk = None
  /\ made = 0 /\ queue = <<>>
  /\ begun \in BOOLEAN
  /\ writer = IF begun THEN "receive" ELSE "gone"
  /\ cancelled = ~begun
  /\ taken = None /\ severed = FALSE /\ client = "open" /\ wrote = <<>>

-----------------------------------------------------------------------------
(* The producer. *)

ProducerUnchanged == UNCHANGED <<kind, writerVars, cancelled, severed, client, begun>>

\* The pump returns.  A worker's thread then waits for what the worker gave to
\* waitUntil, with the sender still in its hand.
Leaving == IF kind = "worker" THEN "drain" ELSE "gone"

\* The receiver is gone: the stream is cancelled and the pump returns.
Cancels == producer' = Leaving /\ source' = IF source = "open" THEN "cancelled" ELSE source

ProducerChecks ==
  /\ producer = "check"
  /\ IF cancelled THEN Cancels ELSE producer' = "read" /\ UNCHANGED source
  /\ UNCHANGED <<chunk, made, queue>> /\ ProducerUnchanged

ProducerReadsChunk ==
  /\ producer = "read" /\ made < MaxChunks
  /\ made' = made + 1 /\ chunk' = made + 1 /\ producer' = "send"
  /\ UNCHANGED <<source, queue>> /\ ProducerUnchanged

\* A worker may enqueue a chunk without content; the host's are never empty.
ProducerReadsEmpty ==
  /\ kind = "worker" /\ producer = "read"
  /\ chunk' = Empty /\ producer' = "send"
  /\ UNCHANGED <<source, made, queue>> /\ ProducerUnchanged

ProducerReadsEnd ==
  /\ producer = "read"
  /\ producer' = Leaving /\ source' = "ended"
  /\ UNCHANGED <<chunk, made, queue>> /\ ProducerUnchanged

\* The stream fails, or the runtime interrupts the worker, or a chunk of the
\* worker's is not bytes, and then its stream is left as it is.  The error is
\* sent like a chunk.
ProducerReadsError ==
  /\ producer = "read"
  /\ producer' = "send" /\ chunk' = Failure
  /\ source' \in {"failed"} \cup IF kind = "worker" THEN {"abandoned"} ELSE {}
  /\ UNCHANGED <<made, queue>> /\ ProducerUnchanged

\* The host is silent for a while.
ProducerReadsNothing ==
  /\ kind = "host" /\ producer = "read"
  /\ producer' = "check"
  /\ UNCHANGED <<source, chunk, made, queue>> /\ ProducerUnchanged

\* A bug: the worker's stream is not cancelled when the client has left.
ProducerAbandons ==
  /\ producer = "send"
  /\ IF writer = "gone"
       THEN producer' = Leaving /\ UNCHANGED <<source, queue>>
       ELSE /\ Len(queue) < Capacity
            /\ queue' = Append(queue, chunk)
            /\ producer' = IF chunk = Failure THEN Leaving ELSE "check"
            /\ UNCHANGED source
  /\ chunk' = None
  /\ UNCHANGED made /\ ProducerUnchanged

\* A bug: try_send, and the chunk is forgotten when the queue is full.
ProducerTriesSend ==
  /\ producer = "send"
  /\ IF writer = "gone"
       THEN Cancels /\ UNCHANGED queue
       ELSE /\ queue' = IF Len(queue) < Capacity THEN Append(queue, chunk) ELSE queue
            /\ producer' = IF chunk = Failure THEN Leaving ELSE "check"
            /\ UNCHANGED source
  /\ chunk' = None
  /\ UNCHANGED made /\ ProducerUnchanged

\* A bug: the receiver outlives the response, so that send waits for room.
ProducerSendsOn ==
  /\ producer = "send" /\ Len(queue) < Capacity
  /\ queue' = Append(queue, chunk)
  /\ producer' = IF chunk = Failure THEN Leaving ELSE "check"
  /\ chunk' = None
  /\ UNCHANGED <<source, made>> /\ ProducerUnchanged

\* sender.send returns: there was room, or the receiver is gone.
ProducerSends ==
  /\ producer = "send"
  /\ IF writer = "gone"
       THEN Cancels /\ UNCHANGED queue
       ELSE /\ Len(queue) < Capacity
            /\ queue' = Append(queue, chunk)
            /\ producer' = IF chunk = Failure THEN Leaving ELSE "check"
            /\ UNCHANGED source
  /\ chunk' = None
  /\ UNCHANGED made /\ ProducerUnchanged

\* drain_wait_until: every promise is settled, or an error ends the wait.
ProducerDrains ==
  /\ producer = "drain" /\ producer' = "gone"
  /\ UNCHANGED <<source, chunk, made, queue>> /\ ProducerUnchanged

-----------------------------------------------------------------------------
(* The writer: write_response_inner. *)

WriterUnchanged == UNCHANGED <<producerVars, severed, client, begun>>

\* The thread returns, and with it BodyStream is dropped.
Returns == writer' = "gone" /\ taken' = None /\ cancelled' = TRUE

\* A bug: an empty chunk is written like any other.
WriterTakesEmpty ==
  /\ writer = "receive" /\ queue # <<>>
  /\ queue' = Tail(queue)
  /\ IF Head(queue) = Failure
       THEN Returns
       ELSE writer' = "write" /\ UNCHANGED cancelled
            /\ taken' = IF Head(queue) = Empty THEN Terminator ELSE Head(queue)
  /\ UNCHANGED wrote /\ WriterUnchanged

WriterTakes ==
  /\ writer = "receive" /\ queue # <<>>
  /\ queue' = Tail(queue)
  /\ CASE Head(queue) = Failure -> Returns
       [] Head(queue) = Empty -> UNCHANGED <<writer, taken, cancelled>>
       [] OTHER -> /\ writer' = "write" /\ taken' = Head(queue)
                   /\ UNCHANGED cancelled
  /\ UNCHANGED wrote /\ WriterUnchanged

\* The sender is gone, and everything it sent was taken.
WriterDisconnects ==
  /\ writer = "receive" /\ queue = <<>> /\ producer = "gone"
  /\ writer' = "finish"
  /\ UNCHANGED <<queue, taken, cancelled, wrote>> /\ WriterUnchanged

\* Nothing came for a tenth of a second.  peer_closed peeks for the end of the
\* client's bytes, and does not see it behind bytes that nobody reads.
WriterPolls ==
  /\ writer = "receive" /\ queue = <<>> /\ producer # "gone"
  /\ \/ /\ severed
        /\ writer' = "finish" /\ UNCHANGED <<taken, cancelled>>
     \/ ~severed /\ client = "left" /\ Returns
  /\ UNCHANGED <<queue, wrote>> /\ WriterUnchanged

\* What a client that left is sent may still be taken by its system.
WriterWrites ==
  /\ writer = "write" /\ ~severed
  /\ wrote' = Append(wrote, taken)
  /\ writer' = "receive" /\ taken' = None
  /\ UNCHANGED <<queue, cancelled>> /\ WriterUnchanged

\* The client has left or the socket was shut down.
WriterFails ==
  /\ writer = "write" /\ (severed \/ client # "open")
  /\ Returns
  /\ UNCHANGED <<queue, wrote>> /\ WriterUnchanged

\* The terminator, unless the connection was cancelled.
WriterTerminates ==
  /\ writer = "finish" /\ ~severed
  /\ wrote' = Append(wrote, Terminator)
  /\ Returns
  /\ UNCHANGED queue /\ WriterUnchanged

WriterEnds ==
  /\ writer = "finish" /\ (severed \/ client # "open")
  /\ Returns
  /\ UNCHANGED <<queue, wrote>> /\ WriterUnchanged

-----------------------------------------------------------------------------
EnvironmentUnchanged == UNCHANGED <<producerVars, queue, writerVars, cancelled, begun>>

ClientLeaves ==
  /\ client = "open"
  /\ client' \in {"left", "notified"}
  /\ UNCHANGED severed /\ EnvironmentUnchanged

ConnectionSevered ==
  /\ ~severed /\ severed' = TRUE
  /\ UNCHANGED client /\ EnvironmentUnchanged

ProducerReads == ProducerReadsChunk \/ ProducerReadsEnd \/ ProducerReadsError
ProducerStep == \/ ProducerChecks \/ ProducerReads \/ ProducerReadsEmpty
                \/ ProducerReadsNothing \/ ProducerSends \/ ProducerDrains

\* A write returns in the end only if the client reads, has left, or the
\* socket was shut down: WriterWrites and WriterTerminates are not fair.
WriterStep == \/ WriterTakes \/ WriterDisconnects \/ WriterPolls
              \/ WriterFails \/ WriterEnds
Next == \/ ProducerStep \/ WriterStep \/ WriterWrites \/ WriterTerminates
        \/ ClientLeaves \/ ConnectionSevered

Spec == Init /\ [][Next]_vars
FairSpec == Spec /\ WF_vars(ProducerStep) /\ WF_vars(WriterStep)

\* The worker's stream does not yield empty chunks for ever.
BoundedSpec == FairSpec /\ SF_vars(kind = "worker" /\ ProducerReads)

-----------------------------------------------------------------------------
(* Correctness. *)

\* The values of the variables; the queue keeps to its capacity.
TypeOK ==
  /\ kind \in Sources
  /\ producer \in ProducerStates /\ writer \in WriterStates
  /\ source \in {"open", "ended", "failed", "cancelled", "abandoned"}
  /\ chunk \in Item /\ made \in 0..MaxChunks
  /\ queue \in Seq(Item) /\ Len(queue) <= Capacity
  /\ taken \in 0..MaxChunks /\ wrote \in Seq(0..MaxChunks)
  /\ cancelled \in BOOLEAN /\ severed \in BOOLEAN /\ begun \in BOOLEAN
  /\ client \in {"open", "left", "notified"}

Chunks(n) == [i \in 1..n |-> i]

\* What is on its way to the client, in the order it was read.
Pipe == <<taken>> \o queue \o <<chunk>>

\* A body that is terminated is the whole body: the stream ended by itself and
\* every chunk was written, in order; one that failed or was cancelled is left
\* without its terminator, so that the client can tell.
TerminatedIsWhole ==
  Terminator \in ToSet(wrote) =>
    source = "ended" /\ wrote = Append(Chunks(made), Terminator)

\* No chunk is lost, doubled or overtaken between the two threads: what was
\* written, what is being written, what is queued and what is being sent make
\* up what was read, until a thread gives up.
ChunksConserved ==
  \E n \in 0..made :
    /\ wrote \in {Chunks(n), Append(Chunks(n), Terminator)}
    /\ writer # "gone" =>
         /\ wrote = Chunks(n)
         /\ ToSet(Pipe) \cap (1..MaxChunks) = (n + 1)..made
         /\ \A i, j \in DOMAIN Pipe :
              i < j /\ Pipe[i] > 0 /\ Pipe[j] > 0 => Pipe[i] < Pipe[j]

\* The pump leaves a stream that it neither finished nor cancelled only after a
\* chunk that is not bytes.
SourceIsReleased == producer \in {"drain", "gone"} => source # "open"

\* A client that leaves, or a connection that is shut down, ends both threads,
\* however idle or full the stream is; but a client that left bytes unread is
\* noticed only by a write, and a host may stay silent for ever.
StreamEnds ==
  (severed \/ client = "left" \/ (kind = "worker" /\ client = "notified")) ~>
    (writer = "gone" /\ producer = "gone")
=============================================================================
