--------------------------- MODULE WebSocketBridge ---------------------------
(***************************************************************************)
(* One upgraded connection: the gateway's session thread                   *)
(* (tokamak/src/transport.rs), its peer on a pool thread, and the two      *)
(* bounded queues between them (gateway.rs).  The peer is the JavaScript   *)
(* worker's loop (dispatcher.rs) in a packaged app, the development        *)
(* proxy's loop (dev_proxy.rs) otherwise.                                  *)
(*                                                                         *)
(* Both queues are std::sync::mpsc::sync_channel: a send blocks while the  *)
(* queue is full, and fails once the receiver is gone; a receive returns   *)
(* what is queued before it reports that the sender is gone.               *)
(*                                                                         *)
(* Messages are numbered in the order their sender made them; their kind   *)
(* and content are abstracted, and so are pings, which touch no queue.     *)
(***************************************************************************)
EXTENDS Integers, Sequences

CONSTANTS
  Peers,     \* the kinds of peer: "worker", "proxy" or both
  Capacity,  \* MAX_WEBSOCKET_QUEUE, 100
  Burst,     \* bound: messages a worker posts while it handles one event
  MaxIn,     \* bound: messages the client sends
  MaxOut     \* bound: messages the peer makes

ASSUME PeerKinds    == Peers \subseteq {"worker", "proxy"}
ASSUME CapacityNat  == Capacity \in Nat \ {0, 1}
ASSUME BurstNat     == Burst \in Nat
ASSUME BoundsNat    == MaxIn \in Nat /\ MaxOut \in Nat

VARIABLES
  kind,     \* what the peer is
  session,  \* the session thread
  held,     \* what it is sending into the incoming queue
  incoming, \* queue from session to peer
  outgoing, \* queue from peer to session
  peer,     \* the peer's thread
  outbox,   \* what the peer has still to send into the outgoing queue
  closing,  \* the peer returns once the outbox is sent
  readyState, \* of the worker's end of the socket pair: 1 open, 3 closed
  posted,   \* history: how many entries the worker's last event put into the outbox
  running,  \* Execution::is_running
  accepting, \* Shared.accepting: Drop has not begun
  connection, \* "open", "closing" (suspend or Drop is under way), or "shut"
  sent,     \* number of the client's last message read by the session
  got,      \* the messages the peer has received
  made,     \* number of the peer's last message
  wrote     \* what has been written to the client: numbers, 0 for a close

queueVars   == <<incoming, outgoing>>
runtimeVars == <<kind, running, accepting, connection>>
peerVars    == <<peer, outbox, posted, closing, readyState, got, made>>
vars == <<session, held, sent, wrote, queueVars, peerVars, runtimeVars>>

SessionStates == {"wait", "flush", "read", "send", "gone"}
PeerStates == {"check", "receive", "handle", "upstream", "emit", "gone"}

Message(n) == [type |-> "message", id |-> n]
Close == [type |-> "close", id |-> 0]
Ready == [type |-> "ready", id |-> 0]

\* What the peer has received once it took an entry.
Received(entry) == IF entry.type = "message" THEN Append(got, entry.id) ELSE got

\* The messages n+1 .. n+count, in order.
Made(n, count) == [i \in 1..count |-> Message(n + i)]

-----------------------------------------------------------------------------
\* What a worker that posts count messages, and then perhaps closes, leaves in
\* the outbox; the Ready that follows every event is sent with it.
Posted(from, count, close) ==
  Made(from, count) \o (IF close THEN <<Close, Ready>> ELSE <<Ready>>)

\* The worker has posted while it answered the upgrade; the proxy starts with
\* Ready.
Init ==
  /\ kind \in Peers
  /\ session = "wait" /\ held = <<>>
  /\ incoming = <<>> /\ outgoing = <<>>
  /\ peer = "emit"
  /\ \E count \in 0..Burst, close \in BOOLEAN :
       /\ kind = "proxy" => count = 0 /\ ~close
       /\ count <= MaxOut
       /\ outbox = Posted(0, count, close) /\ made = count
       /\ readyState = IF close THEN 3 ELSE 1
  /\ closing = FALSE
  /\ posted = Len(outbox)
  /\ running = TRUE /\ accepting = TRUE /\ connection = "open"
  /\ sent = 0 /\ got = <<>> /\ wrote = <<>>

-----------------------------------------------------------------------------
(* The session thread. *)

SessionUnchanged == UNCHANGED <<peerVars, runtimeVars>>

\* A bug: the session goes on reading the queue after it wrote a close.
WritesOn(entry, next) ==
  \/ /\ connection # "shut"
     /\ wrote' = Append(wrote, entry.id) /\ session' = next
  \/ session' = "gone" /\ UNCHANGED wrote

\* A message or a close goes to the client, and nothing follows a close; a shut
\* socket, a client that went away or one too slow for the write timeout, or an
\* entry that makes no valid frame, ends the session.
Writes(entry, next) ==
  \/ /\ connection # "shut"
     /\ wrote' = Append(wrote, entry.id)
     /\ session' = IF entry = Close THEN "gone" ELSE next
  \/ session' = "gone" /\ UNCHANGED wrote

\* wait_for_websocket_ready.
SessionWaitsReady ==
  /\ session = "wait" /\ outgoing # <<>>
  /\ IF Head(outgoing) = Ready
       THEN session' = "flush" /\ UNCHANGED wrote
       ELSE Writes(Head(outgoing), "wait")
  /\ outgoing' = Tail(outgoing)
  /\ UNCHANGED <<held, incoming, sent>> /\ SessionUnchanged

\* Thirty seconds passed, or the peer is gone.
SessionGivesUp ==
  /\ session = "wait" /\ outgoing = <<>>
  /\ session' = "gone"
  /\ UNCHANGED <<held, queueVars, sent, wrote>> /\ SessionUnchanged

\* flush_websocket_outbound, one entry at a time, until the queue is empty.
SessionFlushes ==
  /\ session = "flush" /\ outgoing # <<>>
  /\ IF Head(outgoing) = Ready
       THEN UNCHANGED <<session, wrote>>
       ELSE Writes(Head(outgoing), "flush")
  /\ outgoing' = Tail(outgoing)
  /\ UNCHANGED <<held, incoming, sent>> /\ SessionUnchanged

SessionFlushed ==
  /\ session = "flush" /\ outgoing = <<>>
  /\ session' = IF peer = "gone" THEN "gone" ELSE "read"
  /\ UNCHANGED <<held, queueVars, sent, wrote>> /\ SessionUnchanged

\* read_frame: a message or a close to pass on, nothing yet, or the end.  What
\* arrived before the shutdown is still read from the buffer.
SessionReadsMessage ==
  /\ session = "read" /\ sent < MaxIn
  /\ session' = "send" /\ held' = <<Message(sent + 1)>>
  /\ sent' = sent + 1
  /\ UNCHANGED <<queueVars, wrote>> /\ SessionUnchanged

\* The close is echoed first, then passed on.
SessionReadsClose ==
  /\ session = "read"
  /\ \/ /\ connection # "shut"
        /\ wrote' = Append(wrote, 0) /\ session' = "send" /\ held' = <<Close>>
     \/ session' = "gone" /\ UNCHANGED <<wrote, held>>
  /\ UNCHANGED <<queueVars, sent>> /\ SessionUnchanged

SessionReadsNothing ==
  /\ session = "read" /\ connection # "shut"
  /\ session' = "flush"
  /\ UNCHANGED <<held, queueVars, sent, wrote>> /\ SessionUnchanged

\* A bug: an error of the shut socket counts as nothing to read.
SessionIgnoresEnd ==
  /\ session = "read"
  /\ session' = "flush"
  /\ UNCHANGED <<held, queueVars, sent, wrote>> /\ SessionUnchanged

SessionReadsEnd ==
  /\ session = "read"
  /\ session' = "gone"
  /\ UNCHANGED <<held, queueVars, sent, wrote>> /\ SessionUnchanged

\* A bug: the session reads on without looking at what its peer has queued.
SessionSendsOn ==
  /\ session = "send"
  /\ IF peer = "gone"
       THEN session' = "gone" /\ UNCHANGED incoming
       ELSE /\ Len(incoming) < Capacity
            /\ incoming' = incoming \o held
            /\ session' = IF held = <<Close>> THEN "gone" ELSE "read"
  /\ held' = <<>>
  /\ UNCHANGED <<outgoing, sent, wrote>> /\ SessionUnchanged

\* incoming.send returns: there was room, or the peer is gone.
SessionSends ==
  /\ session = "send"
  /\ IF peer = "gone"
       THEN session' = "gone" /\ UNCHANGED incoming
       ELSE /\ Len(incoming) < Capacity
            /\ incoming' = incoming \o held
            /\ session' = IF held = <<Close>> THEN "gone" ELSE "flush"
  /\ held' = <<>>
  /\ UNCHANGED <<outgoing, sent, wrote>> /\ SessionUnchanged

-----------------------------------------------------------------------------
(* Either peer sends its outbox, one entry at a time, each send blocking    *)
(* while the outgoing queue is full.                                       *)

PeerUnchanged == UNCHANGED <<session, held, runtimeVars, sent, wrote>>

\* A bug: a send into a full queue fails and is ignored.
PeerTriesSend ==
  /\ peer = "emit" /\ outbox # <<>>
  /\ peer' = IF session = "gone" THEN "gone" ELSE peer
  /\ outgoing' = IF Len(outgoing) < Capacity THEN Append(outgoing, Head(outbox))
                                            ELSE outgoing
  /\ outbox' = IF session = "gone" THEN <<>> ELSE Tail(outbox)
  /\ UNCHANGED <<incoming, posted, closing, readyState, got, made>> /\ PeerUnchanged

PeerEmits ==
  /\ peer = "emit" /\ outbox # <<>>
  /\ IF session = "gone"
       THEN peer' = "gone" /\ outbox' = <<>> /\ UNCHANGED outgoing
       ELSE /\ Len(outgoing) < Capacity
            /\ outgoing' = Append(outgoing, Head(outbox))
            /\ outbox' = Tail(outbox) /\ UNCHANGED peer
  /\ UNCHANGED <<incoming, posted, closing, readyState, got, made>> /\ PeerUnchanged

PeerEmitted ==
  /\ peer = "emit" /\ outbox = <<>>
  /\ peer' = IF closing THEN "gone" ELSE "check"
  /\ UNCHANGED <<queueVars, outbox, posted, closing, readyState, got, made>> /\ PeerUnchanged

-----------------------------------------------------------------------------
(* The worker: websocket_loop. *)

WorkerChecks ==
  /\ kind = "worker" /\ peer = "check"
  /\ peer' = IF running THEN "receive" ELSE "gone"
  /\ UNCHANGED <<queueVars, outbox, posted, closing, readyState, got, made>> /\ PeerUnchanged

\* The next event is taken, and JavaScript is called with it.
WorkerReceives ==
  /\ kind = "worker" /\ peer = "receive" /\ incoming # <<>>
  /\ incoming' = Tail(incoming)
  /\ got' = Received(Head(incoming))
  /\ closing' = (Head(incoming).type = "close")
  /\ peer' = "handle"
  /\ UNCHANGED <<outgoing, outbox, posted, readyState, made>> /\ PeerUnchanged

\* The handler and its jobs are done, and what the worker posted meanwhile is
\* taken: messages and perhaps a close.  A WebSocket that is closed hands no
\* event to the worker and lets it post nothing.
WorkerHandles ==
  /\ peer = "handle"
  /\ \E count \in 0..Burst, close \in BOOLEAN :
       /\ readyState = 3 \/ closing => count = 0 /\ ~close
       /\ made + count <= MaxOut
       /\ outbox' = Posted(made, count, close)
       /\ made' = made + count
       /\ readyState' = IF close \/ closing THEN 3 ELSE readyState
  /\ posted' = Len(outbox')
  /\ peer' = "emit"
  /\ UNCHANGED <<queueVars, closing, got>> /\ PeerUnchanged

\* The handler throws, or is interrupted because Drop has begun.
WorkerThrows ==
  /\ peer = "handle" /\ peer' = "gone"
  /\ UNCHANGED <<queueVars, outbox, posted, closing, readyState, got, made>> /\ PeerUnchanged

\* A close with a code that is not a u16 ends the loop before it is sent.
WorkerRejectsEntry ==
  /\ kind = "worker" /\ peer = "emit" /\ outbox # <<>> /\ Head(outbox) = Close
  /\ peer' = "gone" /\ outbox' = <<>>
  /\ UNCHANGED <<queueVars, posted, closing, readyState, got, made>> /\ PeerUnchanged

\* recv_timeout: a tenth of a second without an event, or the session is gone.
WorkerIdles ==
  /\ kind = "worker" /\ peer = "receive" /\ incoming = <<>>
  /\ peer' = IF session = "gone" THEN "gone" ELSE "check"
  /\ UNCHANGED <<queueVars, outbox, posted, closing, readyState, got, made>> /\ PeerUnchanged

-----------------------------------------------------------------------------
(* The development proxy: proxy_websocket. *)

\* A failing proxy tells the client with a close before it returns.
Fails == outbox' = <<Close>> /\ closing' = TRUE /\ peer' = "emit"

\* Once the runtime stops, upstream is told with a close, which may fail.
ProxyChecks ==
  /\ kind = "proxy" /\ peer = "check"
  /\ \/ /\ peer' = IF running THEN "receive" ELSE "gone"
        /\ UNCHANGED <<outbox, closing>>
     \/ ~running /\ Fails
  /\ UNCHANGED <<queueVars, posted, readyState, got, made>> /\ PeerUnchanged

\* Everything queued is written upstream before upstream is read.
ProxyDrains ==
  /\ kind = "proxy" /\ peer = "receive" /\ incoming # <<>>
  /\ incoming' = Tail(incoming)
  /\ got' = Received(Head(incoming))
  /\ \/ /\ peer' = IF Head(incoming).type = "close" THEN "gone" ELSE "receive"
        /\ UNCHANGED <<outbox, closing>>
     \/ Fails
  /\ UNCHANGED <<outgoing, posted, readyState, made>> /\ PeerUnchanged

ProxyDrained ==
  /\ kind = "proxy" /\ peer = "receive" /\ incoming = <<>>
  /\ peer' = IF session = "gone" THEN "gone" ELSE "upstream"
  /\ UNCHANGED <<queueVars, outbox, posted, closing, readyState, got, made>> /\ PeerUnchanged

\* One read of the upstream socket: a message, a close or the end, nothing,
\* or an error.
ProxyReads ==
  /\ kind = "proxy" /\ peer = "upstream"
  /\ \/ /\ made < MaxOut
        /\ made' = made + 1 /\ outbox' = <<Message(made + 1)>>
        /\ peer' = "emit" /\ UNCHANGED closing
     \/ /\ outbox' = <<Close>> /\ closing' = TRUE /\ peer' = "emit"
        /\ UNCHANGED made
     \/ peer' = "check" /\ UNCHANGED <<outbox, closing, made>>
  /\ UNCHANGED <<queueVars, posted, readyState, got>> /\ PeerUnchanged

-----------------------------------------------------------------------------
(* The runtime: suspend() or Drop, and resume(), see Gateway. *)

RuntimeUnchanged == UNCHANGED <<kind, session, held, sent, wrote, queueVars, peerVars>>

RuntimeSuspends == /\ running /\ connection = "open"
                   /\ running' = FALSE /\ connection' = "closing"
                   /\ UNCHANGED accepting /\ RuntimeUnchanged
RuntimeDrops == /\ accepting /\ accepting' = FALSE /\ running' = FALSE
                /\ connection' = IF connection = "open" THEN "closing" ELSE connection
                /\ RuntimeUnchanged
RuntimeSevers == connection = "closing" /\ connection' = "shut"
                 /\ UNCHANGED <<running, accepting>> /\ RuntimeUnchanged
RuntimeResumes == ~running /\ accepting /\ running' = TRUE
                  /\ UNCHANGED <<accepting, connection>> /\ RuntimeUnchanged

-----------------------------------------------------------------------------
SessionStep == \/ SessionWaitsReady \/ SessionFlushes \/ SessionFlushed
               \/ SessionReadsMessage \/ SessionReadsClose \/ SessionReadsNothing
               \/ SessionReadsEnd \/ SessionSends
PeerStep == \/ PeerEmits \/ PeerEmitted
            \/ WorkerChecks \/ WorkerReceives \/ WorkerRejectsEntry \/ WorkerIdles
            \/ ProxyChecks \/ ProxyDrains \/ ProxyDrained \/ ProxyReads
\* Steps of the worker's JavaScript, which takes as long as it likes.
HandlerStep == WorkerHandles \/ WorkerThrows

Next == \/ SessionStep \/ SessionGivesUp \/ PeerStep \/ HandlerStep
        \/ RuntimeSuspends \/ RuntimeDrops \/ RuntimeSevers \/ RuntimeResumes

Spec == Init /\ [][Next]_vars

(***************************************************************************)
(* Both threads run whenever they can; a wait for Ready that the peer will *)
(* not send any more ends; a runtime that stopped closes connections; and  *)
(* a handler is interrupted once Drop has begun (the interrupt handler of  *)
(* dispatcher.rs), while a suspension lets it run as long as it likes.     *)
(***************************************************************************)
FairSpec == /\ Spec
            /\ WF_vars(SessionStep) /\ WF_vars(PeerStep)
            /\ WF_vars(~accepting /\ HandlerStep)
            /\ WF_vars(peer = "gone" /\ SessionGivesUp)
            /\ WF_vars(RuntimeSevers)

-----------------------------------------------------------------------------
(* Correctness. *)

Entries(max) == [type : {"message"}, id : 1..max] \cup {Close, Ready}

\* Queues hold entries and never exceed their capacity.
TypeOK ==
  /\ kind \in Peers
  /\ session \in SessionStates /\ peer \in PeerStates
  /\ held \in Seq(Entries(MaxIn)) /\ Len(held) <= 1
  /\ incoming \in Seq(Entries(MaxIn)) /\ Len(incoming) <= Capacity
  /\ outgoing \in Seq(Entries(MaxOut)) /\ Len(outgoing) <= Capacity
  /\ outbox \in Seq(Entries(MaxOut))
  /\ posted \in 0..(Burst + 2) /\ closing \in BOOLEAN /\ readyState \in {1, 3}
  /\ running \in BOOLEAN /\ accepting \in BOOLEAN
  /\ connection \in {"open", "closing", "shut"}
  /\ sent \in 0..MaxIn /\ made \in 0..MaxOut
  /\ got \in Seq(1..MaxIn) /\ wrote \in Seq(0..MaxOut)

UpTo(n) == [i \in 1..n |-> i]

\* The messages in a queue are those numbered from + 1 .. to, in order.
Carries(queue, from, to) ==
  LET messages == {i \in DOMAIN queue : queue[i].type = "message"}
  IN  /\ {queue[i].id : i \in messages} = (from + 1)..to
      /\ \A i, j \in messages : i < j => queue[i].id < queue[j].id

\* Nothing is lost, duplicated or reordered between the client and its peer:
\* what the peer got is the beginning of what the session read, and the rest is
\* queued or held for it for as long as the peer lives, whatever became of the
\* session; and the same the other way, until a close is written.
MessagesConserved ==
  /\ \E n \in 0..sent :
       /\ got = UpTo(n)
       /\ peer # "gone" => Carries(incoming \o held, n, sent)
  /\ \E n \in 0..made :
       \/ /\ wrote = UpTo(n)
          /\ session # "gone" => Carries(outgoing \o outbox, n, made)
       \/ wrote = Append(UpTo(n), Close.id)

\* A close is the last thing the client is sent, whatever the peer posted
\* after it and whichever side closed first.
CloseIsLast == \A i \in DOMAIN wrote : wrote[i] = Close.id => i = Len(wrote)

\* The two threads wait for each other: the session to push into a full incoming
\* queue, its peer to push into a full outgoing one.
BothBlocked ==
  /\ session = "send" /\ peer = "emit" /\ outbox # <<>>
  /\ Len(incoming) = Capacity /\ Len(outgoing) = Capacity

\* They do only if the worker posted more entries while it handled one event
\* than the outgoing queue has room for, and never with the development proxy:
\* however many messages wait and whoever ends, what other events left behind
\* does not add up.
DeadlockNeedsFlood == BothBlocked => kind = "worker" /\ posted > Capacity

Ended == session = "gone" /\ peer = "gone"
HandlersReturn == WF_vars(HandlerStep)

\* Both threads leave a connection whose runtime is dropped, which is what lets
\* Drop join (Gateway assumes it of every handler); and if handlers return, one
\* that suspend() has shut down, and the thread that is left alone when the
\* other one returns, which learns of it from the queues alone.  The flood is
\* the one thing that keeps them, and it keeps them for ever.
SeveredEnds ==
  /\ ~accepting ~> (Ended \/ []BothBlocked)
  /\ HandlersReturn =>
       ((connection = "shut" \/ session = "gone" \/ peer = "gone") ~>
          (Ended \/ []BothBlocked))

\* What the documents promise: a shutdown ends every execution and is over
\* (docs/plans/tokamak-quickjs-runtime.md).
ShutdownEnds == ~accepting ~> Ended
=============================================================================
