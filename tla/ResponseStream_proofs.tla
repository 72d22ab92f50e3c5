------------------------- MODULE ResponseStream_proofs -------------------------
(***************************************************************************)
(* Proofs about ResponseStream, for every capacity of the queue, any       *)
(* number of chunks and both kinds of source.                              *)
(***************************************************************************)
EXTENDS ResponseStream, SequenceTheorems, TLAPS

-----------------------------------------------------------------------------
(* The inductive invariant. *)

\* The producer: what it sends, and what it has made of its stream.
ProducerInv ==
  /\ producer = "send" <=> chunk # None
  /\ producer \in {"check", "read"} => source = "open"
  /\ chunk > 0 => chunk = made
  /\ producer = "send" => (source = "open" <=> chunk # Failure)
  /\ producer = "send" => source # "ended"
  /\ producer \in {"drain", "gone"} => source # "open"

\* The writer: BodyStream lives as long as it, and it ends a body only when the
\* stream ended or the connection was severed.  An error is still to be taken
\* when the producer left without reaching the end.
WriterInv ==
  /\ cancelled <=> writer = "gone"
  /\ writer = "write" <=> taken # None
  /\ None \notin ToSet(queue)
  /\ writer # "gone" /\ producer \in {"drain", "gone"} =>
       source = "ended" \/ Failure \in ToSet(queue)
  /\ writer = "finish" => severed \/ (producer = "gone" /\ queue = <<>>)

\* The numbers between the last chunk written and the last one read, less the
\* one that is being written and the one that is being sent.
Taken == IF taken = None THEN Len(wrote) ELSE Len(wrote) + 1
Sent  == IF chunk > 0 THEN made - 1 ELSE made

\* While the writer lives, the queue holds the numbers in between, in order.
QueueInv ==
  writer # "gone" =>
    /\ Taken <= Sent
    /\ taken # None => taken = Taken
    /\ \A k \in (Taken + 1)..Sent : k \in ToSet(queue)
    /\ \A i \in DOMAIN queue : queue[i] > 0 => Taken < queue[i] /\ queue[i] <= Sent
    /\ \A i, j \in DOMAIN queue :
         i < j /\ queue[i] > 0 /\ queue[j] > 0 => queue[i] < queue[j]

\* The body: its chunks in order, and the terminator after all of them.
BodyInv ==
  /\ Len(wrote) <= made + 1
  /\ \A i \in DOMAIN wrote : wrote[i] # Terminator => wrote[i] = i /\ i <= made
  /\ \A i \in DOMAIN wrote : wrote[i] = Terminator =>
       writer = "gone" /\ producer = "gone" /\ source = "ended" /\ i = made + 1

IInv == TypeOK /\ ProducerInv /\ WriterInv /\ QueueInv /\ BodyInv

-----------------------------------------------------------------------------
(* Lemmas. *)

\* What the proofs use of the constants.
LEMMA Constants ==
  /\ MaxChunks \in Nat /\ Capacity \in Nat /\ Capacity > 0
  /\ Sources \subseteq {"worker", "host"}
  /\ \A n \in 0..MaxChunks : n \in Item
  /\ None \in Item /\ Failure \in Item /\ Empty \in Item
  BY StreamBounds, SourceKinds DEF Item, None, Failure, Empty

\* What a queue is after a send, and after a receive.
LEMMA AppendIsSeq ==
  ASSUME NEW S, NEW q \in Seq(S), NEW x \in S
  PROVE  /\ Append(q, x) \in Seq(S) /\ Len(Append(q, x)) = Len(q) + 1
         /\ Append(q, x) # <<>>
         /\ \A i \in 1..Len(q) : Append(q, x)[i] = q[i]
         /\ Append(q, x)[Len(q) + 1] = x
         /\ DOMAIN q = 1..Len(q) /\ DOMAIN Append(q, x) = 1..(Len(q) + 1)
         /\ ToSet(Append(q, x)) = ToSet(q) \cup {x}
<1>1. /\ Append(q, x) \in Seq(S) /\ Len(Append(q, x)) = Len(q) + 1
      /\ \A i \in 1..Len(q) : Append(q, x)[i] = q[i]
      /\ Append(q, x)[Len(q) + 1] = x
      /\ DOMAIN q = 1..Len(q) /\ DOMAIN Append(q, x) = 1..(Len(q) + 1)
      /\ Append(q, x) # <<>> /\ Len(q) \in Nat
  OBVIOUS
<1>2. ToSet(Append(q, x)) = ToSet(q) \cup {x}
  BY <1>1 DEF ToSet
<1> QED
  BY <1>1, <1>2

LEMMA TailIsSeq ==
  ASSUME NEW S, NEW q \in Seq(S), q # <<>>
  PROVE  /\ Head(q) \in S /\ Head(q) = q[1] /\ Tail(q) \in Seq(S)
         /\ Len(q) \in Nat /\ Len(q) > 0 /\ Len(Tail(q)) = Len(q) - 1
         /\ DOMAIN q = 1..Len(q) /\ DOMAIN Tail(q) = 1..(Len(q) - 1)
         /\ \A i \in 1..(Len(q) - 1) : Tail(q)[i] = q[i + 1]
         /\ ToSet(q) = {Head(q)} \cup ToSet(Tail(q))
<1>1. /\ Head(q) \in S /\ Head(q) = q[1] /\ Tail(q) \in Seq(S)
      /\ Len(q) \in Nat /\ Len(q) > 0 /\ Len(Tail(q)) = Len(q) - 1
      /\ DOMAIN q = 1..Len(q) /\ DOMAIN Tail(q) = 1..(Len(q) - 1)
      /\ \A i \in 1..(Len(q) - 1) : Tail(q)[i] = q[i + 1]
  OBVIOUS
<1>2. ToSet(q) = {Head(q)} \cup ToSet(Tail(q))
  <2>1. ASSUME NEW i \in DOMAIN q PROVE q[i] \in {Head(q)} \cup ToSet(Tail(q))
    <3>1. CASE i = 1
      BY <1>1, <3>1
    <3>2. CASE i # 1
      <4>1. i - 1 \in DOMAIN Tail(q) /\ Tail(q)[i - 1] = q[i]
        BY <1>1, <3>2
      <4> QED
        BY <4>1 DEF ToSet
    <3> QED
      BY <3>1, <3>2
  <2>2. ASSUME NEW i \in DOMAIN Tail(q) PROVE Tail(q)[i] \in ToSet(q)
    BY <1>1 DEF ToSet
  <2>3. Head(q) \in ToSet(q)
    BY <1>1 DEF ToSet
  <2> QED
    BY <2>1, <2>2, <2>3 DEF ToSet
<1> QED
  BY <1>1, <1>2

-----------------------------------------------------------------------------
(* The invariant holds initially and every step preserves it. *)

\* A response starts in a state of the invariant.
LEMMA InitIInv == Init => IInv
<1> SUFFICES ASSUME Init PROVE IInv
  OBVIOUS
<1>1. cancelled \in BOOLEAN /\ severed \in BOOLEAN /\ begun \in BOOLEAN
      /\ (cancelled <=> writer = "gone")
  BY DEF Init
<1>2. queue \in Seq(Item) /\ Len(queue) = 0 /\ wrote \in Seq(0..MaxChunks) /\ Len(wrote) = 0
      /\ DOMAIN queue = {} /\ DOMAIN wrote = {}
  BY DEF Init
<1>3. TypeOK
  BY <1>1, <1>2, Constants DEF Init, TypeOK, ProducerStates, WriterStates, None
<1>4. ProducerInv /\ WriterInv
  BY <1>1, <1>2 DEF Init, ProducerInv, WriterInv, None, Failure, ToSet
<1>5. QueueInv
  BY <1>2 DEF Init, QueueInv, Taken, Sent, None
<1>6. BodyInv
  BY <1>2 DEF Init, BodyInv
<1> QED
  BY <1>3, <1>4, <1>5, <1>6 DEF IInv

\* The producer's steps that leave the queue alone preserve the invariant.
LEMMA ReadingPreserves ==
  ASSUME IInv,
         \/ ProducerChecks \/ ProducerReads \/ ProducerReadsEmpty
         \/ ProducerReadsNothing \/ ProducerDrains
  PROVE  IInv'
<1> USE DEF IInv, ProducerUnchanged, writerVars
<1>1. /\ queue' = queue /\ UNCHANGED <<kind, writer, taken, wrote, cancelled, severed,
                                        client, begun>>
  BY DEF ProducerChecks, ProducerReads, ProducerReadsChunk, ProducerReadsEnd,
         ProducerReadsError, ProducerReadsEmpty, ProducerReadsNothing, ProducerDrains
<1>2. CASE ProducerChecks
  <2>1. chunk = None /\ chunk' = None /\ made' = made /\ producer \notin {"drain", "gone"}
    BY <1>2 DEF ProducerChecks, ProducerInv
  <2>2. TypeOK'
    BY <1>1, <1>2 DEF ProducerChecks, TypeOK, Cancels, Leaving, ProducerStates
  <2>3. ProducerInv'
    BY <1>2, <2>1 DEF ProducerChecks, ProducerInv, Cancels, Leaving, None, Failure
  <2>4. WriterInv'
    BY <1>1, <1>2 DEF ProducerChecks, WriterInv, Cancels, Leaving
  <2>5. QueueInv' /\ BodyInv'
    BY <1>1, <1>2, <2>1 DEF QueueInv, BodyInv, Taken, Sent
  <2> QED
    BY <2>2, <2>3, <2>4, <2>5
<1>3. CASE ProducerReadsChunk
  <2>1. /\ producer = "read" /\ producer' = "send" /\ chunk = None /\ source = "open"
        /\ chunk' = made' /\ made' = made + 1 /\ chunk' > 0 /\ source' = source
        /\ made' \in 0..MaxChunks /\ made \in Nat /\ Len(wrote) \in Nat
    BY <1>3, Constants DEF ProducerReadsChunk, ProducerInv, TypeOK
  <2>2. TypeOK'
    BY <1>1, <2>1, Constants DEF TypeOK, ProducerStates
  <2>3. ProducerInv'
    BY <2>1 DEF ProducerInv, None, Failure
  <2>4. WriterInv'
    BY <1>1, <2>1 DEF WriterInv
  <2>5. Sent' = Sent /\ Taken' = Taken
    BY <1>1, <2>1 DEF Sent, Taken, None
  <2>6. QueueInv'
    BY <1>1, <2>5 DEF QueueInv
  <2>7. BodyInv'
    BY <1>1, <2>1 DEF BodyInv, TypeOK
  <2> QED
    BY <2>2, <2>3, <2>4, <2>6, <2>7
<1>4. CASE ProducerReadsEnd \/ ProducerReadsNothing
  <2>1. /\ producer = "read" /\ chunk' = chunk /\ chunk = None /\ made' = made
        /\ source = "open"
        /\ \/ producer' \in {"drain", "gone"} /\ source' = "ended"
           \/ producer' = "check" /\ source' = source
    BY <1>4 DEF ProducerReadsEnd, ProducerReadsNothing, ProducerInv, Leaving
  <2>2. TypeOK'
    BY <1>1, <2>1 DEF TypeOK, ProducerStates
  <2>3. ProducerInv' /\ WriterInv'
    BY <1>1, <2>1 DEF ProducerInv, WriterInv, None
  <2>4. QueueInv' /\ BodyInv'
    BY <1>1, <2>1 DEF QueueInv, BodyInv, Taken, Sent
  <2> QED
    BY <2>2, <2>3, <2>4
<1>5. CASE ProducerReadsError \/ ProducerReadsEmpty
  <2>1. /\ producer = "read" /\ producer' = "send" /\ chunk = None /\ made' = made
        /\ source = "open"
        /\ \/ chunk' = Failure /\ source' \in {"failed", "abandoned"}
           \/ chunk' = Empty /\ source' = source
    BY <1>5 DEF ProducerReadsError, ProducerReadsEmpty, ProducerInv
  <2>2. TypeOK'
    BY <1>1, <2>1, Constants DEF TypeOK, ProducerStates
  <2>3. ProducerInv' /\ WriterInv'
    BY <1>1, <2>1 DEF ProducerInv, WriterInv, None, Failure, Empty
  <2>4. Sent' = Sent /\ Taken' = Taken
    BY <1>1, <2>1 DEF Sent, Taken, None, Failure, Empty
  <2>5. QueueInv' /\ BodyInv'
    BY <1>1, <2>1, <2>4 DEF QueueInv, BodyInv
  <2> QED
    BY <2>2, <2>3, <2>5
<1>6. CASE ProducerDrains
  <2>1. /\ producer = "drain" /\ producer' = "gone" /\ UNCHANGED <<source, chunk, made>>
    BY <1>6 DEF ProducerDrains
  <2>2. TypeOK' /\ ProducerInv' /\ WriterInv'
    BY <1>1, <2>1 DEF TypeOK, ProducerStates, ProducerInv, WriterInv
  <2>3. QueueInv' /\ BodyInv'
    BY <1>1, <2>1 DEF QueueInv, BodyInv, Taken, Sent
  <2> QED
    BY <2>2, <2>3
<1> QED
  BY <1>2, <1>3, <1>4, <1>5, <1>6 DEF ProducerReads

\* A send preserves the invariant: the number sent is the last one read, so it
\* comes after all the numbers that are queued.
LEMMA SendingPreserves ==
  ASSUME IInv, ProducerSends
  PROVE  IInv'
<1> USE DEF IInv
<1>1. /\ UNCHANGED <<kind, writer, taken, wrote, cancelled, severed, client, begun, made>>
      /\ producer = "send" /\ chunk # None /\ chunk' = None
  BY DEF ProducerSends, ProducerUnchanged, writerVars, ProducerInv
<1>2. CASE writer = "gone"
  <2>1. /\ queue' = queue /\ producer' \in {"drain", "gone"} /\ source' # "open"
        /\ source' = IF source = "open" THEN "cancelled" ELSE source
    BY <1>2 DEF ProducerSends, Cancels, Leaving
  <2>2. TypeOK'
    BY <1>1, <2>1, Constants DEF TypeOK, ProducerStates
  <2>3. ProducerInv' /\ WriterInv' /\ QueueInv'
    BY <1>1, <1>2, <2>1 DEF ProducerInv, WriterInv, QueueInv, None, Failure
  <2>4. BodyInv'
    BY <1>1, <2>1 DEF BodyInv
  <2> QED
    BY <2>2, <2>3, <2>4
<1>3. CASE writer # "gone"
  <2>1. /\ queue' = Append(queue, chunk) /\ Len(queue) < Capacity /\ source' = source
        /\ producer' \in IF chunk = Failure THEN {"drain", "gone"} ELSE {"check"}
    BY <1>3 DEF ProducerSends, Leaving
  <2>2. /\ queue \in Seq(Item) /\ chunk \in Item /\ made \in Nat /\ Len(wrote) \in Nat
        /\ Len(queue) \in Nat /\ \A x \in Item : x \in Int /\ Taken \in Nat
        /\ taken \in Nat
    BY Constants DEF TypeOK, Item, Taken
  <2>3. /\ queue' \in Seq(Item) /\ Len(queue') = Len(queue) + 1
        /\ \A i \in 1..Len(queue) : queue'[i] = queue[i] /\ queue[i] \in Int
        /\ queue'[Len(queue) + 1] = chunk
        /\ DOMAIN queue = 1..Len(queue) /\ DOMAIN queue' = 1..(Len(queue) + 1)
        /\ ToSet(queue') = ToSet(queue) \cup {chunk} /\ queue' # <<>>
    BY <2>1, <2>2, AppendIsSeq
  <2>4. TypeOK'
    BY <1>1, <2>1, <2>3, Constants DEF TypeOK, ProducerStates
  <2>5. ProducerInv'
    BY <1>1, <1>3, <2>1 DEF ProducerInv, None, Failure
  <2>6. WriterInv'
    BY <1>1, <2>1, <2>3 DEF WriterInv
  <2>7. Taken' = Taken /\ Sent' = made
    BY <1>1 DEF Taken, Sent, None
  <2>8. QueueInv'
    <3>1. CASE chunk > 0
      <4>1. chunk = made /\ Sent = made - 1
        BY <3>1 DEF ProducerInv, Sent
      <4>2. Taken' <= Sent' /\ (taken' # None => taken' = Taken')
        BY <1>1, <1>3, <2>2, <2>7, <4>1 DEF QueueInv
      <4>3. \A k \in (Taken + 1)..made : k \in ToSet(queue')
        BY <1>3, <2>2, <2>3, <4>1 DEF QueueInv
      <4>4. \A i \in DOMAIN queue' : queue'[i] > 0 => Taken < queue'[i] /\ queue'[i] <= made
        BY <1>3, <2>2, <2>3, <4>1 DEF QueueInv
      <4>5. \A i, j \in DOMAIN queue' :
              i < j /\ queue'[i] > 0 /\ queue'[j] > 0 => queue'[i] < queue'[j]
        BY <1>3, <2>2, <2>3, <4>1 DEF QueueInv
      <4> QED
        BY <1>1, <2>7, <4>2, <4>3, <4>4, <4>5 DEF QueueInv
    <3>2. CASE ~(chunk > 0)
      <4>1. Sent = made
        BY <3>2 DEF Sent
      <4>2. \A k \in (Taken + 1)..made : k \in ToSet(queue')
        BY <1>3, <2>3, <4>1 DEF QueueInv
      <4>3. \A i \in DOMAIN queue' : queue'[i] > 0 => Taken < queue'[i] /\ queue'[i] <= made
        BY <1>3, <2>3, <3>2, <4>1 DEF QueueInv
      <4>4. \A i, j \in DOMAIN queue' :
              i < j /\ queue'[i] > 0 /\ queue'[j] > 0 => queue'[i] < queue'[j]
        <5> SUFFICES ASSUME NEW i \in DOMAIN queue', NEW j \in DOMAIN queue',
                            i < j, queue'[i] > 0, queue'[j] > 0
                     PROVE  queue'[i] < queue'[j]
          OBVIOUS
        <5>1. j # Len(queue) + 1 /\ i \in 1..Len(queue) /\ j \in 1..Len(queue)
          BY <2>2, <2>3, <3>2
        <5> QED
          BY <1>3, <2>3, <5>1 DEF QueueInv
      <4> QED
        BY <1>1, <1>3, <2>7, <4>1, <4>2, <4>3, <4>4 DEF QueueInv
    <3> QED
      BY <3>1, <3>2
  <2>9. BodyInv'
    BY <1>1, <1>3, <2>1 DEF BodyInv
  <2> QED
    BY <2>4, <2>5, <2>6, <2>8, <2>9
<1> QED
  BY <1>2, <1>3

\* A step by which the writer returns without writing preserves the invariant.
LEMMA ReturningPreserves ==
  ASSUME IInv, writer # "gone", Returns, WriterUnchanged, wrote' = wrote,
         queue' = queue \/ (queue # <<>> /\ queue' = Tail(queue))
  PROVE  IInv'
<1> USE DEF IInv
<1>1. /\ UNCHANGED <<kind, producer, source, chunk, made, wrote, severed, client, begun>>
      /\ writer' = "gone" /\ taken' = None /\ cancelled' = TRUE
  BY DEF Returns, WriterUnchanged, producerVars
<1>2. /\ queue' \in Seq(Item) /\ Len(queue') <= Capacity
      /\ ToSet(queue') \subseteq ToSet(queue)
  <2>1. queue \in Seq(Item) /\ Len(queue) <= Capacity /\ Capacity \in Nat
    BY Constants DEF TypeOK
  <2>2. CASE queue' = queue
    BY <2>1, <2>2
  <2>3. CASE queue # <<>> /\ queue' = Tail(queue)
    BY <2>1, <2>3, TailIsSeq
  <2> QED
    BY <2>2, <2>3
<1>3. cancelled' \in BOOLEAN /\ cancelled'
  BY <1>1
<1>4. TypeOK'
  BY <1>1, <1>2, <1>3, Constants DEF TypeOK, WriterStates, None
<1>5. ProducerInv' /\ WriterInv' /\ QueueInv'
  BY <1>1, <1>2, <1>3 DEF ProducerInv, WriterInv, QueueInv
<1>6. BodyInv'
  BY <1>1 DEF BodyInv
<1> QED
  BY <1>4, <1>5, <1>6

\* A receive preserves the invariant: the first number in the queue is the one
\* after the last number written.
LEMMA TakingPreserves ==
  ASSUME IInv, WriterTakes
  PROVE  IInv'
<1> USE DEF IInv
<1>1. /\ UNCHANGED <<kind, producer, source, chunk, made, wrote, severed, client, begun>>
      /\ writer = "receive" /\ queue # <<>> /\ queue' = Tail(queue) /\ taken = None
  BY DEF WriterTakes, WriterUnchanged, producerVars, WriterInv
<1>2. /\ Head(queue) \in Item /\ Head(queue) = queue[1] /\ queue' \in Seq(Item)
      /\ Len(queue) \in Nat /\ Len(queue) > 0 /\ Len(queue') = Len(queue) - 1
      /\ DOMAIN queue = 1..Len(queue) /\ DOMAIN queue' = 1..(Len(queue) - 1)
      /\ \A i \in 1..(Len(queue) - 1) : queue'[i] = queue[i + 1]
      /\ ToSet(queue) = {Head(queue)} \cup ToSet(queue')
  BY <1>1, TailIsSeq DEF TypeOK
<1>3. /\ made \in Nat /\ made <= MaxChunks /\ Len(wrote) \in Nat /\ Taken = Len(wrote)
      /\ Sent \in Int /\ \A i \in DOMAIN queue : queue[i] \in Int
      /\ Len(queue') <= Capacity
  BY <1>1, <1>2, Constants DEF TypeOK, Taken, Sent, Item
<1>4. CASE Head(queue) = Failure
  BY <1>1, <1>4, ReturningPreserves DEF WriterTakes, Failure, Empty
<1>5. CASE Head(queue) = Empty
  <2>1. UNCHANGED <<writer, taken, cancelled>>
    BY <1>5 DEF WriterTakes, Failure, Empty
  <2>2. TypeOK'
    BY <1>1, <1>2, <1>3, <2>1 DEF TypeOK
  <2>3. ProducerInv' /\ BodyInv'
    BY <1>1, <2>1 DEF ProducerInv, BodyInv
  <2>4. WriterInv'
    BY <1>1, <1>2, <1>5, <2>1 DEF WriterInv, Failure, Empty
  <2>5. Taken' = Taken /\ Sent' = Sent
    BY <1>1, <2>1 DEF Taken, Sent
  <2>6. \A k \in (Taken + 1)..Sent : k \in ToSet(queue')
    BY <1>1, <1>2, <1>3, <1>5 DEF QueueInv, Empty
  <2>7. \A i \in DOMAIN queue' : queue'[i] > 0 => Taken < queue'[i] /\ queue'[i] <= Sent
    BY <1>1, <1>2 DEF QueueInv
  <2>8. \A i, j \in DOMAIN queue' :
          i < j /\ queue'[i] > 0 /\ queue'[j] > 0 => queue'[i] < queue'[j]
    BY <1>1, <1>2 DEF QueueInv
  <2>9. QueueInv'
    BY <1>1, <2>1, <2>5, <2>6, <2>7, <2>8 DEF QueueInv
  <2> QED
    BY <2>2, <2>3, <2>4, <2>9
<1>6. CASE Head(queue) \notin {Failure, Empty}
  <2>1. writer' = "write" /\ taken' = Head(queue) /\ cancelled' = cancelled
    BY <1>6 DEF WriterTakes, Failure, Empty
  <2>2. Head(queue) > 0 /\ Head(queue) <= MaxChunks
    <3>1. Head(queue) # None
      BY <1>2 DEF WriterInv
    <3> QED
      BY <1>2, <1>6, <3>1, Constants DEF Item, None, Failure, Empty
  <2>3. Taken < Head(queue) /\ Head(queue) <= Sent
    BY <1>1, <1>2, <2>2 DEF QueueInv
  <2>4. Head(queue) = Taken + 1
    <3>1. PICK i \in DOMAIN queue : queue[i] = Taken + 1
      <4>1. Taken + 1 \in (Taken + 1)..Sent
        BY <1>2, <1>3, <2>3
      <4>2. Taken + 1 \in ToSet(queue)
        BY <1>1, <4>1 DEF QueueInv
      <4> QED
        BY <4>2 DEF ToSet
    <3>2. i # 1 => Head(queue) < queue[i]
      BY <1>1, <1>2, <1>3, <2>2, <3>1 DEF QueueInv
    <3> QED
      BY <1>2, <1>3, <2>3, <3>1, <3>2
  <2>5. taken' \in 0..MaxChunks /\ taken' # None
    BY <1>2, <2>1, <2>2, Constants DEF Item, None
  <2>6. TypeOK'
    BY <1>1, <1>2, <1>3, <2>1, <2>5 DEF TypeOK, WriterStates
  <2>7. ProducerInv'
    BY <1>1 DEF ProducerInv
  <2>8. WriterInv'
    BY <1>1, <1>2, <1>6, <2>1, <2>5 DEF WriterInv
  <2>9. BodyInv'
    BY <1>1, <2>1 DEF BodyInv
  <2>10. Taken' = Taken + 1 /\ Sent' = Sent
    BY <1>1, <1>3, <2>5 DEF Taken, Sent
  <2>11. \A k \in (Taken + 2)..Sent : k \in ToSet(queue')
    <3> SUFFICES ASSUME NEW k \in (Taken + 2)..Sent PROVE k \in ToSet(queue')
      OBVIOUS
    <3>1. k \in (Taken + 1)..Sent /\ k # Head(queue)
      BY <1>2, <1>3, <2>4
    <3> QED
      BY <1>1, <1>2, <3>1 DEF QueueInv
  <2>12. \A i \in DOMAIN queue' :
           queue'[i] > 0 => Taken + 1 < queue'[i] /\ queue'[i] <= Sent
    <3> SUFFICES ASSUME NEW i \in DOMAIN queue', queue'[i] > 0
                 PROVE  Taken + 1 < queue'[i] /\ queue'[i] <= Sent
      OBVIOUS
    <3>1. i \in 1..(Len(queue) - 1) /\ queue'[i] = queue[i + 1] /\ i + 1 \in DOMAIN queue
          /\ 1 \in DOMAIN queue /\ 1 < i + 1
      BY <1>2
    <3>2. queue[1] < queue[i + 1] /\ queue[i + 1] <= Sent
      BY <1>1, <1>2, <2>2, <3>1 DEF QueueInv
    <3> QED
      BY <1>2, <2>4, <3>1, <3>2
  <2>13. \A i, j \in DOMAIN queue' :
           i < j /\ queue'[i] > 0 /\ queue'[j] > 0 => queue'[i] < queue'[j]
    BY <1>1, <1>2 DEF QueueInv
  <2>14. Taken' <= Sent' /\ taken' = Taken'
    BY <1>2, <1>3, <2>1, <2>3, <2>4, <2>10
  <2>15. (Taken + 1) + 1 = Taken + 2
    BY <1>3
  <2>16. QueueInv'
    BY <2>10, <2>11, <2>12, <2>13, <2>14, <2>15 DEF QueueInv
  <2> QED
    BY <2>6, <2>7, <2>8, <2>9, <2>16
<1> QED
  BY <1>4, <1>5, <1>6

\* The writer's other steps preserve the invariant.  A body is terminated when
\* everything that was read is written.
LEMMA WritingPreserves ==
  ASSUME IInv,
         WriterDisconnects \/ WriterPolls \/ WriterFails \/ WriterEnds
           \/ WriterWrites \/ WriterTerminates
  PROVE  IInv'
<1> USE DEF IInv
<1>1. CASE \/ WriterFails \/ WriterEnds
           \/ WriterPolls /\ Returns
  BY <1>1, ReturningPreserves DEF WriterFails, WriterEnds, WriterPolls
<1>2. CASE WriterDisconnects \/ (WriterPolls /\ severed /\ writer' = "finish"
                                  /\ UNCHANGED <<taken, cancelled>>)
  <2>1. /\ UNCHANGED <<kind, producer, source, chunk, made, queue, taken, wrote, cancelled,
                       severed, client, begun>>
        /\ writer = "receive" /\ writer' = "finish"
        /\ severed \/ (producer = "gone" /\ queue = <<>>)
    BY <1>2 DEF WriterDisconnects, WriterPolls, WriterUnchanged, producerVars
  <2>2. TypeOK' /\ ProducerInv' /\ WriterInv'
    BY <2>1 DEF TypeOK, ProducerInv, WriterInv, WriterStates
  <2>3. QueueInv' /\ BodyInv'
    BY <2>1 DEF QueueInv, BodyInv, Taken, Sent
  <2> QED
    BY <2>2, <2>3
<1>3. CASE WriterWrites
  <2>1. /\ UNCHANGED <<kind, producer, source, chunk, made, queue, cancelled, severed,
                       client, begun>>
        /\ writer = "write" /\ writer' = "receive" /\ taken' = None
        /\ wrote' = Append(wrote, taken)
    BY <1>3 DEF WriterWrites, WriterUnchanged, producerVars
  <2>2. /\ wrote \in Seq(0..MaxChunks) /\ taken \in 0..MaxChunks /\ taken # None
        /\ Len(wrote) \in Nat /\ made \in Nat /\ chunk \in Int
    BY <2>1, Constants DEF TypeOK, WriterInv, Item
  <2>3. taken = Len(wrote) + 1 /\ Taken = Len(wrote) + 1 /\ Taken <= Sent
    BY <2>1, <2>2 DEF QueueInv, Taken
  <2>4. Sent <= made
    BY <2>2 DEF Sent
  <2>5. /\ wrote' \in Seq(0..MaxChunks) /\ Len(wrote') = Len(wrote) + 1
        /\ \A i \in 1..Len(wrote) : wrote'[i] = wrote[i]
        /\ wrote'[Len(wrote) + 1] = taken
        /\ DOMAIN wrote = 1..Len(wrote) /\ DOMAIN wrote' = 1..(Len(wrote) + 1)
    BY <2>1, <2>2, AppendIsSeq
  <2>6. TypeOK'
    BY <2>1, <2>5, Constants DEF TypeOK, WriterStates, None
  <2>7. ProducerInv' /\ WriterInv'
    BY <2>1 DEF ProducerInv, WriterInv
  <2>8. Taken' = Taken /\ Sent' = Sent
    BY <2>1, <2>3, <2>5 DEF Taken, Sent
  <2>9. QueueInv'
    BY <2>1, <2>8 DEF QueueInv
  <2>10. made \in Nat /\ Len(wrote) + 1 <= made
    <3>1. Sent \in Int
      BY <2>2 DEF Sent
    <3> QED
      BY <2>2, <2>3, <2>4, <3>1
  <2>11. BodyInv'
    <3>1. \A i \in DOMAIN wrote' : wrote'[i] = i /\ i <= made /\ wrote'[i] # Terminator
      <4> SUFFICES ASSUME NEW i \in DOMAIN wrote'
                   PROVE  wrote'[i] = i /\ i <= made /\ wrote'[i] # Terminator
        OBVIOUS
      <4>1. CASE i = Len(wrote) + 1
        BY <2>2, <2>3, <2>5, <2>10, <4>1 DEF Terminator
      <4>2. CASE i \in DOMAIN wrote
        <5>1. wrote[i] # Terminator
          BY <2>1, <4>2 DEF BodyInv
        <5> QED
          BY <2>5, <4>2, <5>1 DEF BodyInv
      <4> QED
        BY <2>2, <2>5, <4>1, <4>2
    <3>2. Len(wrote') <= made + 1
      BY <2>2, <2>5, <2>10
    <3> QED
      BY <2>1, <3>1, <3>2 DEF BodyInv
  <2> QED
    BY <2>6, <2>7, <2>9, <2>11
<1>4. CASE WriterTerminates
  <2>1. /\ UNCHANGED <<kind, producer, source, chunk, made, queue, severed, client, begun>>
        /\ writer = "finish" /\ ~severed /\ writer' = "gone" /\ taken' = None
        /\ wrote' = Append(wrote, Terminator) /\ cancelled' = TRUE
    BY <1>4 DEF WriterTerminates, Returns, WriterUnchanged, producerVars
  <2>2. producer = "gone" /\ queue = <<>> /\ taken = None /\ chunk = None
    BY <2>1 DEF WriterInv, ProducerInv
  <2>3. source = "ended"
    <3>1. ToSet(queue) = {}
      BY <2>2 DEF ToSet
    <3> QED
      BY <2>1, <2>2, <3>1 DEF WriterInv
  <2>4. /\ wrote \in Seq(0..MaxChunks) /\ Terminator \in 0..MaxChunks
        /\ Len(wrote) \in Nat /\ made \in Nat
    BY Constants DEF TypeOK, Terminator
  <2>5. Len(wrote) = made
    <3>1. Taken = Len(wrote) /\ Sent = made
      BY <2>2 DEF Taken, Sent, None
    <3>2. Taken <= Sent /\ \A k \in (Taken + 1)..Sent : k \in ToSet(queue)
      BY <2>1 DEF QueueInv
    <3>3. ToSet(queue) = {}
      BY <2>2 DEF ToSet
    <3>4. CASE Len(wrote) < made
      <4>1. Taken + 1 \in (Taken + 1)..Sent
        BY <2>4, <3>1, <3>4
      <4> QED
        BY <3>2, <3>3, <4>1
    <3> QED
      BY <2>4, <3>1, <3>2, <3>4
  <2>6. /\ wrote' \in Seq(0..MaxChunks) /\ Len(wrote') = Len(wrote) + 1
        /\ \A i \in 1..Len(wrote) : wrote'[i] = wrote[i]
        /\ wrote'[Len(wrote) + 1] = Terminator
        /\ DOMAIN wrote = 1..Len(wrote) /\ DOMAIN wrote' = 1..(Len(wrote) + 1)
    BY <2>1, <2>4, AppendIsSeq
  <2>7. cancelled' \in BOOLEAN /\ cancelled'
    BY <2>1
  <2>8. TypeOK'
    BY <2>1, <2>6, <2>7, Constants DEF TypeOK, WriterStates, None
  <2>9. ProducerInv' /\ WriterInv' /\ QueueInv'
    BY <2>1, <2>7 DEF ProducerInv, WriterInv, QueueInv
  <2>10. BodyInv'
    BY <2>1, <2>2, <2>3, <2>4, <2>5, <2>6 DEF BodyInv
  <2> QED
    BY <2>8, <2>9, <2>10
<1> QED
  BY <1>1, <1>2, <1>3, <1>4 DEF WriterPolls

\* A client that leaves and a connection that is severed preserve the invariant.
LEMMA EnvironmentPreserves ==
  ASSUME IInv, ClientLeaves \/ ConnectionSevered
  PROVE  IInv'
<1>1. /\ UNCHANGED <<kind, producer, source, chunk, made, queue, writer, taken, wrote,
                     cancelled, begun>>
      /\ client' \in {"open", "left", "notified"}
      /\ severed' \in BOOLEAN /\ (severed => severed')
  BY DEF ClientLeaves, ConnectionSevered, EnvironmentUnchanged, producerVars, writerVars,
         IInv, TypeOK
<1>2. TypeOK' /\ ProducerInv' /\ WriterInv'
  BY <1>1 DEF IInv, TypeOK, ProducerInv, WriterInv
<1>3. QueueInv' /\ BodyInv'
  BY <1>1 DEF IInv, QueueInv, BodyInv, Taken, Sent
<1> QED
  BY <1>2, <1>3 DEF IInv

\* Every state of a behaviour satisfies the invariant.
THEOREM Invariance == Spec => []IInv
<1>1. IInv /\ UNCHANGED vars => IInv'
  BY DEF IInv, TypeOK, ProducerInv, WriterInv, QueueInv, BodyInv, Taken, Sent,
         vars, producerVars, writerVars
<1>2. IInv /\ [Next]_vars => IInv'
  BY <1>1, ReadingPreserves, SendingPreserves, TakingPreserves, WritingPreserves,
     EnvironmentPreserves DEF Next, ProducerStep, WriterStep
<1> QED
  BY InitIInv, <1>2, PTL DEF Spec

-----------------------------------------------------------------------------
(* Theorems. *)

\* The variables keep to their values, and the queue to its capacity.
THEOREM TypeCorrect == Spec => []TypeOK
<1>1. IInv => TypeOK
  BY DEF IInv
<1> QED
  BY Invariance, <1>1, PTL

\* The pool thread never leaves a stream open behind it (dispatcher.rs,
\* dev_proxy.rs).
THEOREM StreamIsReleased == Spec => []SourceIsReleased
<1>1. IInv => SourceIsReleased
  BY DEF IInv, ProducerInv, SourceIsReleased
<1> QED
  BY Invariance, <1>1, PTL

\* What the body is: the first chunks that were read and perhaps the terminator.
LEMMA BodyIsChunks ==
  ASSUME IInv
  PROVE  \/ /\ Terminator \notin ToSet(wrote)
            /\ wrote = Chunks(Len(wrote)) /\ Len(wrote) \in 0..made
         \/ /\ writer = "gone" /\ source = "ended"
            /\ wrote = Append(Chunks(made), Terminator) /\ Terminator \in ToSet(wrote)
<1> DEFINE length == Len(wrote)
<1>0. wrote \in Seq(0..MaxChunks)
  BY DEF IInv, TypeOK
<1>1. length \in Nat /\ DOMAIN wrote = 1..length
  BY <1>0
<1>2. made \in Nat /\ made <= MaxChunks /\ length <= made + 1
  BY Constants DEF IInv, TypeOK, BodyInv
<1> HIDE DEF length
<1>3. CASE Terminator \notin ToSet(wrote)
  <2>1. \A i \in DOMAIN wrote : wrote[i] = i /\ i <= made
    BY <1>3 DEF IInv, BodyInv, ToSet
  <2>2. wrote = Chunks(length)
    BY <1>0, <1>1, <2>1 DEF Chunks
  <2>3. length <= made
    BY <1>1, <1>2, <2>1
  <2>4. length \in 0..made
    BY <1>1, <1>2, <2>3
  <2> QED
    BY <1>3, <2>2, <2>4, Zenon DEF length
<1>4. CASE Terminator \in ToSet(wrote)
  <2>1. PICK t \in DOMAIN wrote : wrote[t] = Terminator
    BY <1>4 DEF ToSet
  <2>2. writer = "gone" /\ source = "ended" /\ t = made + 1
    BY <2>1 DEF IInv, BodyInv
  <2>3. length = made + 1
    BY <1>1, <1>2, <2>1, <2>2
  <2>4. \A i \in 1..made : wrote[i] = i
    <3> SUFFICES ASSUME NEW i \in 1..made PROVE wrote[i] = i
      OBVIOUS
    <3>1. i \in DOMAIN wrote /\ i # made + 1
      BY <1>1, <1>2, <2>3
    <3> QED
      BY <3>1 DEF IInv, BodyInv
  <2>5. /\ Chunks(made) \in Seq(0..MaxChunks) /\ Len(Chunks(made)) = made
        /\ \A i \in 1..made : Chunks(made)[i] = i
    BY <1>2, Constants DEF Chunks
  <2>6. Terminator \in 0..MaxChunks
    BY Constants DEF Terminator
  <2> DEFINE whole == Append(Chunks(made), Terminator)
  <2>7. /\ whole \in Seq(0..MaxChunks) /\ Len(whole) = made + 1
        /\ \A i \in 1..made : whole[i] = Chunks(made)[i]
        /\ whole[made + 1] = Terminator
    BY <2>5, <2>6, AppendIsSeq
  <2> HIDE DEF whole
  <2>8. \A i \in 1..length : wrote[i] = whole[i]
    BY <1>2, <2>1, <2>2, <2>3, <2>4, <2>5, <2>7
  <2>9. wrote = whole
    BY <1>0, <2>3, <2>7, <2>8, SeqEqual DEF length
  <2> QED
    BY <1>4, <2>2, <2>9 DEF whole
<1> QED
  BY <1>3, <1>4

\* A body that carries its terminator is the whole of a stream that ended by
\* itself (write_response_inner, transport.rs).
THEOREM TerminatorIsEarned == Spec => []TerminatedIsWhole
<1>1. IInv => TerminatedIsWhole
  BY BodyIsChunks DEF TerminatedIsWhole
<1> QED
  BY Invariance, <1>1, PTL

\* No chunk is lost, doubled or overtaken on its way from the worker's stream to
\* the client, whatever the capacity of the queue between the two threads.
THEOREM NoChunkIsLost == Spec => []ChunksConserved
<1>1. ASSUME IInv PROVE ChunksConserved
  <2>1. CASE writer = "gone"
    <3>1. made \in Nat
      BY <1>1, Constants DEF IInv, TypeOK
    <3> QED
      BY <1>1, <2>1, <3>1, BodyIsChunks DEF ChunksConserved
  <2>2. CASE writer # "gone"
    <3> DEFINE n == Len(wrote)
    <3>1. wrote = Chunks(n) /\ n \in 0..made
      BY <1>1, <2>2, BodyIsChunks
    <3>2. /\ queue \in Seq(Item) /\ chunk \in Item /\ taken \in Item /\ taken \in 0..MaxChunks
          /\ made \in 0..MaxChunks /\ n \in Nat /\ MaxChunks \in Nat
          /\ \A x \in Item : x \in Int
      BY <1>1, <3>1, Constants DEF IInv, TypeOK, Item
    <3> HIDE DEF n
    <3>3. /\ Len(queue) \in Nat /\ DOMAIN queue = 1..Len(queue)
          /\ DOMAIN Pipe = 1..(Len(queue) + 2) /\ Pipe[1] = taken
          /\ \A i \in 1..Len(queue) : Pipe[i + 1] = queue[i] /\ queue[i] \in Item
          /\ Pipe[Len(queue) + 2] = chunk
      BY <3>2 DEF Pipe
    <3>4. /\ Taken \in n..(n + 1) /\ Sent \in Int /\ Taken <= Sent
          /\ taken > 0 => taken = n + 1 /\ Taken = n + 1
          /\ ~(taken > 0) => Taken = n
          /\ chunk > 0 => chunk = made /\ Sent = made - 1
          /\ ~(chunk > 0) => Sent = made
      BY <1>1, <2>2, <3>2 DEF IInv, QueueInv, ProducerInv, Taken, Sent, None, n
    <3>5. /\ \A k \in (Taken + 1)..Sent : k \in ToSet(queue)
          /\ \A i \in DOMAIN queue : queue[i] > 0 => Taken < queue[i] /\ queue[i] <= Sent
          /\ \A i, j \in DOMAIN queue :
               i < j /\ queue[i] > 0 /\ queue[j] > 0 => queue[i] < queue[j]
      BY <1>1, <2>2 DEF IInv, QueueInv
    <3>6. ToSet(Pipe) = {taken, chunk} \cup ToSet(queue)
      <4>1. ASSUME NEW i \in DOMAIN Pipe PROVE Pipe[i] \in {taken, chunk} \cup ToSet(queue)
        <5>1. CASE i = 1 \/ i = Len(queue) + 2
          BY <3>3, <5>1
        <5>2. CASE ~(i = 1 \/ i = Len(queue) + 2)
          <6>1. i - 1 \in 1..Len(queue) /\ (i - 1) + 1 = i
            BY <3>3, <5>2
          <6>2. Pipe[i] = queue[i - 1]
            BY <3>3, <6>1
          <6> QED
            BY <3>3, <6>1, <6>2 DEF ToSet
        <5> QED
          BY <5>1, <5>2
      <4>2. ASSUME NEW i \in DOMAIN queue PROVE queue[i] \in ToSet(Pipe)
        <5>1. i + 1 \in DOMAIN Pipe /\ Pipe[i + 1] = queue[i]
          BY <3>3
        <5> QED
          BY <5>1 DEF ToSet
      <4>3. taken \in ToSet(Pipe) /\ chunk \in ToSet(Pipe)
        <5>1. 1 \in DOMAIN Pipe /\ Len(queue) + 2 \in DOMAIN Pipe
          BY <3>3
        <5> QED
          BY <3>3, <5>1 DEF ToSet
      <4> QED
        BY <4>1, <4>2, <4>3 DEF ToSet
    <3>7. ASSUME NEW k \in ToSet(queue), k > 0 PROVE k \in Int /\ Taken < k /\ k <= Sent
      BY <3>2, <3>3, <3>5, <3>7 DEF ToSet
    <3>8. ToSet(Pipe) \cap (1..MaxChunks) = (n + 1)..made
      <4>1. ASSUME NEW k \in (n + 1)..made PROVE k \in ToSet(Pipe) \cap (1..MaxChunks)
        <5>1. k \in 1..MaxChunks
          BY <3>2, <4>1
        <5>2. k = taken \/ k = chunk \/ k \in (Taken + 1)..Sent
          BY <3>2, <3>4, <4>1
        <5> QED
          BY <3>5, <3>6, <5>1, <5>2
      <4>2. ASSUME NEW k \in ToSet(Pipe) \cap (1..MaxChunks) PROVE k \in (n + 1)..made
        <5>1. CASE k \in ToSet(queue)
          BY <3>2, <3>4, <3>7, <5>1
        <5>2. CASE k \in {taken, chunk}
          BY <3>2, <3>4, <5>2
        <5> QED
          BY <3>6, <5>1, <5>2
      <4> QED
        BY <4>1, <4>2
    <3>9. \A i, j \in DOMAIN Pipe : i < j /\ Pipe[i] > 0 /\ Pipe[j] > 0 => Pipe[i] < Pipe[j]
      <4> SUFFICES ASSUME NEW i \in DOMAIN Pipe, NEW j \in DOMAIN Pipe,
                          i < j, Pipe[i] > 0, Pipe[j] > 0
                   PROVE  Pipe[i] < Pipe[j]
        OBVIOUS
      <4>1. \/ i = 1
            \/ i - 1 \in DOMAIN queue /\ Pipe[i] = queue[i - 1]
        BY <3>3
      <4>2. \/ j = Len(queue) + 2
            \/ j - 1 \in DOMAIN queue /\ Pipe[j] = queue[j - 1]
        BY <3>3
      <4>3. CASE i = 1
        <5>1. Pipe[i] = taken /\ taken = n + 1 /\ Taken = n + 1
          BY <3>2, <3>3, <3>4, <4>3
        <5>2. CASE j = Len(queue) + 2
          BY <3>2, <3>3, <3>4, <5>1, <5>2
        <5>3. CASE j - 1 \in DOMAIN queue /\ Pipe[j] = queue[j - 1]
          BY <3>2, <3>3, <3>5, <5>1, <5>3
        <5> QED
          BY <4>2, <5>2, <5>3
      <4>4. CASE i - 1 \in DOMAIN queue /\ Pipe[i] = queue[i - 1]
        <5>1. CASE j = Len(queue) + 2
          <6>1. Pipe[j] = chunk /\ Sent = made - 1 /\ chunk = made
            BY <3>3, <3>4, <5>1
          <6>2. queue[i - 1] <= Sent /\ queue[i - 1] \in Int
            BY <3>2, <3>3, <3>5, <4>4
          <6> QED
            BY <3>2, <4>4, <6>1, <6>2
        <5>2. CASE j - 1 \in DOMAIN queue /\ Pipe[j] = queue[j - 1]
          <6>1. i - 1 < j - 1
            BY <3>3
          <6> QED
            BY <3>5, <4>4, <5>2, <6>1
        <5> QED
          BY <4>2, <5>1, <5>2
      <4> QED
        BY <4>1, <4>3, <4>4
    <3> QED
      BY <3>1, <3>8, <3>9 DEF ChunksConserved
  <2> QED
    BY <2>1, <2>2
<1> QED
  BY Invariance, <1>1, PTL

=============================================================================
