--------------------------- MODULE HostRequest_proofs ---------------------------
(***************************************************************************)
(* Proofs about HostRequest, for all requests, answers and session tokens. *)
(***************************************************************************)
EXTENDS HostRequest, SequenceTheorems, FiniteSetTheorems, TLAPS

Safe(method) == method \in GETs \cup HEADs

-----------------------------------------------------------------------------
(* The inductive invariant. *)

\* The job starts once the request was read, and the server knows nothing of it
\* before.
StageInv ==
  /\ connection \in {"connect", "handshake", "request"} => job = "none"
  /\ job \in {"none", "queued", "entered"} => served = <<>>

\* At most two requests are remembered.
ServedInv ==
  \/ served = <<>>
  \/ Len(served) = 1 /\ served = <<served[1]>>
  \/ Len(served) = 2 /\ served = <<served[1], served[2]>>

\* What the server got is the request that was read; one that is not safe ended
\* the attempts.
RetryInv ==
  served # <<>> =>
    /\ served[1].method = parsed.method
    /\ ~Safe(parsed.method) => job \in {"pump", "done"} /\ Len(served) = 1

IInv == StageInv /\ ServedInv /\ RetryInv

-----------------------------------------------------------------------------
(* Lemmas. *)

\* The relay changes lines only.
LEMMA MethodIsKept == rewrite_request(Written).method = parsed.method
  BY DEF rewrite_request, Written, write_request

\* An attempt ends in an answer, or in another attempt of a request that is safe.
LEMMA ForwardsEnds ==
  ASSUME NEW r, NEW wire, NEW end, Forwards(r, wire, end)
  PROVE  /\ job' \in {"pump", "done"} \/ (job' = "pause" /\ Safe(parsed.method))
         /\ UNCHANGED <<connection, parsed>>
  BY DEF Forwards, ForwardsWebSocket, ForwardsHttp, Errs, can_retry_http, Safe

\* A second element is appended to one.
LEMMA TwoPieces ==
  ASSUME NEW a, NEW b
  PROVE  Append(<<a>>, b) = <<a, b>> /\ <<a>>[1] = a
<1> DEFINE S == {a, b}
<1>1. a \in S /\ b \in S
  OBVIOUS
<1> HIDE DEF S
<1>2. <<a>> \in Seq(S) /\ Len(<<a>>) = 1 /\ <<a>>[1] = a
  BY <1>1
<1>3. <<a, b>> \in Seq(S) /\ Len(<<a, b>>) = 2 /\ <<a, b>>[1] = a /\ <<a, b>>[2] = b
  BY <1>1
<1>4. /\ Append(<<a>>, b) \in Seq(S) /\ Len(Append(<<a>>, b)) = 2
      /\ Append(<<a>>, b)[1] = a /\ Append(<<a>>, b)[2] = b
  BY <1>1, <1>2, AppendProperties
<1>5. \A i \in 1..Len(<<a, b>>) : <<a, b>>[i] = Append(<<a>>, b)[i]
  BY <1>3, <1>4
<1> QED
  BY <1>2, <1>3, <1>4, <1>5, SeqEqual

\* Every other step leaves what the server got alone, and so does it with the
\* request.
LEMMA OthersPreserve ==
  ASSUME IInv, UNCHANGED <<served, parsed>>,
         \/ job' = job
         \/ job \in {"queued", "entered", "pump"} /\ job' = "done"
         \/ job = "queued" /\ job' = "entered"
         \/ job \in {"entered", "connect", "secure", "pause"}
            /\ job' \in {"connect", "secure", "attempt"}
         \/ job \in {"connect", "secure", "attempt"} /\ job' \in {"pump", "done"}
         \/ job \in {"connect", "secure", "attempt"} /\ job' = "pause" /\ Safe(parsed.method),
         connection' \in {"connect", "handshake", "request"} =>
           connection \in {"connect", "handshake", "request"}
  PROVE  IInv'
<1>1. StageInv'
  BY DEF IInv, StageInv
<1>2. ServedInv'
  BY DEF IInv, ServedInv
<1>3. RetryInv'
  BY DEF IInv, StageInv, RetryInv
<1> QED
  BY <1>1, <1>2, <1>3 DEF IInv

\* The server gets a request.
LEMMA AnswerPreserves ==
  ASSUME IInv, AttemptIsAnswered
  PROVE  IInv'
<1> DEFINE new == rewrite_request(Written)
<1>1. /\ job = "attempt"
      /\ served' = IF Len(served) = 2 THEN served ELSE Append(served, new)
  BY DEF AttemptIsAnswered
<1>2. /\ job' \in {"pump", "done"} \/ (job' = "pause" /\ Safe(parsed.method))
      /\ UNCHANGED <<connection, parsed>>
  BY ForwardsEnds DEF AttemptIsAnswered
<1>3. new.method = parsed.method
  BY MethodIsKept
<1> HIDE DEF new
<1>4. StageInv'
  BY <1>1, <1>2 DEF IInv, StageInv
<1>5. CASE served = <<>>
  <2>1. served' = <<new>> /\ Len(served') = 1 /\ served'[1] = new
    BY <1>1, <1>5
  <2> QED
    BY <1>2, <1>3, <1>4, <2>1 DEF IInv, ServedInv, RetryInv
<1>6. CASE Len(served) = 1 /\ served = <<served[1]>>
  <2>1. served' = <<served[1], new>>
    <3>1. served' = Append(served, new)
      BY <1>1, <1>6
    <3>2. PICK first : served = <<first>>
      BY <1>6
    <3>3. Append(<<first>>, new) = <<first, new>> /\ <<first>>[1] = first
      BY TwoPieces
    <3>4. served' = <<first, new>> /\ served[1] = first
      BY <3>1, <3>2, <3>3, Zenon
    <3> QED
      BY <3>4, Zenon
  <2>2. Len(served') = 2 /\ served'[1] = served[1] /\ served' # <<>> /\ served' = <<served'[1], served'[2]>>
    BY <2>1
  <2>3. served[1].method = parsed.method /\ Safe(parsed.method)
    BY <1>1, <1>6 DEF IInv, RetryInv
  <2> QED
    BY <1>2, <1>4, <2>2, <2>3 DEF IInv, ServedInv, RetryInv
<1>7. CASE Len(served) = 2 /\ served = <<served[1], served[2]>>
  <2>1. served' = served
    BY <1>1, <1>7
  <2>2. served[1].method = parsed.method /\ Safe(parsed.method)
    BY <1>1, <1>7 DEF IInv, RetryInv
  <2> QED
    BY <1>2, <1>4, <1>7, <2>1, <2>2 DEF IInv, ServedInv, RetryInv
<1> QED
  BY <1>5, <1>6, <1>7 DEF IInv, ServedInv

-----------------------------------------------------------------------------
(* Theorems. *)

\* The inductive invariant holds in every state.
THEOREM Invariance == Spec => []IInv
<1>1. Init => IInv
  BY DEF Init, IInv, StageInv, ServedInv, RetryInv
<1>2. ASSUME IInv, [Next]_vars PROVE IInv'
  <2>1. CASE ConnectionStep
    <3>1. CASE Reads
      <4>1. served = <<>> /\ served' = <<>>
        BY <1>2, <3>1 DEF IInv, StageInv, Reads
      <4>2. StageInv'
        BY <1>2, <3>1, <4>1 DEF IInv, StageInv, Reads
      <4> QED
        BY <4>1, <4>2 DEF IInv, ServedInv, RetryInv
    <3>2. CASE Connects \/ Handshakes \/ Waits \/ Writes \/ Streams \/ EndsStream \/ ConnectionFails
      <4>1. /\ UNCHANGED <<served, parsed, job>>
            /\ connection' \in {"connect", "handshake", "request"} =>
                 connection \in {"connect", "handshake", "request"}
        BY <3>2 DEF Connects, Handshakes, Waits, Writes, Streams, EndsStream, ConnectionFails, jobVars
      <4> QED
        BY <1>2, <4>1, OthersPreserve
    <3> QED
      BY <2>1, <3>1, <3>2 DEF ConnectionStep
  <2>2. CASE JobStep \/ SecureStep
    <3>1. CASE \/ Enters \/ HandleChecks \/ Connected \/ Secured \/ Pauses \/ PumpIsCancelled \/ PumpsBytes \/ Pumps
      <4>1. UNCHANGED <<served, parsed, connection>>
        BY <3>1 DEF Enters, HandleChecks, Connected, Secured, JobUnchanged, Pauses, PumpIsCancelled, PumpsBytes, Pumps, PumpUnchanged
      <4>2. \/ job' = job
            \/ job \in {"queued", "entered", "pump"} /\ job' = "done"
            \/ job = "queued" /\ job' = "entered"
            \/ job \in {"entered", "connect", "secure", "pause"}
               /\ job' \in {"connect", "secure", "attempt"}
        BY <3>1 DEF Enters, HandleChecks, Connected, Secured, JobUnchanged, Pauses, PumpIsCancelled, PumpsBytes, Pumps, PumpsChunk, PumpsEnd
      <4> QED
        BY <1>2, <4>1, <4>2, OthersPreserve
    <3>2. CASE SecureFails \/ AttemptFails \/ AttemptIsRejected
      <4>1. job \in {"connect", "secure", "attempt"} /\ served' = served
        BY <3>2 DEF SecureFails, AttemptFails, AttemptIsRejected
      <4>2. PICK r, wire, end : Forwards(r, wire, end)
        BY <3>2 DEF SecureFails, AttemptFails, AttemptIsRejected
      <4>3. /\ job' \in {"pump", "done"} \/ (job' = "pause" /\ Safe(parsed.method))
            /\ UNCHANGED <<connection, parsed>>
        BY <4>2, ForwardsEnds
      <4> QED
        BY <1>2, <4>1, <4>3, OthersPreserve
    <3>3. CASE AttemptIsAnswered
      BY <1>2, <3>3, AnswerPreserves
    <3> QED
      BY <2>2, <3>1, <3>2, <3>3 DEF JobStep, SecureStep
  <2>3. CASE Late \/ RuntimeStep \/ Goes \/ UNCHANGED vars
    <3>1. UNCHANGED <<served, parsed, job, connection>>
      BY <2>3 DEF Late, RuntimeStep, Suspends, Resumes, Stops, RuntimeUnchanged, Goes, vars, jobVars
    <3> QED
      BY <1>2, <3>1, OthersPreserve
  <2> QED
    BY <1>2, <2>1, <2>2, <2>3 DEF Next
<1> QED
  BY <1>1, <1>2, PTL DEF Spec

\* A request that is neither GET nor HEAD reaches the server once at most, for
\* every answer and every end of the connection (can_retry_http in dev_proxy.rs).
THEOREM UnsafeIsSentOnce == Spec => []UnsafeOnce
<1>1. ASSUME IInv PROVE UnsafeOnce
  <2>1. SUFFICES ASSUME Len(served) > 1 PROVE served[1].method \in GETs \cup HEADs
    BY DEF UnsafeOnce
  <2>2. served # <<>> /\ Len(served) # 1
    BY <2>1
  <2> QED
    BY <1>1, <2>2 DEF IInv, RetryInv, Safe
<1> QED
  BY <1>1, Invariance, PTL

-----------------------------------------------------------------------------
(* Sequences that are put together of parts. *)

\* Induction over the natural numbers, for a set.
LEMMA SetInduction ==
  ASSUME NEW T, 0 \in T, \A n \in Nat : n \in T => n + 1 \in T
  PROVE \A n \in Nat : n \in T
<1> SUFFICES ASSUME NEW n \in Nat, n \notin T PROVE FALSE
  OBVIOUS
<1> DEFINE S == {k \in 0 .. n : k \in T}
           f == [k \in S |-> k + 1]
<1>1. /\ IsFiniteSet(S) /\ IsFiniteSet(S \ {0}) /\ Cardinality(S) \in Nat
      /\ Cardinality(S \ {0}) = Cardinality(S) - 1
  <2>1. IsFiniteSet(0 .. n) BY FS_Interval
  <2>2. IsFiniteSet(S) BY <2>1, FS_Subset
  <2> HIDE DEF S
  <2>3. 0 \in S BY DEF S
  <2> QED BY <2>2, <2>3, FS_RemoveElement, FS_CardinalityType
<1>2. f \in [S -> S \ {0}]
  <2>1. ASSUME NEW k \in S PROVE k + 1 \in S \ {0}
    <3>1. k # n /\ k \in 0 .. n OBVIOUS
    <3> QED BY <3>1
  <2> QED BY <2>1
<1>3. \E x, y \in S : x # y /\ f[x] = f[y]
  <2> HIDE DEF S, f
  <2>1. Cardinality(S \ {0}) < Cardinality(S) BY <1>1
  <2> QED BY <1>1, <1>2, <2>1, FS_PigeonHole
<1> QED BY <1>3

\* What FlattenSeq computes, part by part.
Flattens(f, seqs) == f = [i \in 1 .. Len(seqs) |-> IF i = 1 THEN seqs[i] ELSE f[i - 1] \o seqs[i]]

\* A sequence begins another one.
Begins(s, t) == /\ Len(s) \in Nat /\ Len(t) \in Nat /\ Len(s) <= Len(t)
                /\ \A i \in 1 .. Len(s) : s[i] = t[i]

\* Only one function does, and begins what a longer sequence gives.
LEMMA FlattensOnce ==
  ASSUME NEW s, NEW t, Begins(s, t), NEW f, Flattens(f, s), NEW g, Flattens(g, t)
  PROVE  \A i \in 1 .. Len(s) : f[i] = g[i]
<1> DEFINE n == Len(s)
           m == Len(t)
<1>0. n \in Nat /\ m \in Nat /\ n <= m /\ \A i \in 1 .. n : s[i] = t[i]
  BY DEF Begins
<1> DEFINE T == {k \in Nat : k \in 1 .. n => f[k] = g[k]}
<1>1. \A i \in 1 .. n : f[i] = IF i = 1 THEN s[i] ELSE f[i - 1] \o s[i]
  BY DEF Flattens
<1>2. ASSUME NEW i \in 1 .. n PROVE g[i] = IF i = 1 THEN s[i] ELSE g[i - 1] \o s[i]
  <2>1. i \in 1 .. m /\ s[i] = t[i]
    BY <1>0
  <2>2. g[i] = IF i = 1 THEN t[i] ELSE g[i - 1] \o t[i]
    BY <2>1 DEF Flattens
  <2> QED BY <2>1, <2>2
<1>3. 0 \in T
  OBVIOUS
<1>4. ASSUME NEW k \in Nat, k \in T PROVE k + 1 \in T
  <2>1. CASE k + 1 \notin 1 .. n
    BY <2>1
  <2>2. CASE k + 1 \in 1 .. n /\ k = 0
    BY <1>1, <1>2, <2>2
  <2>3. CASE k + 1 \in 1 .. n /\ k # 0
    <3>1. k \in 1 .. n /\ (k + 1) - 1 = k /\ k + 1 # 1 BY <2>3
    <3>2. f[k + 1] = f[k] \o s[k + 1] /\ g[k + 1] = g[k] \o s[k + 1]
      BY <1>1, <1>2, <2>3, <3>1
    <3>3. f[k] = g[k] BY <1>4, <3>1
    <3>4. f[k + 1] = g[k + 1] BY <3>2, <3>3, Zenon
    <3> QED BY <3>4
  <2> QED BY <2>1, <2>2, <2>3
<1> HIDE DEF T
<1>5. \A k \in Nat : k \in T
  BY <1>3, <1>4, SetInduction
<1> QED BY <1>5 DEF T

\* One does, and gives sequences.
LEMMA FlattensThere ==
  ASSUME NEW S, NEW seqs \in Seq(Seq(S))
  PROVE  \E f \in [1 .. Len(seqs) -> Seq(S)] : Flattens(f, seqs)
<1> DEFINE Up(n) == 1 .. n
           Does(f, n) == f = [i \in 1 .. n |-> IF i = 1 THEN seqs[i] ELSE f[i - 1] \o seqs[i]]
           T == {n \in Nat : n <= Len(seqs) => \E f \in [1 .. n -> Seq(S)] : Does(f, n)}
<1>1. 0 \in T
  <2> DEFINE e == [i \in 1 .. 0 |-> <<>>]
  <2>1. e \in [1 .. 0 -> Seq(S)] /\ Does(e, 0)
    OBVIOUS
  <2> QED BY <2>1
<1>2. ASSUME NEW n \in Nat, n \in T PROVE n + 1 \in T
  <2>1. SUFFICES ASSUME n + 1 <= Len(seqs)
                 PROVE  \E g \in [1 .. n + 1 -> Seq(S)] : Does(g, n + 1)
    <3> HIDE DEF Does
    <3> QED OBVIOUS
  <2>2. Len(seqs) \in Nat /\ n <= Len(seqs)
    BY <2>1
  <2>3. PICK f \in [1 .. n -> Seq(S)] : Does(f, n)
    BY <1>2, <2>2
  <2>4. \A i \in 1 .. n + 1 : seqs[i] \in Seq(S)
    BY <2>1, <2>2
  <2> DEFINE g == [i \in 1 .. n + 1 |-> IF i \in 1 .. n THEN f[i]
                                         ELSE IF i = 1 THEN seqs[i] ELSE f[i - 1] \o seqs[i]]
  <2>5. ASSUME NEW i \in 1 .. n + 1
        PROVE  /\ g[i] \in Seq(S)
               /\ g[i] = IF i = 1 THEN seqs[i] ELSE g[i - 1] \o seqs[i]
    <3>1. CASE i \in 1 .. n
      <4>1. g[i] = f[i] /\ f[i] \in Seq(S) BY <3>1
      <4>2. f[i] = IF i = 1 THEN seqs[i] ELSE f[i - 1] \o seqs[i]
        <5> HIDE DEF g
        <5> QED BY <2>3, <3>1
      <4>3. i # 1 => i - 1 \in 1 .. n BY <3>1
      <4>4. i # 1 => g[i - 1] = f[i - 1] BY <4>3
      <4> HIDE DEF g
      <4> QED BY <4>1, <4>2, <4>4
    <3>2. CASE i \notin 1 .. n /\ i = 1
      <4>1. g[i] = seqs[i] BY <3>2
      <4> QED BY <2>4, <3>2, <4>1
    <3>3. CASE i \notin 1 .. n /\ i # 1
      <4>1. i - 1 \in 1 .. n BY <3>3
      <4>2. g[i] = f[i - 1] \o seqs[i] BY <3>3
      <4>5. i - 1 \in 1 .. n + 1 BY <4>1
      <4>6. g[i - 1] = f[i - 1] BY <4>1, <4>5
      <4>3. f[i - 1] \in Seq(S) /\ seqs[i] \in Seq(S) BY <2>4, <4>1
      <4> HIDE DEF g
      <4>4. f[i - 1] \o seqs[i] \in Seq(S) BY <4>3, ConcatProperties
      <4> QED BY <3>3, <4>2, <4>4, <4>6
    <3> QED BY <3>1, <3>2, <3>3
  <2>6. g \in [1 .. n + 1 -> Seq(S)]
    BY <2>5
  <2>7. Does(g, n + 1)
    <3>1. g = [i \in 1 .. n + 1 |-> g[i]] OBVIOUS
    <3> HIDE DEF g
    <3> QED BY <2>5, <3>1
  <2> HIDE DEF g, Does
  <2> QED BY <2>6, <2>7
<1>3. \A n \in Nat : n \in T
  <2> HIDE DEF T
  <2> QED BY <1>1, <1>2, SetInduction
<1>4. Len(seqs) \in Nat
  OBVIOUS
<1>5. \E f \in [1 .. Len(seqs) -> Seq(S)] : Does(f, Len(seqs))
  <2> HIDE DEF Does
  <2>1. Len(seqs) \in T /\ Len(seqs) <= Len(seqs) BY <1>3, <1>4
  <2> QED BY <2>1
<1> QED BY <1>5 DEF Flattens

\* FlattenSeq is what they give at the end.
LEMMA FlattenIs ==
  ASSUME NEW S, NEW seqs \in Seq(Seq(S)), seqs # <<>>, NEW f, Flattens(f, seqs)
  PROVE  FlattenSeq(seqs) = f[Len(seqs)]
<1> DEFINE g == CHOOSE h : h = [i \in 1 .. Len(seqs) |->
                                 IF i = 1 THEN seqs[i] ELSE h[i - 1] \o seqs[i]]
<1>1. Len(seqs) \in Nat \ {0}
  OBVIOUS
<1>2. FlattenSeq(seqs) = g[Len(seqs)]
  BY <1>1 DEF FlattenSeq
<1>3. g = [i \in 1 .. Len(seqs) |-> IF i = 1 THEN seqs[i] ELSE g[i - 1] \o seqs[i]]
  <2>1. \E h : h = [i \in 1 .. Len(seqs) |-> IF i = 1 THEN seqs[i] ELSE h[i - 1] \o seqs[i]]
    BY Zenon DEF Flattens
  <2> QED BY <2>1, Zenon
<1> HIDE DEF g
<1>4. Flattens(g, seqs)
  BY <1>3 DEF Flattens
<1>5. \A i \in 1 .. Len(seqs) : g[i] = f[i]
  <2>1. Begins(seqs, seqs) BY <1>1 DEF Begins
  <2> QED BY <1>4, <2>1, FlattensOnce
<1> QED BY <1>1, <1>2, <1>5

\* The parts one after the other.
LEMMA FlattenEmpty == FlattenSeq(<<>>) = <<>>
BY DEF FlattenSeq

\* They are a sequence.
LEMMA FlattenType ==
  ASSUME NEW S, NEW seqs \in Seq(Seq(S))
  PROVE  FlattenSeq(seqs) \in Seq(S)
<1>1. CASE seqs = <<>>
  BY <1>1, FlattenEmpty, EmptySeq, Zenon
<1>2. CASE seqs # <<>>
  <2>1. PICK f \in [1 .. Len(seqs) -> Seq(S)] : Flattens(f, seqs)
    BY FlattensThere
  <2>2. FlattenSeq(seqs) = f[Len(seqs)]
    BY <1>2, <2>1, FlattenIs
  <2>3. Len(seqs) \in 1 .. Len(seqs)
    BY <1>2
  <2> QED BY <2>1, <2>2, <2>3
<1> QED BY <1>1, <1>2

\* One more part is appended.
LEMMA FlattenAppend ==
  ASSUME NEW S, NEW seqs \in Seq(Seq(S)), NEW last \in Seq(S)
  PROVE  FlattenSeq(Append(seqs, last)) = FlattenSeq(seqs) \o last
<1>1. PICK more : more = Append(seqs, last)
  OBVIOUS
<1>2. PICK n : n = Len(seqs)
  OBVIOUS
<1>10. n \in Nat
  BY <1>2
<1>11. more \in Seq(Seq(S)) /\ Len(more) = n + 1
  BY <1>1, <1>2, AppendProperties
<1>12. more[n + 1] = last /\ \A i \in 1 .. n : seqs[i] = more[i]
  BY <1>1, <1>2, AppendProperties
<1>3. /\ more \in Seq(Seq(S)) /\ n \in Nat /\ Len(more) = n + 1 /\ more[n + 1] = last
      /\ \A i \in 1 .. n : seqs[i] = more[i]
  BY <1>10, <1>11, <1>12
<1>4. more # <<>>
  BY <1>3
<1>5. PICK g \in [1 .. Len(more) -> Seq(S)] : Flattens(g, more)
  BY <1>3, FlattensThere
<1>6. FlattenSeq(more) = g[n + 1]
  BY <1>3, <1>4, <1>5, FlattenIs
<1>7. g[n + 1] = IF n + 1 = 1 THEN last ELSE g[n] \o last
  <2>1. n + 1 \in 1 .. Len(more) /\ (n + 1) - 1 = n BY <1>10, <1>11
  <2> QED BY <1>3, <1>5, <2>1 DEF Flattens
<1>8. CASE n = 0
  <2>1. seqs = <<>> BY <1>2, <1>8, EmptySeq
  <2>2. FlattenSeq(more) = last BY <1>6, <1>7, <1>8
  <2>3. FlattenSeq(seqs) \o last = last BY <2>1, FlattenEmpty, ConcatEmptySeq, Zenon
  <2> QED BY <1>1, <2>2, <2>3
<1>9. CASE n # 0
  <2>1. PICK f \in [1 .. Len(seqs) -> Seq(S)] : Flattens(f, seqs)
    BY FlattensThere
  <2>2. seqs # <<>> BY <1>2, <1>9
  <2>3. FlattenSeq(seqs) = f[n]
    BY <1>2, <2>1, <2>2, FlattenIs
  <2>4. \A i \in 1 .. n : f[i] = g[i]
    <3>1. Len(seqs) = n /\ Len(more) = n + 1 /\ n <= n + 1 BY <1>2, <1>10, <1>11
    <3>2. Begins(seqs, more) BY <1>10, <1>12, <3>1 DEF Begins
    <3>3. Flattens(f, seqs) /\ Flattens(g, more) BY <1>5, <2>1
    <3>4. \A i \in 1 .. Len(seqs) : f[i] = g[i]
      <4> HIDE DEF Flattens, Begins
      <4>1. \A ff, gg : Flattens(ff, seqs) /\ Flattens(gg, more) =>
                       \A i \in 1 .. Len(seqs) : ff[i] = gg[i]
        BY <3>2, FlattensOnce
      <4> QED BY <3>3, <4>1
    <3> QED BY <3>1, <3>4
  <2>5. n \in 1 .. n /\ n + 1 # 1 BY <1>3, <1>9
  <2> QED BY <1>1, <1>6, <1>7, <2>3, <2>4, <2>5
<1> QED BY <1>8, <1>9

-----------------------------------------------------------------------------
(* What is on the wire, piece by piece. *)

\* The content of one piece.
BytesOf(piece) == IF piece.kind = "last" THEN <<>> ELSE piece.bytes

\* The content of the first pieces.
Part(wire, n) == Content(SubSeq(wire, 1, n))

\* A piece is of one of three kinds, and its content is bytes.
LEMMA PieceType ==
  ASSUME NEW p \in Pieces
  PROVE  BytesOf(p) \in Seq(Byte) /\ p.kind \in {"data", "chunk", "last"}
<1>1. <<>> \in Seq(Byte)
  BY EmptySeq
<1>2. CASE p \in [kind : {"data"}, bytes : Seq(Byte)]
  BY <1>2 DEF BytesOf
<1>3. CASE p \in [kind : {"chunk"}, bytes : Seq(Byte), closed : BOOLEAN]
  BY <1>3 DEF BytesOf
<1>4. CASE p \in [kind : {"last"}, lines : Nat]
  BY <1>1, <1>4 DEF BytesOf
<1> QED
  BY <1>2, <1>3, <1>4 DEF Pieces

\* The parts of the content.
LEMMA ContentIs ==
  ASSUME NEW w \in Seq(Pieces)
  PROVE  /\ Content(w) = FlattenSeq([i \in DOMAIN w |-> BytesOf(w[i])])
         /\ [i \in DOMAIN w |-> BytesOf(w[i])] \in Seq(Seq(Byte))
         /\ Len([i \in DOMAIN w |-> BytesOf(w[i])]) = Len(w)
         /\ Content(w) \in Seq(Byte)
<1> DEFINE f == [i \in DOMAIN w |-> BytesOf(w[i])]
<1>1. DOMAIN w = 1 .. Len(w) /\ Len(w) \in Nat /\ \A i \in 1 .. Len(w) : w[i] \in Pieces
  BY LenProperties, ElementOfSeq
<1>2. \A i \in 1 .. Len(w) : f[i] \in Seq(Byte)
  BY <1>1, PieceType
<1>3. f \in [1 .. Len(w) -> Seq(Byte)]
  BY <1>1, <1>2
<1>4. f \in Seq(Seq(Byte)) /\ Len(f) = Len(w)
  <2> HIDE DEF f
  <2> QED BY <1>1, <1>3
<1>5. Content(w) = FlattenSeq(f)
  BY DEF Content, BytesOf
<1> QED
  BY <1>4, <1>5, FlattenType

\* Nothing has no content.
LEMMA ContentEmpty == Content(<<>>) = <<>>
<1>1. [i \in DOMAIN <<>> |-> BytesOf(<<>>[i])] = <<>>
  OBVIOUS
<1>2. <<>> \in Seq(Pieces)
  BY EmptySeq
<1> QED
  BY <1>1, <1>2, ContentIs, FlattenEmpty, Zenon

\* One more piece adds its bytes.
LEMMA ContentAppend ==
  ASSUME NEW w \in Seq(Pieces), NEW p \in Pieces
  PROVE  Content(Append(w, p)) = Content(w) \o BytesOf(p)
<1>1. PICK more : more = Append(w, p)
  OBVIOUS
<1>2. /\ more \in Seq(Pieces) /\ Len(more) = Len(w) + 1 /\ more[Len(w) + 1] = p
      /\ \A i \in 1 .. Len(w) : more[i] = w[i]
  BY <1>1, AppendProperties
<1>3. Len(w) \in Nat /\ DOMAIN w = 1 .. Len(w) /\ DOMAIN more = 1 .. Len(more)
  BY <1>2, LenProperties
<1> DEFINE f == [i \in DOMAIN w |-> BytesOf(w[i])]
           g == [i \in DOMAIN more |-> BytesOf(more[i])]
<1>4. /\ f \in Seq(Seq(Byte)) /\ Len(f) = Len(w) /\ Content(w) = FlattenSeq(f)
      /\ g \in Seq(Seq(Byte)) /\ Len(g) = Len(more) /\ Content(more) = FlattenSeq(g)
  BY <1>2, ContentIs, Zenon
<1>5. BytesOf(p) \in Seq(Byte)
  BY PieceType
<1>6. \A i \in 1 .. Len(w) : g[i] = f[i]
  BY <1>2, <1>3
<1>7. g[Len(w) + 1] = BytesOf(p)
  BY <1>2, <1>3
<1> HIDE DEF f, g
<1>8. g = Append(f, BytesOf(p))
  <2>1. PICK h : h = Append(f, BytesOf(p))
    OBVIOUS
  <2>2. /\ h \in Seq(Seq(Byte)) /\ Len(h) = Len(f) + 1 /\ h[Len(f) + 1] = BytesOf(p)
        /\ \A i \in 1 .. Len(f) : h[i] = f[i]
    BY <1>4, <1>5, <2>1, AppendProperties
  <2>3. Len(g) = Len(h)
    BY <1>2, <1>4, <2>2
  <2>4. \A i \in 1 .. Len(g) : g[i] = h[i]
    <3>1. \A i \in 1 .. Len(w) : g[i] = h[i] BY <1>4, <1>6, <2>2
    <3>2. g[Len(w) + 1] = h[Len(w) + 1] BY <1>4, <1>7, <2>2
    <3>3. \A i \in 1 .. Len(g) : i \in 1 .. Len(w) \/ i = Len(w) + 1 BY <1>2, <1>3, <1>4
    <3> QED BY <3>1, <3>2, <3>3
  <2> QED BY <1>4, <2>1, <2>2, <2>3, <2>4, SeqEqual, Zenon
<1> QED
  BY <1>1, <1>4, <1>5, <1>8, FlattenAppend, Zenon

\* Without a coding the bytes on the wire are the content.
LEMMA RawIsContent ==
  ASSUME NEW w \in Seq(Pieces), \A i \in DOMAIN w : w[i].kind = "data"
  PROVE  Raw(w) = Content(w)
<1>1. [i \in DOMAIN w |->
         CASE w[i].kind = "data"  -> w[i].bytes
           [] w[i].kind = "chunk" -> <<0>> \o w[i].bytes \o <<0>>
           [] w[i].kind = "last"  -> <<0>>] = [i \in DOMAIN w |-> w[i].bytes]
  OBVIOUS
<1>2. [i \in DOMAIN w |-> IF w[i].kind = "last" THEN <<>> ELSE w[i].bytes]
        = [i \in DOMAIN w |-> w[i].bytes]
  OBVIOUS
<1> QED
  BY <1>1, <1>2, Zenon DEF Raw, Content

\* What one piece of data is on the wire.
LEMMA RawOfOne ==
  ASSUME NEW p \in Pieces, p.kind = "data"
  PROVE  Raw(<<p>>) = p.bytes
<1>1. <<p>> \in Seq(Pieces) /\ \A i \in DOMAIN <<p>> : <<p>>[i].kind = "data"
  OBVIOUS
<1>2. <<>> \in Seq(Pieces) /\ Append(<<>>, p) = <<p>>
  OBVIOUS
<1>3. Content(<<p>>) = <<>> \o BytesOf(p)
  BY <1>2, ContentAppend, ContentEmpty, Zenon
<1>4. BytesOf(p) \in Seq(Byte) /\ BytesOf(p) = p.bytes
  BY PieceType DEF BytesOf
<1>5. <<>> \o BytesOf(p) = BytesOf(p)
  BY <1>4, ConcatEmptySeq, Zenon
<1> QED
  BY <1>1, <1>3, <1>4, <1>5, RawIsContent, Zenon

\* One piece more of a wire.
LEMMA PartStep ==
  ASSUME NEW w \in Seq(Pieces), NEW k \in Nat, k < Len(w)
  PROVE  Part(w, k + 1) = Part(w, k) \o BytesOf(w[k + 1])
<1>1. PICK s : s = SubSeq(w, 1, k)
  OBVIOUS
<1>2. PICK t : t = SubSeq(w, 1, k + 1)
  OBVIOUS
<1>3. Len(w) \in Nat /\ \A i \in 1 .. Len(w) : w[i] \in Pieces
  BY LenProperties, ElementOfSeq
<1>4. s \in Seq(Pieces) /\ Len(s) = k /\ \A i \in 1 .. k : s[i] = w[i]
  <2>1. \A i \in 1 .. k : w[i] \in Pieces BY <1>3
  <2> QED BY <1>1, <2>1, SubSeqProperties
<1>5. t \in Seq(Pieces) /\ Len(t) = k + 1 /\ \A i \in 1 .. k + 1 : t[i] = w[i]
  <2>1. \A i \in 1 .. k + 1 : w[i] \in Pieces BY <1>3
  <2> QED BY <1>2, <2>1, SubSeqProperties
<1>6. w[k + 1] \in Pieces
  BY <1>3
<1>7. PICK h : h = Append(s, w[k + 1])
  OBVIOUS
<1>8. h \in Seq(Pieces) /\ Len(h) = k + 1 /\ h[k + 1] = w[k + 1] /\ \A i \in 1 .. k : h[i] = s[i]
  BY <1>4, <1>6, <1>7, AppendProperties
<1>9. t = h
  <2>1. \A i \in 1 .. k : t[i] = h[i] BY <1>4, <1>5, <1>8
  <2>2. t[k + 1] = h[k + 1] BY <1>5, <1>8
  <2>3. \A i \in 1 .. Len(t) : i \in 1 .. k \/ i = k + 1 BY <1>5
  <2>4. Len(t) = Len(h) /\ \A i \in 1 .. Len(t) : t[i] = h[i] BY <1>5, <1>8, <2>1, <2>2, <2>3
  <2> QED BY <1>5, <1>8, <2>4, SeqEqual
<1>10. Content(Append(s, w[k + 1])) = Content(s) \o BytesOf(w[k + 1])
  BY <1>4, <1>6, ContentAppend
<1> QED
  BY <1>1, <1>2, <1>7, <1>9, <1>10, Zenon DEF Part

\* The first part and the last.
LEMMA PartType ==
  ASSUME NEW w \in Seq(Pieces)
  PROVE  /\ Part(w, 0) = <<>>
         /\ Part(w, Len(w)) = Content(w)
         /\ \A k \in 0 .. Len(w) : SubSeq(w, 1, k) \in Seq(Pieces) /\ Part(w, k) \in Seq(Byte)
<1>1. Len(w) \in Nat /\ \A i \in 1 .. Len(w) : w[i] \in Pieces
  BY LenProperties, ElementOfSeq
<1>2. Part(w, 0) = <<>>
  <2>1. SubSeq(w, 1, 0) = <<>> BY SubSeqEmpty
  <2> QED BY <2>1, ContentEmpty DEF Part
<1>3. Part(w, Len(w)) = Content(w)
  BY SubSeqFull DEF Part
<1>4. ASSUME NEW k \in 0 .. Len(w)
      PROVE  SubSeq(w, 1, k) \in Seq(Pieces) /\ Part(w, k) \in Seq(Byte)
  <2>1. k \in Int /\ \A i \in 1 .. k : w[i] \in Pieces BY <1>1
  <2>2. SubSeq(w, 1, k) \in Seq(Pieces) BY <2>1, SubSeqProperties
  <2> QED BY <2>2, ContentIs DEF Part
<1> QED
  BY <1>2, <1>3, <1>4

\* Every part begins the content.
LEMMA PartBegins ==
  ASSUME NEW w \in Seq(Pieces), NEW k \in 0 .. Len(w)
  PROVE  \E t \in Seq(Byte) : Content(w) = Part(w, k) \o t
<1>1. Len(w) \in Nat /\ \A i \in 1 .. Len(w) : w[i] \in Pieces
  BY LenProperties, ElementOfSeq
<1> DEFINE T == {d \in Nat : d <= Len(w) => \E t \in Seq(Byte) : Content(w) = Part(w, Len(w) - d) \o t}
<1>2. 0 \in T
  <2>1. Len(w) - 0 = Len(w) BY <1>1
  <2>2. Content(w) \in Seq(Byte) /\ Part(w, Len(w)) = Content(w) BY ContentIs, PartType
  <2>3. <<>> \in Seq(Byte) /\ Content(w) = Content(w) \o <<>> BY <2>2, EmptySeq, ConcatEmptySeq
  <2>4. Content(w) = Part(w, Len(w) - 0) \o <<>> BY <2>1, <2>2, <2>3, Zenon
  <2> QED BY <2>3, <2>4
<1>3. ASSUME NEW d \in Nat, d \in T PROVE d + 1 \in T
  <2>1. SUFFICES ASSUME d + 1 <= Len(w)
                 PROVE  \E t \in Seq(Byte) : Content(w) = Part(w, Len(w) - (d + 1)) \o t
    OBVIOUS
  <2>2. PICK n : n = Len(w) - (d + 1)
    OBVIOUS
  <2>3. n \in Nat /\ n < Len(w) /\ Len(w) - d = n + 1 /\ n \in 0 .. Len(w)
    BY <1>1, <2>1, <2>2
  <2>4. PICK t \in Seq(Byte) : Content(w) = Part(w, n + 1) \o t
    <3>1. d <= Len(w) BY <1>1, <2>1
    <3> QED BY <1>3, <2>3, <3>1
  <2>5. Part(w, n + 1) = Part(w, n) \o BytesOf(w[n + 1])
    BY <2>3, PartStep
  <2>6. BytesOf(w[n + 1]) \in Seq(Byte)
    <3>1. w[n + 1] \in Pieces BY <1>1, <2>3
    <3> QED BY <3>1, PieceType
  <2>7. Part(w, n) \in Seq(Byte)
    BY <2>3, PartType
  <2>8. Content(w) = Part(w, n) \o (BytesOf(w[n + 1]) \o t)
    <3>1. t \in Seq(Byte) OBVIOUS
    <3>2. (Part(w, n) \o BytesOf(w[n + 1])) \o t = Part(w, n) \o (BytesOf(w[n + 1]) \o t)
      <4>1. PICK a, b : a = Part(w, n) /\ b = BytesOf(w[n + 1]) OBVIOUS
      <4>2. a \in Seq(Byte) /\ b \in Seq(Byte) BY <2>6, <2>7, <4>1
      <4>3. (a \o b) \o t = a \o (b \o t) BY <3>1, <4>2, ConcatAssociative
      <4> QED BY <4>1, <4>3
    <3> QED BY <2>4, <2>5, <3>2, Zenon
  <2>9. BytesOf(w[n + 1]) \o t \in Seq(Byte)
    BY <2>6, ConcatProperties
  <2> QED BY <2>2, <2>8, <2>9
<1>4. \A d \in Nat : d \in T
  <2> HIDE DEF T
  <2> QED BY <1>2, <1>3, SetInduction
<1>5. Len(w) - k \in Nat /\ Len(w) - k <= Len(w) /\ Len(w) - (Len(w) - k) = k
  BY <1>1
<1> QED
  BY <1>4, <1>5

\* A beginning of a sequence is a prefix.
LEMMA ConcatPrefix ==
  ASSUME NEW s \in Seq(Byte), NEW t \in Seq(Byte)
  PROVE  IsPrefix(s, s \o t) /\ SubSeq(s \o t, 1, Len(s)) = s
<1>1. PICK u : u = s \o t
  OBVIOUS
<1>2. /\ u \in Seq(Byte) /\ Len(u) = Len(s) + Len(t)
      /\ \A i \in 1 .. Len(s) + Len(t) : u[i] = IF i <= Len(s) THEN s[i] ELSE t[i - Len(s)]
  BY <1>1, ConcatProperties
<1>3. Len(s) \in Nat /\ Len(t) \in Nat /\ \A i \in 1 .. Len(s) : s[i] \in Byte
  BY LenProperties, ElementOfSeq
<1>4. \A i \in 1 .. Len(s) : u[i] = s[i]
  BY <1>2, <1>3
<1>5. PICK v : v = SubSeq(u, 1, Len(s))
  OBVIOUS
<1>6. v \in Seq(Byte) /\ Len(v) = Len(s) /\ \A i \in 1 .. Len(s) : v[i] = u[i]
  <2>1. \A i \in 1 .. Len(s) : u[i] \in Byte BY <1>3, <1>4
  <2> QED BY <1>3, <1>5, <2>1, SubSeqProperties
<1>7. v = s
  <2>1. \A i \in 1 .. Len(v) : v[i] = s[i] BY <1>4, <1>6
  <2> QED BY <1>6, <2>1, SeqEqual
<1>8. SubSeq(s, 1, Len(s)) = s
  BY SubSeqFull
<1>9. Len(s) <= Len(u)
  BY <1>2, <1>3
<1> QED
  BY <1>1, <1>5, <1>7, <1>8, <1>9 DEF IsPrefix

-----------------------------------------------------------------------------
(* Which elements a sequence has. *)

\* Of two sequences, one after the other.
LEMMA ConcatElements ==
  ASSUME NEW S, NEW s \in Seq(S), NEW t \in Seq(S)
  PROVE  ToSet(s \o t) = ToSet(s) \cup ToSet(t)
<1>1. PICK u : u = s \o t
  OBVIOUS
<1>2. /\ u \in Seq(S) /\ Len(u) = Len(s) + Len(t)
      /\ \A i \in 1 .. Len(s) + Len(t) : u[i] = IF i <= Len(s) THEN s[i] ELSE t[i - Len(s)]
  BY <1>1, ConcatProperties
<1>3. /\ DOMAIN s = 1 .. Len(s) /\ DOMAIN t = 1 .. Len(t) /\ DOMAIN u = 1 .. Len(u)
      /\ Len(s) \in Nat /\ Len(t) \in Nat
  BY <1>2, LenProperties
<1>4. ASSUME NEW x \in ToSet(s) PROVE x \in ToSet(u)
  <2>1. PICK i \in 1 .. Len(s) : s[i] = x BY <1>3 DEF ToSet
  <2>2. i \in 1 .. Len(u) /\ u[i] = x BY <1>2, <1>3, <2>1
  <2> QED BY <1>3, <2>2 DEF ToSet
<1>5. ASSUME NEW x \in ToSet(t) PROVE x \in ToSet(u)
  <2>1. PICK i \in 1 .. Len(t) : t[i] = x BY <1>3 DEF ToSet
  <2>2. /\ Len(s) + i \in 1 .. Len(u) /\ ~(Len(s) + i <= Len(s)) /\ (Len(s) + i) - Len(s) = i
    BY <1>2, <1>3, <2>1
  <2>3. u[Len(s) + i] = x BY <1>2, <2>1, <2>2
  <2> QED BY <1>3, <2>2, <2>3 DEF ToSet
<1>6. ASSUME NEW x \in ToSet(u) PROVE x \in ToSet(s) \cup ToSet(t)
  <2>1. PICK i \in 1 .. Len(u) : u[i] = x BY <1>3 DEF ToSet
  <2>2. CASE i <= Len(s)
    <3>1. i \in 1 .. Len(s) /\ s[i] = x BY <1>2, <1>3, <2>1, <2>2
    <3> QED BY <1>3, <3>1 DEF ToSet
  <2>3. CASE ~(i <= Len(s))
    <3>1. i - Len(s) \in 1 .. Len(t) /\ t[i - Len(s)] = x BY <1>2, <1>3, <2>1, <2>3
    <3> QED BY <1>3, <3>1 DEF ToSet
  <2> QED BY <2>2, <2>3
<1> QED
  BY <1>1, <1>4, <1>5, <1>6

\* Of many sequences.
LEMMA FlattenElements ==
  ASSUME NEW S, NEW seqs \in Seq(Seq(S)), NEW x
  PROVE  x \in ToSet(FlattenSeq(seqs)) <=> \E i \in 1 .. Len(seqs) : x \in ToSet(seqs[i])
<1>1. PICK n : n = Len(seqs)
  OBVIOUS
<1>2. n \in Nat /\ \A i \in 1 .. n : seqs[i] \in Seq(S)
  BY <1>1, LenProperties, ElementOfSeq
<1>3. CASE n = 0
  <2>1. seqs = <<>> BY <1>1, <1>3, EmptySeq
  <2>2. FlattenSeq(seqs) = <<>> BY <2>1, FlattenEmpty
  <2>3. ToSet(FlattenSeq(seqs)) = {} BY <2>2 DEF ToSet
  <2>4. 1 .. Len(seqs) = {} BY <1>1, <1>3
  <2> QED BY <2>3, <2>4
<1>4. CASE n # 0
  <2>1. PICK f \in [1 .. Len(seqs) -> Seq(S)] : Flattens(f, seqs)
    BY FlattensThere
  <2>2. FlattenSeq(seqs) = f[n]
    BY <1>1, <1>2, <1>4, <2>1, FlattenIs
  <2>3. \A i \in 1 .. n : f[i] \in Seq(S)
    BY <1>1, <2>1
  <2>4. \A i \in 1 .. n : f[i] = IF i = 1 THEN seqs[i] ELSE f[i - 1] \o seqs[i]
    BY <1>1, <2>1 DEF Flattens
  <2> DEFINE T == {k \in Nat : k \in 1 .. n =>
                     (x \in ToSet(f[k]) <=> \E i \in 1 .. k : x \in ToSet(seqs[i]))}
  <2>5. 0 \in T
    OBVIOUS
  <2>6. ASSUME NEW k \in Nat, k \in T PROVE k + 1 \in T
    <3>1. CASE k + 1 \notin 1 .. n
      BY <3>1
    <3>2. CASE k + 1 \in 1 .. n /\ k = 0
      <4>1. f[1] = seqs[1] BY <2>4, <3>2
      <4>2. \A i \in 1 .. 1 : i = 1 BY <1>2
      <4> QED BY <3>2, <4>1, <4>2
    <3>3. CASE k + 1 \in 1 .. n /\ k # 0
      <4>1. k \in 1 .. n /\ (k + 1) - 1 = k /\ k + 1 # 1 BY <1>2, <3>3
      <4>2. f[k + 1] = f[k] \o seqs[k + 1] BY <2>4, <3>3, <4>1
      <4>3. f[k] \in Seq(S) /\ seqs[k + 1] \in Seq(S) BY <1>2, <2>3, <3>3, <4>1
      <4>4. ToSet(f[k + 1]) = ToSet(f[k]) \cup ToSet(seqs[k + 1]) BY <4>2, <4>3, ConcatElements
      <4>5. \A i : i \in 1 .. k + 1 <=> i \in 1 .. k \/ i = k + 1 OBVIOUS
      <4>6. x \in ToSet(f[k]) <=> \E i \in 1 .. k : x \in ToSet(seqs[i]) BY <2>6, <4>1
      <4>7. x \in ToSet(f[k + 1]) <=> \E i \in 1 .. k + 1 : x \in ToSet(seqs[i])
        BY <4>4, <4>5, <4>6
      <4> QED BY <4>7
    <3> QED BY <3>1, <3>2, <3>3
  <2> HIDE DEF T
  <2>7. \A k \in Nat : k \in T
    BY <2>5, <2>6, SetInduction
  <2>8. n \in 1 .. n
    BY <1>2, <1>4
  <2> QED BY <1>1, <1>2, <2>2, <2>7, <2>8 DEF T
<1> QED
  BY <1>3, <1>4

\* A set of indices has a last one.
LEMMA MaxThere ==
  ASSUME NEW n \in Nat, NEW S \in SUBSET (1 .. n), S # {}
  PROVE  Max(S) \in S
<1> DEFINE T == {k \in Nat : \A R \in SUBSET (1 .. k) : R # {} => \E x \in R : \A y \in R : x >= y}
<1>1. 0 \in T
  <2>1. 1 .. 0 = {} OBVIOUS
  <2> QED BY <2>1
<1>2. ASSUME NEW k \in Nat, k \in T PROVE k + 1 \in T
  <2>1. SUFFICES ASSUME NEW R \in SUBSET (1 .. k + 1), R # {}
                 PROVE  \E x \in R : \A y \in R : x >= y
    OBVIOUS
  <2>2. \A y \in R : y \in Nat /\ y <= k + 1
    OBVIOUS
  <2>3. CASE k + 1 \in R
    BY <2>2, <2>3
  <2>4. CASE k + 1 \notin R
    <3>1. R \in SUBSET (1 .. k) BY <2>2, <2>4
    <3> QED BY <1>2, <2>1, <3>1
  <2> QED BY <2>3, <2>4
<1>3. \A k \in Nat : k \in T
  <2> HIDE DEF T
  <2> QED BY <1>1, <1>2, SetInduction
<1>4. \E x \in S : \A y \in S : x >= y
  BY <1>3
<1> QED
  BY <1>4 DEF Max

\* A finite set is put in a sequence.
LEMMA SetToSeqType ==
  ASSUME NEW S, IsFiniteSet(S)
  PROVE  SetToSeq(S) \in Seq(S)
<1>1. Cardinality(S) \in Nat /\ ExistsBijection(1 .. Cardinality(S), S)
  BY FS_CardinalityType
<1>2. PICK f : f \in [1 .. Cardinality(S) -> S] /\ IsInjective(f)
  BY <1>1 DEF ExistsBijection, Bijection, Injection
<1>3. SetToSeq(S) \in [1 .. Cardinality(S) -> S]
  BY <1>2 DEF SetToSeq
<1> QED
  BY <1>1, <1>3

\* The names of a sequence of lines.
LEMMA NamesFinite ==
  ASSUME NEW S, NEW lines \in Seq(S)
  PROVE  IsFiniteSet(Names(lines)) /\ DOMAIN Headers(lines) = Names(lines)
<1>1. Len(lines) \in Nat /\ DOMAIN lines = 1 .. Len(lines)
  BY LenProperties
<1> DEFINE f == [i \in 1 .. Len(lines) |-> lines[i].name]
<1>2. f \in Surjection(1 .. Len(lines), Names(lines))
  BY <1>1 DEF Surjection, Names
<1>3. IsFiniteSet(1 .. Len(lines))
  BY <1>1, FS_Interval
<1> HIDE DEF f
<1>4. IsFiniteSet(Names(lines))
  BY <1>2, <1>3, FS_Surjection
<1> QED
  BY <1>4 DEF Headers

\* A header is one of the lines, under its name.
LEMMA HeaderIsLine ==
  ASSUME NEW S, NEW lines \in Seq(S), NEW name \in Names(lines)
  PROVE  Headers(lines)[name] \in ToSet(lines) /\ Headers(lines)[name].name = name
<1>1. Len(lines) \in Nat /\ DOMAIN lines = 1 .. Len(lines)
  BY LenProperties
<1> DEFINE R == {i \in DOMAIN lines : lines[i].name = name}
<1>2. R \in SUBSET (1 .. Len(lines)) /\ R # {}
  BY <1>1 DEF Names
<1>3. Max(R) \in R
  <2> HIDE DEF R
  <2> QED BY <1>1, <1>2, MaxThere
<1>4. Headers(lines)[name] = lines[Max(R)]
  BY DEF Headers
<1> QED
  BY <1>3, <1>4 DEF ToSet

-----------------------------------------------------------------------------
(* The request as it is read. *)

\* A line that is typed is of one of two kinds.
LEMMA LineType ==
  ASSUME NEW line \in Lines
  PROVE  /\ line.name = "content-length" =>
              line.length \in Nat \cup {-1} /\ line = Sized(line.length)
         /\ line.name # "content-length" =>
              line.value \in STRING /\ line = Line(line.name, line.value)
  BY DEF Lines, Sized, Line

\* The announced length is one of the lines.
LEMMA LengthIsLine ==
  ASSUME NEW lines \in Seq(Lines)
  PROVE  /\ HasLength(lines) => /\ Length(lines) \in Nat \cup {-1}
                                /\ Sized(Length(lines)) \in ToSet(lines)
         /\ HasLength(lines) /\ ~InvalidLength(lines) => Length(lines) \in Nat
         /\ ~HasLength(lines) => Length(lines) = 0
<1>1. CASE HasLength(lines)
  <2>1. PICK l : l = Headers(lines)["content-length"]
    OBVIOUS
  <2>2. l \in ToSet(lines) /\ l.name = "content-length"
    BY <1>1, <2>1, HeaderIsLine DEF HasLength
  <2>3. l \in Lines
    BY <2>2, ElementOfSeq DEF ToSet
  <2>4. l.length \in Nat \cup {-1} /\ l = Sized(l.length)
    BY <2>2, <2>3, LineType
  <2>5. Length(lines) = l.length
    BY <1>1, <2>1 DEF Length
  <2>6. Sized(Length(lines)) \in ToSet(lines)
    BY <2>2, <2>4, <2>5
  <2>7. ~InvalidLength(lines) => Length(lines) # -1
    BY <2>6 DEF InvalidLength
  <2> QED BY <1>1, <2>4, <2>5, <2>6, <2>7
<1>2. CASE ~HasLength(lines)
  BY <1>2 DEF Length
<1> QED
  BY <1>1, <1>2

\* What is not chunked and has all the bytes that were announced has no others.
LEMMA AllThere ==
  ASSUME NEW lines \in Seq(Lines), NEW w \in Seq(Pieces), Framed(lines, w),
         ~Chunked(lines), HasLength(lines), ~InvalidLength(lines),
         NEW n \in 0 .. Len(w), Length(lines) <= Len(Part(w, n))
  PROVE  SubSeq(Part(w, n), 1, Length(lines)) = Content(w)
<1>1. Length(lines) \in Nat
  BY LengthIsLine
<1>2. \A i \in DOMAIN w : w[i].kind = "data"
  BY DEF Framed
<1>3. Raw(w) = Content(w)
  BY <1>2, RawIsContent
<1>4. Len(Content(w)) <= Length(lines)
  BY <1>3 DEF Framed
<1>5. PICK s : s = Part(w, n)
  OBVIOUS
<1>6. s \in Seq(Byte)
  BY <1>5, PartType
<1>7. PICK t \in Seq(Byte) : Content(w) = s \o t
  BY <1>5, PartBegins
<1>8. Len(Content(w)) = Len(s) + Len(t) /\ Len(s) \in Nat /\ Len(t) \in Nat
  BY <1>6, <1>7, ConcatProperties, LenProperties
<1>9. Len(t) = 0 /\ Length(lines) = Len(s)
  BY <1>1, <1>4, <1>5, <1>8
<1>10. t = <<>>
  BY <1>9, EmptySeq
<1>11. Content(w) = s
  BY <1>6, <1>7, <1>10, ConcatEmptySeq
<1>12. SubSeq(s, 1, Len(s)) = s
  BY <1>6, SubSeqFull
<1> QED
  BY <1>5, <1>9, <1>11, <1>12

\* A chunked body that can be read is all the content.
LEMMA ChunkedIsContent ==
  ASSUME NEW w \in Seq(Pieces), \A i \in DOMAIN w : w[i].kind = "last" => i = Len(w),
         read_chunked_body(w).error = Ok
  PROVE  read_chunked_body(w) = Found(Content(w))
<1> DEFINE ends == {i \in DOMAIN w : w[i].kind = "last"}
           chunks == SubSeq(w, 1, Min(ends) - 1)
<1>1. Len(w) \in Nat /\ DOMAIN w = 1 .. Len(w)
  BY LenProperties
<1>2. ends # {} /\ read_chunked_body(w) = Found(Content(chunks))
  <2> HIDE DEF chunks
  <2> QED BY DEF read_chunked_body, Found, Failed, Ok, chunks
<1>3. ends = {Len(w)} /\ Len(w) \in DOMAIN w /\ w[Len(w)].kind = "last"
  BY <1>2
<1>4. Min(ends) = Len(w)
  <2> HIDE DEF ends
  <2> QED BY <1>1, <1>3 DEF Min
<1>5. PICK k : k = Len(w) - 1
  OBVIOUS
<1>6. k \in Nat /\ k < Len(w) /\ k + 1 = Len(w) /\ k \in 0 .. Len(w)
  BY <1>1, <1>3, <1>5
<1>7. Content(w) = Part(w, k) \o BytesOf(w[k + 1])
  BY <1>6, PartStep, PartType
<1>8. BytesOf(w[k + 1]) = <<>>
  BY <1>3, <1>6 DEF BytesOf
<1>9. Content(w) = Part(w, k)
  BY <1>6, <1>7, <1>8, PartType, ConcatEmptySeq
<1>10. Content(chunks) = Part(w, k)
  BY <1>4, <1>5 DEF Part
<1> QED
  BY <1>2, <1>9, <1>10

\* What the gateway reads is what the client means.
LEMMA RequestIsRead ==
  ASSUME NEW r \in Requests, read_request(r).error = Ok
  PROVE  read_request(r).value =
           [method |-> r.method, headers |-> Headers(r.lines), body |-> Content(r.wire)]
<1>1. r.lines \in Seq(Lines) /\ r.wire \in Seq(Pieces) /\ Framed(r.lines, r.wire)
  BY RequestShape
<1> DEFINE body == read_body(r.lines, r.wire)
           bad  == r.method = "" \/ InvalidLength(r.lines) \/ (Chunked(r.lines) /\ HasLength(r.lines))
                     \/ Length(r.lines) > MaxHttpBody
           all  == [method |-> r.method, headers |-> Headers(r.lines), body |-> body.value]
<1>10. read_request(r) = IF bad THEN Failed("startup")
                        ELSE IF body.error # Ok THEN body ELSE Found(all)
  BY Zenon DEF read_request
<1>11. Failed("startup").error # Ok /\ Found(all).value = all
  BY DEF Failed, Found, Ok
<1>12. ~bad /\ body.error = Ok
  <2> HIDE DEF bad, all, body
  <2> QED BY <1>10, <1>11
<1>2. ~InvalidLength(r.lines)
  BY <1>12, Zenon
<1>3. body.error = Ok
  BY <1>12, Zenon
<1>4. read_request(r).value = all
  <2> HIDE DEF bad, all, body
  <2> QED BY <1>10, <1>11, <1>12
<1> HIDE DEF bad
<1>5. body.value = Content(r.wire)
  <2>1. CASE Chunked(r.lines)
    <3>1. body = read_chunked_body(r.wire) BY <2>1 DEF read_body
    <3>2. \A i \in DOMAIN r.wire : r.wire[i].kind = "last" => i = Len(r.wire)
      BY <1>1, <2>1 DEF Framed
    <3>3. body = Found(Content(r.wire)) BY <1>1, <1>3, <3>1, <3>2, ChunkedIsContent
    <3> QED BY <3>3 DEF Found
  <2>2. CASE ~Chunked(r.lines) /\ HasLength(r.lines)
    <3>1. ~(Length(r.lines) > Len(Raw(r.wire))) /\ body = Found(SubSeq(Raw(r.wire), 1, Length(r.lines)))
      BY <1>3, <2>2 DEF read_body, Failed, Ok
    <3>2. \A i \in DOMAIN r.wire : r.wire[i].kind = "data"
      BY <1>1, <2>2 DEF Framed
    <3>3. Raw(r.wire) = Part(r.wire, Len(r.wire))
      BY <1>1, <3>2, RawIsContent, PartType
    <3>4. Len(r.wire) \in 0 .. Len(r.wire) /\ Length(r.lines) \in Nat
      BY <1>1, <1>2, <2>2, LenProperties, LengthIsLine
    <3>5. Len(Raw(r.wire)) \in Nat
      BY <1>1, <3>3, <3>4, PartType, LenProperties
    <3>6. Length(r.lines) <= Len(Part(r.wire, Len(r.wire)))
      BY <3>1, <3>3, <3>4, <3>5
    <3>7. SubSeq(Raw(r.wire), 1, Length(r.lines)) = Content(r.wire)
      BY <1>1, <1>2, <2>2, <3>3, <3>4, <3>6, AllThere
    <3> QED BY <3>1, <3>7 DEF Found
  <2>3. CASE ~Chunked(r.lines) /\ ~HasLength(r.lines)
    <3>1. r.wire = <<>> BY <2>3, RequestShape
    <3>2. Length(r.lines) = 0 BY <1>1, <2>3, LengthIsLine
    <3>3. Content(r.wire) = <<>> BY <3>1, ContentEmpty
    <3>4. Raw(r.wire) = <<>>
      <4>1. <<>> \in Seq(Pieces) /\ \A i \in DOMAIN <<>> : <<>>[i].kind = "data" BY EmptySeq
      <4> QED BY <3>1, <4>1, RawIsContent, ContentEmpty
    <3>5. Len(Raw(r.wire)) = 0 BY <3>4, EmptySeq
    <3>6. body = Found(SubSeq(Raw(r.wire), 1, 0)) BY <2>3, <3>2, <3>5 DEF read_body
    <3>7. SubSeq(Raw(r.wire), 1, 0) = <<>> BY SubSeqEmpty
    <3> QED BY <3>3, <3>6, <3>7 DEF Found
  <2> QED BY <2>1, <2>2, <2>3
<1> HIDE DEF body
<1> QED
  BY <1>4, <1>5

-----------------------------------------------------------------------------
(* The request as the server gets it. *)

\* The request of one job, as read, written and rewritten.
Got(r) == [method |-> r.method, headers |-> Headers(r.lines), body |-> Content(r.wire)]

\* The headers that are passed on, by name.
Passed(p, websocket) == {name \in DOMAIN p.headers :
                           /\ name \notin Forwarded /\ ~is_hop_by_hop(name)
                           /\ ~(websocket /\ name = "sec-websocket-extensions")}

OwnLines(p) ==
  LET host == IF "host" \in DOMAIN p.headers THEN p.headers["host"].value ELSE "endpoint"
  IN <<Line("host", host), Line("x-forwarded-host", host),
       Line("x-forwarded-proto", "https"), Line("x-tokamak-session", token)>>

LastLines(p, websocket) ==
  IF websocket THEN <<Line("connection", "upgrade"), Line("upgrade", "websocket")>>
  ELSE <<Line("connection", "close"), Sized(Len(p.body))>>

PassedLines(p, websocket) ==
  LET names == SetToSeq(Passed(p, websocket))
  IN [i \in DOMAIN names |-> p.headers[names[i]]]

\* What the relay makes of a line.
Rewritten(line) == CASE line.name = "x-tokamak-session" -> <<>>
                     [] line.name = "host" -> <<Line("host", "server")>>
                     [] OTHER -> <<line>>

\* The parts of what is written.
LEMMA WriteIs ==
  ASSUME NEW p, NEW websocket
  PROVE  /\ write_request(p, websocket).lines =
              PassedLines(p, websocket) \o OwnLines(p) \o LastLines(p, websocket)
         /\ write_request(p, websocket).wire =
              IF websocket \/ p.body = <<>> THEN <<>> ELSE <<Data(p.body)>>
  BY Zenon DEF write_request, PassedLines, Passed, OwnLines, LastLines

\* What the relay changes.
LEMMA RewriteIs ==
  ASSUME NEW r, "lines" \in DOMAIN r, "wire" \in DOMAIN r
  PROVE  /\ rewrite_request(r).lines = FlattenSeq([i \in DOMAIN r.lines |-> Rewritten(r.lines[i])])
         /\ rewrite_request(r).wire = r.wire
  BY DEF rewrite_request, Rewritten

\* What is passed on are lines of the client, but neither its framing nor a
\* token of its own.
LEMMA PassedAreLines ==
  ASSUME NEW r \in Requests, NEW websocket
  PROVE  /\ PassedLines(Got(r), websocket) \in Seq(Lines)
         /\ \A x \in ToSet(PassedLines(Got(r), websocket)) :
              x.name \notin Forwarded /\ ~is_hop_by_hop(x.name)
<1> DEFINE headers == Headers(r.lines)
           passed  == Passed(Got(r), websocket)
           names   == SetToSeq(passed)
           lines   == PassedLines(Got(r), websocket)
<1>1. r.lines \in Seq(Lines)
  BY RequestShape
<1>2. Got(r).headers = headers
  BY DEF Got
<1>3. IsFiniteSet(Names(r.lines)) /\ DOMAIN headers = Names(r.lines)
  BY <1>1, NamesFinite
<1>4. passed \in SUBSET Names(r.lines)
  BY <1>2, <1>3 DEF Passed
<1>5. IsFiniteSet(passed)
  <2> HIDE DEF passed
  <2> QED BY <1>3, <1>4, FS_Subset
<1>6. names \in Seq(passed)
  <2> HIDE DEF passed
  <2> QED BY <1>5, SetToSeqType
<1>7. lines = [i \in DOMAIN names |-> headers[names[i]]]
  BY <1>2 DEF PassedLines
<1>8. ASSUME NEW name \in passed PROVE headers[name] \in Lines /\ headers[name].name = name
  <2>1. name \in Names(r.lines) BY <1>4
  <2>2. headers[name] \in ToSet(r.lines) /\ headers[name].name = name BY <1>1, <2>1, HeaderIsLine
  <2> QED BY <1>1, <2>2, ElementOfSeq DEF ToSet
<1>9. \A name \in passed : name \notin Forwarded /\ ~is_hop_by_hop(name)
  BY DEF Passed
<1> HIDE DEF headers, passed, names, lines
<1>10. Len(names) \in Nat /\ DOMAIN names = 1 .. Len(names) /\ \A i \in 1 .. Len(names) : names[i] \in passed
  BY <1>6, LenProperties, ElementOfSeq
<1>11. lines \in [1 .. Len(names) -> Lines]
  BY <1>7, <1>8, <1>10
<1>12. lines \in Seq(Lines) /\ DOMAIN lines = 1 .. Len(names)
  BY <1>10, <1>11
<1>13. ASSUME NEW x \in ToSet(lines) PROVE x.name \notin Forwarded /\ ~is_hop_by_hop(x.name)
  <2>1. PICK i \in 1 .. Len(names) : x = lines[i] BY <1>12 DEF ToSet
  <2>2. x = headers[names[i]] /\ names[i] \in passed BY <1>7, <1>10, <2>1
  <2> QED BY <1>8, <1>9, <2>2
<1> QED
  BY <1>12, <1>13 DEF lines

\* The names of the lines that the proxy adds.
LEMMA AddedLines ==
  ASSUME NEW p, NEW websocket
  PROVE  /\ \A x \in ToSet(OwnLines(p)) :
              x.name \in {"host", "x-forwarded-host", "x-forwarded-proto", "x-tokamak-session"}
         /\ \A x \in ToSet(LastLines(p, websocket)) :
              x.name \in {"connection", "upgrade"} \/ (~websocket /\ x = Sized(Len(p.body)))
         /\ ~websocket => Sized(Len(p.body)) \in ToSet(LastLines(p, websocket))
         /\ OwnLines(p) \in Seq(ToSet(OwnLines(p)))
         /\ LastLines(p, websocket) \in Seq(ToSet(LastLines(p, websocket)))
<1>1. /\ \A x \in ToSet(OwnLines(p)) :
           x.name \in {"host", "x-forwarded-host", "x-forwarded-proto", "x-tokamak-session"}
      /\ OwnLines(p) \in Seq(ToSet(OwnLines(p)))
  <2>1. PICK host : host = IF "host" \in DOMAIN p.headers THEN p.headers["host"].value ELSE "endpoint"
    OBVIOUS
  <2>2. OwnLines(p) = <<Line("host", host), Line("x-forwarded-host", host),
                        Line("x-forwarded-proto", "https"), Line("x-tokamak-session", token)>>
    BY <2>1, Zenon DEF OwnLines
  <2> QED BY <2>2 DEF ToSet, Line
<1>2. CASE websocket
  <2>1. LastLines(p, websocket) = <<Line("connection", "upgrade"), Line("upgrade", "websocket")>>
    BY <1>2 DEF LastLines
  <2>2. LastLines(p, websocket) \in Seq(ToSet(LastLines(p, websocket))) BY <2>1 DEF ToSet, Line
  <2>3. \A x \in ToSet(LastLines(p, websocket)) : x.name \in {"connection", "upgrade"}
    BY <2>1 DEF ToSet, Line
  <2> QED BY <1>1, <1>2, <2>2, <2>3
<1>3. CASE ~websocket
  <2>1. LastLines(p, websocket) = <<Line("connection", "close"), Sized(Len(p.body))>>
    BY <1>3 DEF LastLines
  <2>2. LastLines(p, websocket) \in Seq(ToSet(LastLines(p, websocket))) BY <2>1 DEF ToSet, Line
  <2>3. ToSet(LastLines(p, websocket)) = {Line("connection", "close"), Sized(Len(p.body))}
    BY <2>1 DEF ToSet
  <2>4. Line("connection", "close").name = "connection" BY DEF Line
  <2> QED BY <1>1, <1>3, <2>2, <2>3, <2>4
<1> QED
  BY <1>2, <1>3

\* The head that the server gets: framed by the length of the content alone.
LEMMA ServersHead ==
  ASSUME NEW r \in Requests, NEW websocket \in BOOLEAN, NEW new,
         new = rewrite_request(write_request(Got(r), websocket))
  PROVE  /\ \E S : new.lines \in Seq(S)
         /\ "x-tokamak-session" \notin Names(new.lines)
         /\ ~Chunked(new.lines)
         /\ \A x \in ToSet(new.lines) :
              x.name = "content-length" => ~websocket /\ x = Sized(Len(Content(r.wire)))
         /\ ~websocket => Sized(Len(Content(r.wire))) \in ToSet(new.lines)
         /\ new.wire = IF websocket \/ Content(r.wire) = <<>> THEN <<>> ELSE <<Data(Content(r.wire))>>
<1>1. PICK W : W = write_request(Got(r), websocket)
  OBVIOUS
<1>2. PICK A : A = PassedLines(Got(r), websocket)
  OBVIOUS
<1>3. PICK B : B = OwnLines(Got(r))
  OBVIOUS
<1>4. PICK C : C = LastLines(Got(r), websocket)
  OBVIOUS
<1>5. Got(r).body = Content(r.wire)
  BY DEF Got
<1>6. /\ W.lines = A \o B \o C
      /\ W.wire = IF websocket \/ Content(r.wire) = <<>> THEN <<>> ELSE <<Data(Content(r.wire))>>
  BY <1>1, <1>2, <1>3, <1>4, <1>5, WriteIs, Zenon
<1>7. "lines" \in DOMAIN W /\ "wire" \in DOMAIN W
  BY <1>1 DEF write_request
<1>8. PICK seqs : seqs = [i \in DOMAIN W.lines |-> Rewritten(W.lines[i])]
  OBVIOUS
<1>9. new.lines = FlattenSeq(seqs) /\ new.wire = W.wire
  BY <1>1, <1>7, <1>8, RewriteIs, Zenon
<1> DEFINE S == Lines \cup ToSet(B) \cup ToSet(C) \cup {Line("host", "server")}
<1>10. A \in Seq(S) /\ B \in Seq(S) /\ C \in Seq(S)
  <2>1. A \in Seq(Lines) /\ B \in Seq(ToSet(B)) /\ C \in Seq(ToSet(C))
    BY <1>2, <1>3, <1>4, PassedAreLines, AddedLines
  <2>2. Lines \subseteq S /\ ToSet(B) \subseteq S /\ ToSet(C) \subseteq S
    OBVIOUS
  <2> HIDE DEF S
  <2> QED BY <2>1, <2>2, SeqMonotonic
<1> HIDE DEF S
<1>11. W.lines \in Seq(S) /\ ToSet(W.lines) = ToSet(A) \cup ToSet(B) \cup ToSet(C)
  <2>1. A \o B \in Seq(S) /\ ToSet(A \o B) = ToSet(A) \cup ToSet(B) BY <1>10, ConcatProperties, ConcatElements
  <2>2. A \o B \o C \in Seq(S) /\ ToSet(A \o B \o C) = ToSet(A \o B) \cup ToSet(C)
    <3>1. PICK D : D = A \o B OBVIOUS
    <3>2. D \in Seq(S) /\ C \in Seq(S) BY <1>10, <2>1, <3>1
    <3>3. D \o C \in Seq(S) BY <3>2, ConcatProperties
    <3>4. ToSet(D \o C) = ToSet(D) \cup ToSet(C) BY <3>2, ConcatElements
    <3> QED BY <3>1, <3>3, <3>4
  <2> QED BY <1>6, <2>1, <2>2
<1>12. Len(W.lines) \in Nat /\ DOMAIN W.lines = 1 .. Len(W.lines) /\ \A i \in 1 .. Len(W.lines) : W.lines[i] \in S
  BY <1>11, LenProperties, ElementOfSeq
<1>13. ASSUME NEW line \in S PROVE Rewritten(line) \in Seq(S)
  <2>1. Line("host", "server") \in S BY DEF S
  <2>2. <<>> \in Seq(S) /\ <<Line("host", "server")>> \in Seq(S) /\ <<line>> \in Seq(S)
    BY <2>1
  <2> QED BY <2>2 DEF Rewritten
<1>14. seqs \in Seq(Seq(S)) /\ Len(seqs) = Len(W.lines)
  <2>1. seqs \in [1 .. Len(W.lines) -> Seq(S)] BY <1>8, <1>12, <1>13
  <2> QED BY <1>12, <2>1
<1>15. new.lines \in Seq(S)
  BY <1>9, <1>14, FlattenType
<1>16. ASSUME NEW x
       PROVE  x \in ToSet(new.lines) <=> \E line \in ToSet(W.lines) : x \in ToSet(Rewritten(line))
  <2>1. x \in ToSet(new.lines) <=> \E i \in 1 .. Len(seqs) : x \in ToSet(seqs[i])
    BY <1>9, <1>14, FlattenElements
  <2>2. \A i \in 1 .. Len(W.lines) : seqs[i] = Rewritten(W.lines[i])
    BY <1>8, <1>12
  <2>3. ToSet(W.lines) = {W.lines[i] : i \in 1 .. Len(W.lines)}
    BY <1>12 DEF ToSet
  <2> QED BY <1>14, <2>1, <2>2, <2>3
<1>17. ASSUME NEW line, NEW x
       PROVE  x \in ToSet(Rewritten(line)) <=>
                \/ line.name = "host" /\ x = Line("host", "server")
                \/ line.name \notin {"x-tokamak-session", "host"} /\ x = line
  <2>1. ToSet(<<>>) = {} /\ \A y : ToSet(<<y>>) = {y}
    BY DEF ToSet
  <2>2. CASE line.name = "x-tokamak-session" BY <2>1, <2>2 DEF Rewritten
  <2>3. CASE line.name = "host" BY <2>1, <2>3 DEF Rewritten
  <2>4. CASE line.name \notin {"x-tokamak-session", "host"} BY <2>1, <2>4 DEF Rewritten
  <2> QED BY <2>2, <2>3, <2>4
<1>18. ASSUME NEW x \in ToSet(new.lines)
       PROVE  x = Line("host", "server") \/ (x \in ToSet(A) \cup ToSet(B) \cup ToSet(C) /\ x.name # "x-tokamak-session")
  BY <1>11, <1>16, <1>17
<1>19. /\ \A x \in ToSet(A) : x.name \notin Forwarded /\ ~is_hop_by_hop(x.name)
       /\ \A x \in ToSet(B) :
            x.name \in {"host", "x-forwarded-host", "x-forwarded-proto", "x-tokamak-session"}
       /\ \A x \in ToSet(C) :
            x.name \in {"connection", "upgrade"} \/ (~websocket /\ x = Sized(Len(Content(r.wire))))
       /\ ~websocket => Sized(Len(Content(r.wire))) \in ToSet(C)
  BY <1>2, <1>3, <1>4, <1>5, PassedAreLines, AddedLines
<1>20. ASSUME NEW x \in ToSet(new.lines)
       PROVE  /\ x.name # "x-tokamak-session" /\ x.name # "transfer-encoding"
              /\ x.name = "content-length" => ~websocket /\ x = Sized(Len(Content(r.wire)))
  <2>1. CASE x = Line("host", "server") BY <2>1 DEF Line
  <2>2. CASE x \in ToSet(A) BY <1>19, <2>2 DEF Forwarded, is_hop_by_hop
  <2>3. CASE x \in ToSet(B) /\ x.name # "x-tokamak-session" BY <1>19, <2>3
  <2>4. CASE x \in ToSet(C) BY <1>19, <2>4 DEF Sized
  <2> QED BY <1>18, <2>1, <2>2, <2>3, <2>4
<1>21. \A i \in DOMAIN new.lines : new.lines[i] \in ToSet(new.lines)
  BY DEF ToSet
<1>22. ~Chunked(new.lines)
  BY <1>20, <1>21 DEF Chunked
<1>23. "x-tokamak-session" \notin Names(new.lines)
  BY <1>20, <1>21 DEF Names
<1>24. ~websocket => Sized(Len(Content(r.wire))) \in ToSet(new.lines)
  <2>1. Sized(Len(Content(r.wire))).name \notin {"x-tokamak-session", "host"} BY DEF Sized
  <2> QED BY <1>11, <1>16, <1>17, <1>19, <2>1
<1> QED
  BY <1>6, <1>9, <1>15, <1>20, <1>22, <1>23, <1>24

\* ... and so the content is what the server reads.
LEMMA ServerReads ==
  ASSUME NEW r \in Requests, NEW new,
         new = rewrite_request(write_request(Got(r), is_websocket(Got(r))))
  PROVE  /\ read_body(new.lines, new.wire) = Found(Content(r.wire))
         /\ "x-tokamak-session" \notin Names(new.lines)
<1>1. PICK websocket \in BOOLEAN : websocket = is_websocket(Got(r))
  BY DEF is_websocket, Has
<1>2. PICK body : body = Content(r.wire)
  OBVIOUS
<1>3. r.lines \in Seq(Lines) /\ r.wire \in Seq(Pieces) /\ body \in Seq(Byte)
  BY <1>2, RequestShape, ContentIs
<1>4. /\ \E S : new.lines \in Seq(S)
      /\ "x-tokamak-session" \notin Names(new.lines)
      /\ ~Chunked(new.lines)
      /\ \A x \in ToSet(new.lines) : x.name = "content-length" => ~websocket /\ x = Sized(Len(body))
      /\ ~websocket => Sized(Len(body)) \in ToSet(new.lines)
      /\ new.wire = IF websocket \/ body = <<>> THEN <<>> ELSE <<Data(body)>>
  BY <1>1, <1>2, ServersHead
<1>5. Names(new.lines) = {x.name : x \in ToSet(new.lines)}
  BY DEF Names, ToSet
<1>6. Raw(<<>>) = <<>> /\ Content(<<>>) = <<>> /\ Len(<<>>) = 0
  <2>1. <<>> \in Seq(Pieces) /\ \A i \in DOMAIN <<>> : <<>>[i].kind = "data" BY EmptySeq
  <2> QED BY <2>1, RawIsContent, ContentEmpty, EmptySeq
<1>7. CASE websocket
  <2>1. "content-length" \notin Names(new.lines) BY <1>4, <1>5, <1>7
  <2>2. Length(new.lines) = 0 BY <2>1 DEF Length, HasLength
  <2>3. new.wire = <<>> BY <1>4, <1>7
  <2>4. read_body(new.lines, new.wire) = Found(SubSeq(<<>>, 1, 0))
    BY <1>4, <1>6, <2>2, <2>3 DEF read_body
  <2>5. SubSeq(<<>>, 1, 0) = <<>> BY SubSeqEmpty
  <2>6. body = <<>>
    <3>1. "upgrade" \in Names(r.lines) /\ Headers(r.lines)["upgrade"].value = "websocket"
      BY <1>1, <1>3, <1>7, NamesFinite DEF is_websocket, Has, Got
    <3>2. PICK l : l = Headers(r.lines)["upgrade"]
      OBVIOUS
    <3>3. l \in ToSet(r.lines) /\ l.name = "upgrade" BY <1>3, <3>1, <3>2, HeaderIsLine
    <3>4. l \in Lines BY <1>3, <3>3, ElementOfSeq DEF ToSet
    <3>5. l = Line("upgrade", "websocket") BY <3>1, <3>2, <3>3, <3>4, LineType
    <3>6. r.wire = <<>> BY <3>3, <3>5, RequestShape
    <3> QED BY <1>2, <1>6, <3>6
  <2> QED BY <1>2, <1>4, <2>4, <2>5, <2>6
<1>8. CASE ~websocket
  <2>1. Sized(Len(body)) \in ToSet(new.lines) /\ Sized(Len(body)).name = "content-length"
    BY <1>4, <1>8 DEF Sized
  <2>2. "content-length" \in Names(new.lines) BY <1>5, <2>1
  <2>3. PICK l : l = Headers(new.lines)["content-length"]
    OBVIOUS
  <2>4. l \in ToSet(new.lines) /\ l.name = "content-length" BY <1>4, <2>2, <2>3, HeaderIsLine
  <2>5. l = Sized(Len(body)) BY <1>4, <2>4
  <2>6. Length(new.lines) = Len(body) BY <2>2, <2>3, <2>5 DEF Length, HasLength, Sized
  <2>7. Raw(new.wire) = body
    <3>1. CASE body = <<>> BY <1>4, <1>6, <3>1
    <3>2. CASE body # <<>>
      <4>1. Data(body) \in Pieces /\ Data(body).kind = "data" /\ Data(body).bytes = body
        BY <1>3 DEF Data, Pieces
      <4> QED BY <1>4, <1>8, <3>2, <4>1, RawOfOne
    <3> QED BY <3>1, <3>2
  <2>8. Len(body) \in Nat /\ SubSeq(body, 1, Len(body)) = body BY <1>3, LenProperties, SubSeqFull
  <2>9. read_body(new.lines, new.wire) = Found(SubSeq(body, 1, Len(body)))
    BY <1>4, <2>6, <2>7, <2>8 DEF read_body
  <2> QED BY <1>2, <1>4, <2>8, <2>9
<1> QED
  BY <1>7, <1>8

\* The job has the request that was sent, and the server got nothing else.
ReadInv ==
  /\ request \in Requests
  /\ job # "none" => read_request(request).error = Ok /\ parsed = read_request(request).value
  /\ served \in Seq({rewrite_request(Written)})

\* The server reads the body that the client meant, for every request in any
\* coding, every answer and every number of attempts (write_request in
\* dev_proxy.rs, rewrite_request in dev.rs).
THEOREM TheBodyIsRead == Spec => []ServerReadsTheBody
<1>1. Init => ReadInv
  <2> SUFFICES ASSUME Init PROVE ReadInv OBVIOUS
  <2>1. <<>> \in Seq({rewrite_request(Written)}) BY EmptySeq
  <2> QED BY <2>1 DEF Init, ReadInv
<1>2. ASSUME ReadInv, IInv, [Next]_vars PROVE ReadInv'
  <2>1. CASE Reads
    <3>1. served = <<>> /\ served' = <<>> /\ UNCHANGED request
      BY <1>2, <2>1 DEF IInv, StageInv, Reads, clientVars
    <3>2. <<>> \in Seq({rewrite_request(Written)}') BY EmptySeq
    <3>3. job' # "none" => read_request(request).error = Ok /\ parsed' = read_request(request).value
      BY <1>2, <2>1 DEF Reads, IInv, StageInv
    <3> QED BY <1>2, <3>1, <3>2, <3>3 DEF ReadInv
  <2>2. ASSUME UNCHANGED <<request, parsed, token>>, job' # "none" => job # "none",
               \/ served' = served
               \/ served' = Append(served, rewrite_request(Written))
        PROVE  ReadInv'
    <3>1. UNCHANGED Written
      <4>1. parsed' = parsed /\ token' = token BY <2>2
      <4> QED BY <4>1, Zenon DEF Written, write_request, is_websocket, Has
    <3>2. PICK new : new = rewrite_request(Written)
      OBVIOUS
    <3>3. new = rewrite_request(Written)' BY <3>1, <3>2
    <3>4. served' \in Seq({new}) BY <1>2, <2>2, <3>2, AppendProperties DEF ReadInv
    <3>5. UNCHANGED read_request(request) BY <2>2
    <3> QED BY <1>2, <2>2, <3>3, <3>4, <3>5 DEF ReadInv
  <2>3. CASE ConnectionStep /\ ~Reads
    <3>1. UNCHANGED <<request, parsed, token, job, served>>
      BY <2>3 DEF ConnectionStep, Connects, Handshakes, Waits, Writes, Streams, EndsStream,
                  ConnectionFails, clientVars, jobVars
    <3> QED BY <2>2, <3>1
  <2>4. CASE JobStep \/ SecureStep
    <3>1. CASE Enters \/ HandleChecks \/ Connected \/ Secured \/ Pauses
      <4>1. job # "none" /\ JobUnchanged
        BY <3>1 DEF Enters, HandleChecks, Connected, Secured, Pauses
      <4> QED BY <2>2, <4>1 DEF JobUnchanged, clientVars
    <3>2. CASE PumpIsCancelled \/ PumpsBytes \/ Pumps
      <4>1. job # "none" /\ PumpUnchanged
        BY <3>2 DEF PumpIsCancelled, PumpsBytes, Pumps
      <4> QED BY <2>2, <4>1 DEF PumpUnchanged, clientVars
    <3>3. CASE SecureFails \/ AttemptFails \/ AttemptIsRejected \/ AttemptIsAnswered
      <4>1. job # "none" /\ UNCHANGED <<request, parsed, token>>
        BY <3>3 DEF SecureFails, AttemptFails, AttemptIsRejected, AttemptIsAnswered, Forwards,
                    clientVars
      <4>2. served' = served \/ served' = Append(served, rewrite_request(Written))
        BY <3>3 DEF SecureFails, AttemptFails, AttemptIsRejected, AttemptIsAnswered
      <4> QED BY <2>2, <4>1, <4>2
    <3> QED BY <2>4, <3>1, <3>2, <3>3 DEF JobStep, SecureStep
  <2>5. CASE Late \/ RuntimeStep \/ Goes \/ UNCHANGED vars
    <3>1. UNCHANGED <<request, parsed, token, job, served>>
      BY <2>5 DEF Late, RuntimeStep, Suspends, Resumes, Stops, RuntimeUnchanged, Goes, vars, clientVars, jobVars
    <3> QED BY <2>2, <3>1
  <2> QED BY <1>2, <2>1, <2>3, <2>4, <2>5 DEF Next
<1>3. ASSUME ReadInv, IInv PROVE ServerReadsTheBody
  <2>1. SUFFICES ASSUME NEW i \in DOMAIN served
                 PROVE  LET body == read_body(served[i].lines, served[i].wire)
                        IN /\ body.error = Ok /\ body.value = Content(request.wire)
                           /\ "x-tokamak-session" \notin Names(served[i].lines)
    BY DEF ServerReadsTheBody
  <2>2. served[i] = rewrite_request(Written)
    BY <1>3, ElementOfSeq, LenProperties DEF ReadInv
  <2>3. job # "none"
    BY <1>3, <2>1 DEF IInv, StageInv
  <2>4. parsed = Got(request)
    BY <1>3, <2>3, RequestIsRead DEF ReadInv, Got
  <2>5. /\ read_body(served[i].lines, served[i].wire) = Found(Content(request.wire))
        /\ "x-tokamak-session" \notin Names(served[i].lines)
    BY <1>3, <2>2, <2>4, ServerReads DEF ReadInv, Written
  <2> QED BY <2>5 DEF Found, Ok
<1> QED
  BY <1>1, <1>2, <1>3, Invariance, PTL DEF Spec

-----------------------------------------------------------------------------
(* The answer as the proxy gets it. *)

\* What is on its way is what follows the first k pieces of w: all of it up to
\* some piece, and of a chunked body perhaps a beginning of one more.
Comes(w, wire, k) ==
  \E n \in Nat :
    /\ k <= n /\ n <= Len(w)
    /\ wire \in Seq(Pieces) /\ Len(wire) \in {n - k, n - k + 1}
    /\ \A i \in 1 .. n - k : wire[i] = w[k + i]
    /\ Len(wire) = n - k + 1 => /\ wire[n - k + 1] = Chunk(<<>>, FALSE)
                                /\ \E i \in DOMAIN w : w[i].kind = "chunk"

\* What arrives of an answer is its head and a beginning of its body.
LEMMA ArrivedComes ==
  ASSUME NEW r \in Responses, NEW got \in Arrived(r), got.headed
  PROVE  got.status = r.status /\ got.lines = r.lines /\ Comes(r.wire, got.wire, 0)
<1> DEFINE w == r.wire
<1>1. /\ r \in [headed : {TRUE}, status : Nat, lines : Seq(Lines), wire : Seq(Pieces)]
      /\ w \in Seq(Pieces)
  BY ResponseShape
<1>2. Len(w) \in Nat /\ DOMAIN w = 1 .. Len(w) /\ \A i \in 1 .. Len(w) : w[i] \in Pieces
  BY <1>1, LenProperties, ElementOfSeq
<1>3. [r EXCEPT !.headed = FALSE, !.wire = <<>>].headed = FALSE
  BY <1>1
<1>4. \A x : LET cut == [r EXCEPT !.wire = x]
             IN cut.status = r.status /\ cut.lines = r.lines /\ cut.wire = x
  BY <1>1
<1>5. \/ \E n \in 0 .. Len(w) : got = [r EXCEPT !.wire = SubSeq(w, 1, n)]
      \/ \E n \in DOMAIN w : /\ w[n].kind = "chunk"
                             /\ got = [r EXCEPT !.wire = Append(SubSeq(w, 1, n - 1), Chunk(<<>>, FALSE))]
  BY <1>3 DEF Arrived
<1>6. ASSUME NEW n \in 0 .. Len(w)
      PROVE  /\ SubSeq(w, 1, n) \in Seq(Pieces) /\ Len(SubSeq(w, 1, n)) = n
             /\ \A i \in 1 .. n : SubSeq(w, 1, n)[i] = w[i]
  <2>1. n \in Int /\ \A i \in 1 .. n : w[i] \in Pieces BY <1>2
  <2> QED BY <1>2, <2>1, SubSeqProperties
<1> HIDE DEF w
<1>7. CASE \E n \in 0 .. Len(w) : got = [r EXCEPT !.wire = SubSeq(w, 1, n)]
  <2>1. PICK n \in 0 .. Len(w) : got = [r EXCEPT !.wire = SubSeq(w, 1, n)]
    BY <1>7
  <2>2. got.status = r.status /\ got.lines = r.lines /\ got.wire = SubSeq(w, 1, n)
    BY <1>4, <2>1
  <2>3. n \in Nat /\ n - 0 = n /\ n # n - 0 + 1 /\ 0 <= n /\ n <= Len(w) BY <1>2
  <2>4. \A i \in 1 .. n : 0 + i = i OBVIOUS
  <2>5. PICK s : s = SubSeq(w, 1, n)
    OBVIOUS
  <2>6. s \in Seq(Pieces) /\ Len(s) = n - 0 /\ \A i \in 1 .. n - 0 : s[i] = w[0 + i]
    BY <1>6, <2>3, <2>4, <2>5
  <2>7. Comes(w, s, 0) BY <2>3, <2>6 DEF Comes
  <2> QED BY <2>2, <2>5, <2>7 DEF w
<1>8. CASE \E n \in DOMAIN w : /\ w[n].kind = "chunk"
                               /\ got = [r EXCEPT !.wire = Append(SubSeq(w, 1, n - 1), Chunk(<<>>, FALSE))]
  <2>1. PICK n \in DOMAIN w : /\ w[n].kind = "chunk"
                              /\ got = [r EXCEPT !.wire = Append(SubSeq(w, 1, n - 1), Chunk(<<>>, FALSE))]
    BY <1>8
  <2>2. PICK m : m = n - 1
    OBVIOUS
  <2>3. m \in 0 .. Len(w) /\ m \in Nat /\ m - 0 = m /\ 0 <= m /\ m <= Len(w) BY <1>2, <2>2
  <2>4. PICK s : s = SubSeq(w, 1, m)
    OBVIOUS
  <2>5. s \in Seq(Pieces) /\ Len(s) = m /\ \A i \in 1 .. m : s[i] = w[i]
    BY <1>6, <2>3, <2>4
  <2>6. Chunk(<<>>, FALSE) \in Pieces
    <3>1. <<>> \in Seq(Byte) BY EmptySeq
    <3> QED BY <3>1 DEF Chunk, Pieces
  <2>7. PICK t : t = Append(s, Chunk(<<>>, FALSE))
    OBVIOUS
  <2>8. /\ t \in Seq(Pieces) /\ Len(t) = m + 1 /\ t[m + 1] = Chunk(<<>>, FALSE)
        /\ \A i \in 1 .. m : t[i] = w[i]
    <3>1. /\ t \in Seq(Pieces) /\ Len(t) = Len(s) + 1 /\ t[Len(s) + 1] = Chunk(<<>>, FALSE)
          /\ \A i \in 1 .. Len(s) : t[i] = s[i]
      <4>1. PICK c : c = Chunk(<<>>, FALSE) OBVIOUS
      <4>2. s \in Seq(Pieces) /\ c \in Pieces /\ t = Append(s, c) BY <2>5, <2>6, <2>7, <4>1
      <4>3. /\ t \in Seq(Pieces) /\ Len(t) = Len(s) + 1 /\ t[Len(s) + 1] = c
            /\ \A i \in 1 .. Len(s) : t[i] = s[i]
        BY <4>2, AppendProperties
      <4> QED BY <4>1, <4>3
    <3> QED BY <2>5, <3>1
  <2>9. got.status = r.status /\ got.lines = r.lines /\ got.wire = t
    BY <1>4, <2>1, <2>2, <2>4, <2>7
  <2>10. \A i \in 1 .. m : 0 + i = i OBVIOUS
  <2>11. Comes(w, t, 0) BY <2>1, <2>3, <2>8, <2>10 DEF Comes
  <2> QED BY <2>9, <2>11 DEF w
<1> QED
  BY <1>5, <1>7, <1>8 DEF w

\* The next of it is the next piece, or the beginning of one.
LEMMA ComesNext ==
  ASSUME NEW w \in Seq(Pieces), NEW wire, NEW k \in Nat, Comes(w, wire, k), wire # <<>>
  PROVE  \/ k < Len(w) /\ Head(wire) = w[k + 1] /\ Comes(w, Tail(wire), k + 1)
         \/ Head(wire) = Chunk(<<>>, FALSE) /\ \E i \in DOMAIN w : w[i].kind = "chunk"
<1>1. PICK n \in Nat :
        /\ k <= n /\ n <= Len(w)
        /\ wire \in Seq(Pieces) /\ Len(wire) \in {n - k, n - k + 1}
        /\ \A i \in 1 .. n - k : wire[i] = w[k + i]
        /\ Len(wire) = n - k + 1 => /\ wire[n - k + 1] = Chunk(<<>>, FALSE)
                                    /\ \E i \in DOMAIN w : w[i].kind = "chunk"
  BY DEF Comes
<1>2. Len(w) \in Nat /\ Len(wire) \in Nat \ {0} /\ Head(wire) = wire[1]
  BY <1>1, LenProperties, EmptySeq
<1>3. CASE n = k
  <2>1. Len(wire) = 1 /\ n - k + 1 = 1 BY <1>1, <1>2, <1>3
  <2> QED BY <1>1, <1>2, <2>1
<1>4. CASE n # k
  <2>1. PICK t : t = Tail(wire)
    OBVIOUS
  <2>2. t \in Seq(Pieces) /\ Len(t) = Len(wire) - 1 /\ \A i \in 1 .. Len(t) : t[i] = wire[i + 1]
    BY <1>1, <2>1, HeadTailProperties
  <2>3. k < n /\ k + 1 <= n /\ k < Len(w) /\ Head(wire) = w[k + 1]
    BY <1>1, <1>2, <1>4
  <2>4. Len(t) \in {n - (k + 1), n - (k + 1) + 1}
    BY <1>1, <1>2, <2>2
  <2>5. ASSUME NEW i \in 1 .. n - (k + 1) PROVE t[i] = w[(k + 1) + i]
    <3>1. i \in 1 .. Len(t) /\ i + 1 \in 1 .. n - k /\ k + (i + 1) = (k + 1) + i BY <1>2, <2>3, <2>4
    <3> QED BY <1>1, <2>2, <3>1
  <2>6. ASSUME Len(t) = n - (k + 1) + 1
        PROVE  /\ t[n - (k + 1) + 1] = Chunk(<<>>, FALSE)
               /\ \E i \in DOMAIN w : w[i].kind = "chunk"
    <3>1. n - (k + 1) + 1 = n - k /\ (n - k) + 1 = n - k + 1 /\ n - k \in Nat \ {0}
      BY <2>3
    <3>2. Len(t) = n - k BY <2>6, <3>1
    <3>4. Len(wire) = Len(t) + 1 BY <1>2, <2>2
    <3>5. Len(wire) = n - k + 1 BY <3>2, <3>4
    <3>6. n - k \in 1 .. Len(t) BY <3>1, <3>2
    <3>3. t[n - k] = wire[n - k + 1] BY <2>2, <3>6
    <3> QED BY <1>1, <3>1, <3>3, <3>5
  <2>7. Comes(w, t, k + 1)
    BY <1>1, <2>2, <2>3, <2>4, <2>5, <2>6 DEF Comes
  <2> QED BY <2>1, <2>3, <2>7
<1> QED
  BY <1>3, <1>4

\* How a response that is read is framed.
LEMMA ResponseIs ==
  ASSUME NEW method, NEW r, NEW end \in Ends, NEW response,
         response = read_response(method, r, end), response.error = Ok
  PROVE  /\ r.headed /\ response.value.status = r.status /\ response.value # Nothing
         /\ ~InvalidLength(r.lines)
         /\ \/ NoBody(method, r.status) /\ response.value.framing = "none"
            \/ /\ ~NoBody(method, r.status) /\ Chunked(r.lines)
               /\ response.value.framing = "chunked"
            \/ /\ ~NoBody(method, r.status) /\ ~Chunked(r.lines) /\ ~HasLength(r.lines)
               /\ response.value.framing = "close"
            \/ /\ ~NoBody(method, r.status) /\ ~Chunked(r.lines) /\ HasLength(r.lines)
               /\ ~(Length(r.lines) > Len(Raw(r.wire)))
               /\ response.value.framing = "none"
               /\ response.value.body = SubSeq(Raw(r.wire), 1, Length(r.lines))
<1> DEFINE dropped == {name \in Names(r.lines) : is_hop_by_hop(name)}
                        \cup IF Chunked(r.lines) THEN {"content-length"} ELSE {}
           headers == Without(Headers(r.lines), dropped)
           Response(body, framing) ==
             Found([status |-> r.status, headers |-> headers, body |-> body, framing |-> framing])
<1>1. response = IF ~r.headed THEN Failed(end)
                 ELSE IF r.status = 0 \/ InvalidLength(r.lines) THEN Failed("startup")
                 ELSE IF NoBody(method, r.status) THEN Response(<<>>, "none")
                 ELSE IF Chunked(r.lines) THEN Response(<<>>, "chunked")
                 ELSE IF ~HasLength(r.lines) THEN Response(<<>>, "close")
                 ELSE IF Length(r.lines) > Len(Raw(r.wire)) THEN Failed(end)
                 ELSE Response(SubSeq(Raw(r.wire), 1, Length(r.lines)), "none")
  BY Zenon DEF read_response
<1>2. Failed(end).error # Ok /\ Failed("startup").error # Ok
  BY DEF Failed, Ok, Ends
<1> HIDE DEF headers
<1>3. \A body, framing :
        /\ Response(body, framing).value.status = r.status
        /\ Response(body, framing).value.body = body
        /\ Response(body, framing).value.framing = framing
        /\ Response(body, framing).value # Nothing
  BY DEF Found, Nothing
<1> HIDE DEF Response
<1>4. r.headed /\ ~(r.status = 0 \/ InvalidLength(r.lines))
  BY <1>1, <1>2
<1>5. CASE NoBody(method, r.status)
  <2>1. response = Response(<<>>, "none") BY <1>1, <1>4, <1>5
  <2> QED BY <1>3, <1>4, <1>5, <2>1
<1>6. CASE ~NoBody(method, r.status) /\ Chunked(r.lines)
  <2>1. response = Response(<<>>, "chunked") BY <1>1, <1>4, <1>6
  <2> QED BY <1>3, <1>4, <1>6, <2>1
<1>7. CASE ~NoBody(method, r.status) /\ ~Chunked(r.lines) /\ ~HasLength(r.lines)
  <2>1. response = Response(<<>>, "close") BY <1>1, <1>4, <1>7
  <2> QED BY <1>3, <1>4, <1>7, <2>1
<1>8. CASE ~NoBody(method, r.status) /\ ~Chunked(r.lines) /\ HasLength(r.lines)
  <2>1. PICK body : body = SubSeq(Raw(r.wire), 1, Length(r.lines))
    OBVIOUS
  <2>2. ~(Length(r.lines) > Len(Raw(r.wire))) /\ response = Response(body, "none")
    BY <1>1, <1>2, <1>4, <1>8, <2>1
  <2>3. /\ response.value.status = r.status /\ response.value.framing = "none"
        /\ response.value.body = body /\ response.value # Nothing
    BY <1>3, <2>2
  <2> QED BY <1>4, <1>8, <2>1, <2>2, <2>3
<1> QED
  BY <1>5, <1>6, <1>7, <1>8

-----------------------------------------------------------------------------
(* A body that is streamed. *)

\* The client has the first j pieces of w, the stream brings the next up to the
\* k-th, and then perhaps nothing that counts and an error.
Streamed(w, body, s, j, k) ==
  /\ j \in Nat /\ k \in Nat /\ j <= k /\ k <= Len(w)
  /\ body = Part(w, j)
  /\ s \in Seq(Seq(Byte) \cup {"error"}) /\ Len(s) >= k - j
  /\ \A i \in 1 .. k - j : s[i] = BytesOf(w[j + i])
  /\ \A i \in 1 .. Len(s) : i > k - j => s[i] \in {<<>>, "error"}
  /\ Len(s) > k - j => s[Len(s)] = "error"

\* At first there is nothing.
LEMMA StreamedNothing ==
  ASSUME NEW w \in Seq(Pieces)
  PROVE  Streamed(w, <<>>, <<>>, 0, 0)
<1>1. <<>> \in Seq(Seq(Byte) \cup {"error"}) /\ Len(<<>>) = 0 /\ Part(w, 0) = <<>> /\ Len(w) \in Nat
  BY EmptySeq, PartType, LenProperties
<1> QED
  BY <1>1 DEF Streamed

\* The next piece is put into the stream.
LEMMA StreamedMore ==
  ASSUME NEW w \in Seq(Pieces), NEW body, NEW s, NEW j, NEW k, Streamed(w, body, s, j, k),
         Len(s) = k - j, k < Len(w)
  PROVE  /\ Streamed(w, body, Append(s, BytesOf(w[k + 1])), j, k + 1)
         /\ Len(Append(s, BytesOf(w[k + 1]))) = (k + 1) - j
<1> DEFINE S == Seq(Byte) \cup {"error"}
<1>1. /\ j \in Nat /\ k \in Nat /\ j <= k /\ body = Part(w, j) /\ s \in Seq(S)
      /\ \A i \in 1 .. k - j : s[i] = BytesOf(w[j + i])
  BY DEF Streamed
<1>2. Len(w) \in Nat /\ w[k + 1] \in Pieces
  BY <1>1, LenProperties, ElementOfSeq
<1>3. PICK b : b = BytesOf(w[k + 1])
  OBVIOUS
<1>4. b \in S
  BY <1>2, <1>3, PieceType
<1>5. PICK t : t = Append(s, b)
  OBVIOUS
<1> HIDE DEF S
<1>6. t \in Seq(S) /\ Len(t) = Len(s) + 1 /\ t[Len(s) + 1] = b /\ \A i \in 1 .. Len(s) : t[i] = s[i]
  BY <1>1, <1>4, <1>5, AppendProperties
<1>7. Len(t) = (k + 1) - j /\ (k + 1) - j \in Nat
  BY <1>1, <1>6
<1>8. ASSUME NEW i \in 1 .. (k + 1) - j PROVE t[i] = BytesOf(w[j + i])
  <2>1. CASE i \in 1 .. k - j
    BY <1>1, <1>6, <2>1
  <2>2. CASE i = Len(s) + 1
    <3>1. j + i = k + 1 BY <1>1, <2>2
    <3> QED BY <1>3, <1>6, <2>2, <3>1
  <2> QED BY <1>1, <2>1, <2>2
<1>9. Streamed(w, body, t, j, k + 1)
  BY <1>1, <1>2, <1>6, <1>7, <1>8 DEF Streamed, S
<1> QED
  BY <1>3, <1>5, <1>7, <1>9

\* The stream ends in an error.
LEMMA StreamedError ==
  ASSUME NEW w \in Seq(Pieces), NEW body, NEW s, NEW j, NEW k, Streamed(w, body, s, j, k),
         Len(s) = k - j, NEW more \in {<<>>, <<<<>>>>}
  PROVE  /\ Streamed(w, body, s \o more \o <<"error">>, j, k)
         /\ Len(s \o more \o <<"error">>) > k - j
<1> DEFINE S == Seq(Byte) \cup {"error"}
<1>1. /\ j \in Nat /\ k \in Nat /\ j <= k /\ k <= Len(w) /\ body = Part(w, j) /\ s \in Seq(S)
      /\ \A i \in 1 .. k - j : s[i] = BytesOf(w[j + i])
  BY DEF Streamed
<1>2. <<>> \in S /\ "error" \in S
  BY EmptySeq
<1> HIDE DEF S
<1>3. /\ more \in Seq(S) /\ Len(more) \in {0, 1} /\ \A i \in 1 .. Len(more) : more[i] = <<>>
      /\ <<"error">> \in Seq(S) /\ Len(<<"error">>) = 1 /\ <<"error">>[1] = "error"
  <2>1. <<"error">> \in Seq(S) /\ Len(<<"error">>) = 1 /\ <<"error">>[1] = "error"
    BY <1>2
  <2>2. CASE more = <<>>
    BY <2>1, <2>2, EmptySeq
  <2>3. CASE more = <<<<>>>>
    <3>1. PICK z : z = <<>> OBVIOUS
    <3>2. more = <<z>> /\ z \in S BY <1>2, <2>3, <3>1
    <3>3. more \in Seq(S) /\ Len(more) = 1 /\ more[1] = z BY <3>2
    <3> QED BY <2>1, <3>1, <3>3
  <2> QED BY <2>2, <2>3
<1>4. PICK a : a = s \o more
  OBVIOUS
<1>5. /\ a \in Seq(S) /\ Len(a) = Len(s) + Len(more)
      /\ \A i \in 1 .. Len(s) + Len(more) : a[i] = IF i <= Len(s) THEN s[i] ELSE more[i - Len(s)]
  BY <1>1, <1>3, <1>4, ConcatProperties
<1>6. PICK e : e = <<"error">>
  OBVIOUS
<1>7. e \in Seq(S) /\ Len(e) = 1 /\ e[1] = "error"
  BY <1>3, <1>6
<1>8. PICK t : t = a \o e
  OBVIOUS
<1>9. /\ t \in Seq(S) /\ Len(t) = Len(a) + 1
      /\ \A i \in 1 .. Len(a) + 1 : t[i] = IF i <= Len(a) THEN a[i] ELSE e[i - Len(a)]
  <2>1. /\ t \in Seq(S) /\ Len(t) = Len(a) + Len(e)
        /\ \A i \in 1 .. Len(a) + Len(e) : t[i] = IF i <= Len(a) THEN a[i] ELSE e[i - Len(a)]
    <3>1. a \in Seq(S) /\ e \in Seq(S) /\ t = a \o e BY <1>5, <1>7, <1>8
    <3> QED BY <3>1, ConcatProperties
  <2> QED BY <1>7, <2>1
<1>10. Len(s) \in Nat /\ Len(a) \in Nat /\ Len(t) > k - j /\ Len(a) >= Len(s) /\ Len(s) = k - j
  BY <1>1, <1>3, <1>5, <1>9
<1>11. ASSUME NEW i \in 1 .. k - j PROVE t[i] = BytesOf(w[j + i])
  <2>1. i <= Len(s) /\ i <= Len(a) /\ i \in 1 .. Len(a) + 1 /\ i \in 1 .. Len(s) + Len(more)
    BY <1>3, <1>10
  <2>2. t[i] = a[i] /\ a[i] = s[i]
    BY <1>5, <1>9, <2>1
  <2> QED BY <1>1, <2>2
<1>12. t[Len(t)] = "error"
  <2>1. Len(t) \in 1 .. Len(a) + 1 /\ ~(Len(t) <= Len(a)) /\ Len(t) - Len(a) = 1 BY <1>9, <1>10
  <2> QED BY <1>7, <1>9, <2>1
<1>13. ASSUME NEW i \in 1 .. Len(t), i > k - j PROVE t[i] \in {<<>>, "error"}
  <2>1. CASE i <= Len(a)
    <3>1. t[i] = a[i] /\ ~(i <= Len(s)) /\ i \in 1 .. Len(s) + Len(more) BY <1>5, <1>9, <1>10, <1>13, <2>1
    <3>2. a[i] = more[i - Len(s)] BY <1>5, <3>1
    <3>4. i - Len(s) \in 1 .. Len(more) BY <1>3, <1>10, <3>1
    <3> QED BY <1>3, <3>1, <3>2, <3>4
  <2>2. CASE ~(i <= Len(a))
    <3>1. i = Len(t) BY <1>9, <1>10, <1>13, <2>2
    <3> QED BY <1>12, <3>1
  <2> QED BY <2>1, <2>2
<1>14. Streamed(w, body, t, j, k)
  BY <1>1, <1>9, <1>10, <1>11, <1>12, <1>13 DEF Streamed, S
<1> QED
  BY <1>4, <1>6, <1>8, <1>10, <1>14

\* The client gets the next of the stream.
LEMMA StreamedNext ==
  ASSUME NEW w \in Seq(Pieces), NEW body, NEW s, NEW j, NEW k, Streamed(w, body, s, j, k),
         s # <<>>, Head(s) # "error"
  PROVE  \E i \in {j, j + 1} : /\ Streamed(w, body \o Head(s), Tail(s), i, k)
                               /\ Len(Tail(s)) = k - i <=> Len(s) = k - j
<1> DEFINE S == Seq(Byte) \cup {"error"}
<1>1. /\ j \in Nat /\ k \in Nat /\ j <= k /\ k <= Len(w) /\ body = Part(w, j)
      /\ s \in Seq(S) /\ Len(s) >= k - j
      /\ \A i \in 1 .. k - j : s[i] = BytesOf(w[j + i])
      /\ \A i \in 1 .. Len(s) : i > k - j => s[i] \in {<<>>, "error"}
      /\ Len(s) > k - j => s[Len(s)] = "error"
  BY DEF Streamed
<1>2. Len(s) \in Nat \ {0} /\ Head(s) = s[1] /\ Len(w) \in Nat
  BY <1>1, EmptySeq, LenProperties
<1>3. PICK t : t = Tail(s)
  OBVIOUS
<1> HIDE DEF S
<1>4. t \in Seq(S) /\ Len(t) = Len(s) - 1 /\ \A i \in 1 .. Len(t) : t[i] = s[i + 1]
  BY <1>1, <1>3, HeadTailProperties
<1>5. CASE j < k
  <2>1. Head(s) = BytesOf(w[j + 1])
    BY <1>1, <1>2, <1>5
  <2>2. body \o Head(s) = Part(w, j + 1)
    <3>1. j < Len(w) BY <1>1, <1>2, <1>5
    <3> QED BY <1>1, <2>1, <3>1, PartStep
  <2>3. ASSUME NEW i \in 1 .. k - (j + 1) PROVE t[i] = BytesOf(w[(j + 1) + i])
    <3>1. i \in 1 .. Len(t) /\ i + 1 \in 1 .. k - j /\ j + (i + 1) = (j + 1) + i
      BY <1>1, <1>2, <1>4, <1>5
    <3> QED BY <1>1, <1>4, <3>1
  <2>4. ASSUME NEW i \in 1 .. Len(t), i > k - (j + 1) PROVE t[i] \in {<<>>, "error"}
    <3>1. i + 1 \in 1 .. Len(s) /\ i + 1 > k - j BY <1>1, <1>2, <1>4, <2>4
    <3> QED BY <1>1, <1>4, <3>1
  <2>5. ASSUME Len(t) > k - (j + 1) PROVE t[Len(t)] = "error"
    <3>1. Len(s) > k - j /\ Len(t) \in 1 .. Len(t) /\ Len(t) + 1 = Len(s)
      BY <1>1, <1>2, <1>4, <1>5, <2>5
    <3> QED BY <1>1, <1>4, <3>1
  <2>6. j + 1 \in Nat /\ j + 1 <= k /\ Len(t) >= k - (j + 1) /\ (Len(t) = k - (j + 1) <=> Len(s) = k - j)
    BY <1>1, <1>2, <1>4, <1>5
  <2>7. Streamed(w, body \o Head(s), t, j + 1, k)
    BY <1>1, <1>4, <2>2, <2>3, <2>4, <2>5, <2>6 DEF Streamed, S
  <2> QED BY <1>3, <2>6, <2>7
<1>6. CASE j = k
  <2>1. k - j = 0 /\ 1 \in 1 .. Len(s) /\ Len(s) > k - j BY <1>1, <1>2, <1>6
  <2>2. Head(s) = <<>> BY <1>1, <1>2, <2>1
  <2>3. body \o Head(s) = body
    <3>1. body \in Seq(Byte)
      <4>1. j \in 0 .. Len(w) BY <1>1, <1>2
      <4> QED BY <1>1, <4>1, PartType
    <3> QED BY <2>2, <3>1, ConcatEmptySeq
  <2>4. Len(s) # 1 BY <1>1, <1>2, <2>1
  <2>5. Len(t) > 0 /\ Len(t) \in 1 .. Len(t) /\ Len(t) + 1 = Len(s) BY <1>2, <1>4, <2>4
  <2>6. t[Len(t)] = "error" BY <1>1, <1>4, <2>1, <2>5
  <2>7. ASSUME NEW i \in 1 .. Len(t) PROVE t[i] \in {<<>>, "error"}
    <3>1. i + 1 \in 1 .. Len(s) /\ i + 1 > k - j BY <1>2, <1>4, <2>1
    <3> QED BY <1>1, <1>4, <3>1
  <2>8. Streamed(w, body \o Head(s), t, j, k)
    <3>1. 1 .. k - j = {} BY <2>1
    <3>2. Len(t) >= k - j BY <2>1, <2>5
    <3> QED BY <1>1, <1>4, <2>3, <2>6, <2>7, <3>1, <3>2 DEF Streamed, S
  <2>9. Len(t) = k - j <=> Len(s) = k - j BY <2>1, <2>5
  <2> QED BY <1>3, <2>8, <2>9
<1> QED
  BY <1>1, <1>5, <1>6

-----------------------------------------------------------------------------
(* What the client takes for whole is whole. *)

\* One thing comes after the other: the reply when an attempt is over, the
\* answer when there is a reply.
TurnInv ==
  /\ job \in {"none", "queued", "entered", "connect", "secure", "attempt", "pause"} => reply = Nothing /\ stream = <<>>
  /\ job = "none" => source = Nothing
  /\ job = "pump" => DOMAIN link = {"wire", "end"}
  /\ source # Nothing => source \in Responses
  /\ connection \in {"write", "stream"} => reply # Nothing
  /\ connection \in {"connect", "handshake", "request", "wait", "write"} => answer = Nothing
  /\ connection = "stream" => answer # Nothing /\ ~answer.ended /\ reply.framing # "none"
  /\ answer # Nothing =>
       /\ DOMAIN answer = {"status", "method", "framing", "headers", "body", "ended"}
       /\ job # "none" => reply # Nothing

\* What the job replies fits the server's response, or is an error.
ReplyInv ==
  reply # Nothing /\ source # Nothing =>
    \/ reply.framing = "websocket"
    \/ reply.framing = "none" /\ reply.status = 500
    \/ /\ reply.framing = "none"
       /\ \/ NoBody(parsed.method, reply.status)
          \/ /\ ~Chunked(source.lines) /\ HasLength(source.lines)
             /\ reply.body = Content(source.wire)
    \/ reply.framing = "chunked" /\ Chunked(source.lines)
    \/ reply.framing = "close" /\ ~Chunked(source.lines) /\ ~HasLength(source.lines)

\* What was answered fits the reply; of a body that is streamed it is a part,
\* and all of it if the end was sent behind a chunked one.
AnswerInv ==
  answer # Nothing /\ source # Nothing =>
    /\ answer.method = parsed.method /\ answer.status = reply.status
    /\ \/ /\ reply.framing = "none"
          /\ NoBody(parsed.method, reply.status) \/ answer.body = reply.body
       \/ /\ reply.framing \in {"chunked", "close"}
          /\ "transfer-encoding" \in DOMAIN answer.headers
          /\ \E j \in 0 .. Len(source.wire) : answer.body = Part(source.wire, j)
          /\ reply.framing = "chunked" /\ answer.ended => answer.body = Content(source.wire)

\* The body that the client has got.
Body == IF answer = Nothing THEN <<>> ELSE answer.body

\* While a body is streamed: what the client has, what is in the stream and what
\* is still to come make up the body.  A job that is done has put an error into
\* the stream, or all of the body, unless nobody can tell.
Pumping(j, k) ==
  /\ Streamed(source.wire, Body, stream, j, k)
  /\ \/ job = "pump" /\ Len(stream) = k - j /\ Comes(source.wire, link.wire, k)
     \/ /\ job = "done"
        /\ \/ reply.framing = "close" \/ Len(stream) > k - j
           \/ Part(source.wire, k) = Content(source.wire)

PumpInv ==
  (/\ reply # Nothing /\ source # Nothing /\ connection \in {"wait", "write", "stream"}
   /\ reply.framing \in {"chunked", "close"}) =>
    \E j, k \in 0 .. Len(source.wire) : Pumping(j, k)

WholeInv == TurnInv /\ ReplyInv /\ AnswerInv /\ PumpInv

\* An answer is a record, and one that is streamed is announced as chunked.
LEMMA SentIs ==
  ASSUME NEW r, NEW method, NEW a, a = Sent(r, method)
  PROVE  /\ DOMAIN a = {"status", "method", "framing", "headers", "body", "ended"}
         /\ a # Nothing /\ a.status = r.status /\ a.method = method /\ ~a.ended
         /\ r.framing = "none" => NoBody(method, r.status) \/ a.body = r.body
         /\ r.framing # "none" => a.body = <<>> /\ "transfer-encoding" \in DOMAIN a.headers
<1> DEFINE headers == write_response_headers(method, r)
           body == IF r.framing = "none" /\ ~NoBody(method, r.status) THEN r.body ELSE <<>>
<1>1. a = [status |-> r.status, method |-> method, framing |-> r.framing,
           headers |-> headers, body |-> body, ended |-> FALSE]
  BY Zenon DEF Sent
<1>2. r.framing # "none" => "transfer-encoding" \in DOMAIN headers
  BY DEF write_response_headers, With, Line
<1>3. (r.framing = "none" => NoBody(method, r.status) \/ body = r.body) /\ (r.framing # "none" => body = <<>>)
  OBVIOUS
<1> HIDE DEF headers, body
<1>4. /\ DOMAIN a = {"status", "method", "framing", "headers", "body", "ended"}
      /\ a.status = r.status /\ a.method = method /\ ~a.ended /\ a.body = body /\ a.headers = headers
  BY <1>1
<1>5. a # Nothing
  <2>1. DOMAIN Nothing = {"error"} BY DEF Nothing
  <2>2. "status" # "error" OBVIOUS
  <2> QED BY <1>4, <2>1, <2>2
<1> QED
  BY <1>2, <1>3, <1>4, <1>5

\* A step that changes no message keeps the invariant when it takes turns.
LEMMA TurnsPreserve ==
  ASSUME WholeInv, UNCHANGED <<reply, source, answer, parsed, stream, link>>,
         \/ job' = job
         \/ job \in {"queued", "entered"} /\ job' \in {"entered", "connect", "done"}
         \/ job \in {"connect", "secure", "pause"} /\ job' \in {"connect", "secure", "attempt"}
         \/ /\ job = "pump" /\ job' = "done"
            /\ connection \in {"done", "session"} /\ connection' = connection,
         \/ connection' = connection \/ connection' \in {"done", "session"}
         \/ connection = "connect" /\ connection' = "handshake"
         \/ connection = "handshake" /\ connection' = "request"
         \/ connection = "wait" /\ connection' = "write" /\ reply # Nothing
  PROVE  WholeInv'
<1>1. TurnInv'
  BY DEF WholeInv, TurnInv
<1>2. ReplyInv'
  BY DEF WholeInv, ReplyInv
<1>3. AnswerInv'
  BY DEF WholeInv, AnswerInv
<1>4. PumpInv'
  <2>1. SUFFICES ASSUME reply # Nothing, source # Nothing, connection' \in {"wait", "write", "stream"},
                        reply.framing \in {"chunked", "close"}
                 PROVE  \E j, k \in 0 .. Len(source.wire) : Pumping(j, k)'
    BY DEF PumpInv
  <2>2. connection \in {"wait", "write", "stream"}
    BY <2>1
  <2>3. job' = job
    BY <2>1, <2>2 DEF WholeInv, TurnInv
  <2>4. PICK j, k \in 0 .. Len(source.wire) : Pumping(j, k)
    BY <2>1, <2>2 DEF WholeInv, PumpInv
  <2>5. Pumping(j, k)'
    BY <2>3, <2>4 DEF Pumping, Body
  <2> QED BY <2>5
<1> QED
  BY <1>1, <1>2, <1>3, <1>4 DEF WholeInv

\* The head, and a body that is not streamed.
LEMMA WritesPreserves ==
  ASSUME WholeInv, Writes
  PROVE  WholeInv'
<1>1. CASE reply.framing = "websocket"
  <2>1. /\ UNCHANGED <<reply, source, answer, parsed, stream, link, job>>
        /\ connection' \in {"done", "session"}
    BY <1>1 DEF Writes, jobVars
  <2> QED BY <2>1, TurnsPreserve
<1>2. CASE reply.framing # "websocket"
  <2>1. /\ UNCHANGED <<reply, source, parsed, stream, link, job>>
        /\ connection = "write" /\ answer' = Sent(reply, parsed.method)
        /\ connection' = IF reply.framing = "none" THEN "done" ELSE "stream"
    BY <1>2 DEF Writes, jobVars
  <2>2. PICK a : a = Sent(reply, parsed.method)
    OBVIOUS
  <2>3. /\ DOMAIN a = {"status", "method", "framing", "headers", "body", "ended"}
        /\ a # Nothing /\ a.status = reply.status /\ a.method = parsed.method /\ ~a.ended
        /\ reply.framing = "none" => NoBody(parsed.method, reply.status) \/ a.body = reply.body
        /\ reply.framing # "none" => a.body = <<>> /\ "transfer-encoding" \in DOMAIN a.headers
    BY <2>2, SentIs
  <2>4. answer' = a /\ answer = Nothing /\ reply # Nothing
    BY <2>1, <2>2 DEF WholeInv, TurnInv
  <2>5. TurnInv'
    BY <2>1, <2>3, <2>4 DEF WholeInv, TurnInv
  <2>6. ReplyInv'
    BY <2>1 DEF WholeInv, ReplyInv
  <2>7. AnswerInv'
    <3>1. SUFFICES ASSUME source # Nothing
                   PROVE  /\ a.method = parsed.method /\ a.status = reply.status
                          /\ \/ /\ reply.framing = "none"
                                /\ NoBody(parsed.method, reply.status) \/ a.body = reply.body
                             \/ /\ reply.framing \in {"chunked", "close"}
                                /\ "transfer-encoding" \in DOMAIN a.headers
                                /\ \E j \in 0 .. Len(source.wire) : a.body = Part(source.wire, j)
                                /\ reply.framing = "chunked" /\ a.ended => a.body = Content(source.wire)
      BY <2>1, <2>4 DEF AnswerInv
    <3>2. reply.framing \in {"none", "chunked", "close"}
      BY <1>2, <2>4, <3>1 DEF WholeInv, ReplyInv
    <3>3. source.wire \in Seq(Pieces)
      BY <3>1, ResponseShape DEF WholeInv, TurnInv
    <3>4. 0 \in 0 .. Len(source.wire) /\ Part(source.wire, 0) = <<>>
      BY <3>3, PartType, LenProperties
    <3> QED BY <2>3, <3>2, <3>4
  <2>8. PumpInv'
    <3>1. SUFFICES ASSUME reply # Nothing, source # Nothing, connection' \in {"wait", "write", "stream"},
                          reply.framing \in {"chunked", "close"}
                   PROVE  \E j, k \in 0 .. Len(source.wire) : Pumping(j, k)'
      BY <2>1 DEF PumpInv
    <3>2. PICK j, k \in 0 .. Len(source.wire) : Pumping(j, k)
      BY <2>1, <3>1 DEF WholeInv, PumpInv
    <3>3. UNCHANGED Body
      BY <2>3, <2>4, <3>1 DEF Body
    <3>4. Pumping(j, k)'
      BY <2>1, <3>2, <3>3 DEF Pumping
    <3> QED BY <3>4
  <2> QED BY <2>5, <2>6, <2>7, <2>8 DEF WholeInv
<1> QED
  BY <1>1, <1>2

\* The client gets the next of a body, or the end of the answer.
LEMMA StreamsPreserves ==
  ASSUME WholeInv, Streams \/ EndsStream
  PROVE  WholeInv'
<1>1. /\ connection = "stream" /\ UNCHANGED <<reply, source, parsed, link, job>>
      /\ connection' \in {"stream", "done"}
  BY DEF Streams, EndsStream, jobVars
<1>2. reply # Nothing /\ answer # Nothing /\ ~answer.ended
      /\ DOMAIN answer = {"status", "method", "framing", "headers", "body", "ended"}
  BY <1>1 DEF WholeInv, TurnInv
<1>3. DOMAIN Nothing = {"error"}
  BY DEF Nothing
<1>4. CASE Streams /\ Head(stream) = "error"
  <2>1. UNCHANGED answer /\ connection' = "done" BY <1>4 DEF Streams
  <2>2. TurnInv' BY <1>1, <1>2, <2>1 DEF WholeInv, TurnInv
  <2>3. ReplyInv' BY <1>1 DEF WholeInv, ReplyInv
  <2>4. AnswerInv' BY <1>1, <2>1 DEF WholeInv, AnswerInv
  <2>5. PumpInv' BY <2>1 DEF PumpInv
  <2> QED BY <2>2, <2>3, <2>4, <2>5 DEF WholeInv
<1>5. CASE Streams /\ Head(stream) # "error"
  <2>1. /\ stream # <<>> /\ stream' = Tail(stream) /\ connection' = connection
        /\ answer' = [answer EXCEPT !.body = @ \o Head(stream)]
    BY <1>5 DEF Streams
  <2>2. PICK b : b = answer.body \o Head(stream)
    OBVIOUS
  <2>3. answer' = [answer EXCEPT !.body = b]
    BY <2>1, <2>2
  <2>4. /\ DOMAIN answer' = DOMAIN answer /\ answer' # Nothing /\ ~answer'.ended
        /\ answer'.status = answer.status /\ answer'.method = answer.method
        /\ answer'.headers = answer.headers /\ answer'.body = b
    BY <1>2, <1>3, <2>3
  <2>5. TurnInv' BY <1>1, <1>2, <2>1, <2>4 DEF WholeInv, TurnInv
  <2>6. ReplyInv' BY <1>1 DEF WholeInv, ReplyInv
  <2>7. CASE source = Nothing
    <3>1. AnswerInv' /\ PumpInv' BY <1>1, <2>7 DEF AnswerInv, PumpInv
    <3> QED BY <2>5, <2>6, <3>1 DEF WholeInv
  <2>8. CASE source # Nothing /\ reply.framing = "none"
    BY <1>1, <2>8 DEF WholeInv, TurnInv
  <2>9. CASE source # Nothing /\ reply.framing # "none"
    <3>1. source.wire \in Seq(Pieces)
      BY <2>9, ResponseShape DEF WholeInv, TurnInv
    <3>2. reply.framing \in {"chunked", "close"}
      BY <1>2, <2>9 DEF WholeInv, AnswerInv
    <3>3. PICK j, k \in 0 .. Len(source.wire) : Pumping(j, k)
      BY <1>1, <1>2, <2>9, <3>2 DEF WholeInv, PumpInv
    <3>4. Streamed(source.wire, answer.body, stream, j, k)
      BY <1>2, <3>3 DEF Pumping, Body
    <3>5. PICK i \in {j, j + 1} : /\ Streamed(source.wire, answer.body \o Head(stream), Tail(stream), i, k)
                                  /\ Len(Tail(stream)) = k - i <=> Len(stream) = k - j
      BY <1>5, <2>1, <3>1, <3>4, StreamedNext
    <3>6. Streamed(source.wire, b, stream', i, k) /\ (Len(stream') = k - i <=> Len(stream) = k - j)
      BY <2>1, <2>2, <3>5
    <3>7. i \in 0 .. Len(source.wire) /\ b = Part(source.wire, i) /\ Len(stream') >= k - i
      BY <3>1, <3>6, LenProperties DEF Streamed
    <3>8. AnswerInv'
      BY <1>1, <1>2, <2>4, <2>9, <3>2, <3>7 DEF WholeInv, AnswerInv
    <3>9. Pumping(i, k)'
      <4>1. Body' = b BY <2>4 DEF Body
      <4>2. Streamed(source.wire, Body, stream, i, k)' BY <1>1, <3>6, <4>1
      <4>3. Len(stream) > k - j => Len(stream') > k - i
        <5>1. Len(stream) \in Nat /\ Len(stream') \in Nat /\ i \in Nat /\ j \in Nat /\ k \in Nat
          <6>1. /\ stream \in Seq(Seq(Byte) \cup {"error"}) /\ stream' \in Seq(Seq(Byte) \cup {"error"})
                /\ i \in Nat /\ j \in Nat /\ k \in Nat
            BY <3>4, <3>6 DEF Streamed
          <6> QED BY <6>1, LenProperties
        <5>2. Len(stream') = k - i <=> Len(stream) = k - j BY <3>6
        <5>3. Len(stream') >= k - i BY <3>7
        <5>4. \A p, q, x, y \in Int : (p = x <=> q = y) /\ p >= x /\ q > y => p > x OBVIOUS
        <5>5. k - i \in Int /\ k - j \in Int BY <5>1
        <5> QED BY <5>1, <5>2, <5>3, <5>4, <5>5
      <4> QED BY <1>1, <3>3, <3>6, <4>2, <4>3 DEF Pumping
    <3>10. PumpInv'
      BY <1>1, <3>7, <3>9 DEF PumpInv
    <3> QED BY <2>5, <2>6, <3>8, <3>10 DEF WholeInv
  <2> QED BY <2>7, <2>8, <2>9
<1>6. CASE EndsStream
  <2>1. /\ stream = <<>> /\ job = "done" /\ connection' = "done" /\ UNCHANGED stream
        /\ answer' = [answer EXCEPT !.ended = TRUE]
    BY <1>6 DEF EndsStream, jobVars
  <2>2. /\ DOMAIN answer' = DOMAIN answer /\ answer' # Nothing
        /\ answer'.status = answer.status /\ answer'.method = answer.method
        /\ answer'.headers = answer.headers /\ answer'.body = answer.body
    BY <1>2, <1>3, <2>1
  <2>3. TurnInv' BY <1>1, <1>2, <2>1, <2>2 DEF WholeInv, TurnInv
  <2>4. ReplyInv' BY <1>1 DEF WholeInv, ReplyInv
  <2>5. PumpInv' BY <2>1 DEF PumpInv
  <2>6. ASSUME source # Nothing, reply.framing = "chunked"
        PROVE  answer.body = Content(source.wire)
    <3>1. source.wire \in Seq(Pieces)
      BY <2>6, ResponseShape DEF WholeInv, TurnInv
    <3>2. PICK j, k \in 0 .. Len(source.wire) : Pumping(j, k)
      BY <1>1, <1>2, <2>6 DEF WholeInv, PumpInv
    <3>3. Streamed(source.wire, answer.body, stream, j, k)
      BY <1>2, <3>2 DEF Pumping, Body
    <3>4. Len(stream) = 0 BY <2>1, EmptySeq
    <3>5. j = k /\ ~(Len(stream) > k - j) /\ answer.body = Part(source.wire, j)
      BY <3>3, <3>4 DEF Streamed
    <3> QED BY <2>1, <2>6, <3>2, <3>5 DEF Pumping
  <2>7. AnswerInv'
    BY <1>1, <1>2, <2>2, <2>6 DEF WholeInv, AnswerInv
  <2> QED BY <2>3, <2>4, <2>5, <2>7 DEF WholeInv
<1> QED
  BY <1>4, <1>5, <1>6

\* What an attempt comes to.
LEMMA ForwardsIs ==
  ASSUME NEW r, NEW wire, NEW end, Forwards(r, wire, end)
  PROVE  /\ UNCHANGED <<connection, parsed, stream, answer>>
         /\ \/ job' = "pause" /\ reply' = reply
            \/ job' = "done" /\ reply' = text(500)
            \/ job' = "done" /\ reply' = [framing |-> "websocket"]
            \/ /\ r.error = Ok /\ reply' = r.value
               /\ job' = IF r.value.framing = "none" THEN "done" ELSE "pump"
               /\ link' = [wire |-> wire, end |-> end]
  BY DEF Forwards, ForwardsWebSocket, ForwardsHttp, Errs

\* While the job attempts there is neither a reply nor an answer.
LEMMA Attempting ==
  ASSUME WholeInv, job \in {"connect", "secure", "attempt"}
  PROVE  reply = Nothing /\ stream = <<>> /\ answer = Nothing /\ connection \notin {"write", "stream"}
  BY DEF WholeInv, TurnInv

\* An attempt that the server does not answer.
LEMMA FailurePreserves ==
  ASSUME WholeInv, SecureFails \/ AttemptFails \/ AttemptIsRejected
  PROVE  WholeInv'
<1>1. job \in {"connect", "secure", "attempt"} /\ source' = Nothing
  BY DEF SecureFails, AttemptFails, AttemptIsRejected
<1>2. PICK r, wire, end : Forwards(r, wire, end)
  BY DEF SecureFails, AttemptFails, AttemptIsRejected
<1>3. /\ UNCHANGED <<connection, parsed, stream, answer>>
      /\ \/ job' = "pause" /\ reply' = reply
         \/ job' = "done"
         \/ job' = "pump" /\ DOMAIN link' = {"wire", "end"}
  BY <1>2, ForwardsIs
<1>4. reply = Nothing /\ stream = <<>> /\ answer = Nothing /\ connection \notin {"write", "stream"}
  BY <1>1, Attempting
<1>5. TurnInv'
  BY <1>1, <1>3, <1>4 DEF WholeInv, TurnInv
<1>6. ReplyInv' /\ AnswerInv' /\ PumpInv'
  BY <1>1 DEF ReplyInv, AnswerInv, PumpInv
<1> QED
  BY <1>5, <1>6 DEF WholeInv

\* Of a body that is not coded some pieces come, and each is on the wire as it is.
LEMMA DataComes ==
  ASSUME NEW w \in Seq(Pieces), \A i \in DOMAIN w : w[i].kind = "data",
         NEW wire, Comes(w, wire, 0)
  PROVE  \E n \in 0 .. Len(w) : Raw(wire) = Part(w, n)
<1>1. Len(w) \in Nat /\ DOMAIN w = 1 .. Len(w)
  BY LenProperties
<1>2. PICK n \in Nat :
        /\ 0 <= n /\ n <= Len(w)
        /\ wire \in Seq(Pieces) /\ Len(wire) \in {n - 0, n - 0 + 1}
        /\ \A i \in 1 .. n - 0 : wire[i] = w[0 + i]
        /\ Len(wire) = n - 0 + 1 => /\ wire[n - 0 + 1] = Chunk(<<>>, FALSE)
                                    /\ \E i \in DOMAIN w : w[i].kind = "chunk"
  BY DEF Comes
<1>3. Len(wire) = n
  <2>1. ~ \E i \in DOMAIN w : w[i].kind = "chunk" OBVIOUS
  <2>2. Len(wire) # n - 0 + 1 BY <1>2, <2>1
  <2>3. n - 0 = n OBVIOUS
  <2> QED BY <1>2, <2>2, <2>3
<1>4. \A i \in 1 .. n : 0 + i = i /\ i \in 1 .. n - 0
  OBVIOUS
<1>5. \A i \in 1 .. n : wire[i] = w[i]
  BY <1>2, <1>4
<1>6. wire \in Seq(Pieces) /\ n \in 0 .. Len(w)
  BY <1>1, <1>2
<1>7. PICK s : s = SubSeq(w, 1, n)
  OBVIOUS
<1>8. s \in Seq(Pieces) /\ Len(s) = n /\ \A i \in 1 .. n : s[i] = w[i]
  <2>1. \A i \in 1 .. n : w[i] \in Pieces BY <1>1, <1>6, ElementOfSeq
  <2> QED BY <1>7, <2>1, SubSeqProperties
<1>9. wire = s
  <2>1. \A i \in 1 .. Len(wire) : wire[i] = s[i] BY <1>3, <1>5, <1>8
  <2> QED BY <1>3, <1>6, <1>8, <2>1, SeqEqual
<1>10. \A i \in DOMAIN s : s[i].kind = "data"
  <2>1. DOMAIN s = 1 .. n BY <1>8, LenProperties
  <2> QED BY <1>1, <1>6, <1>8, <2>1
<1>11. Raw(s) = Content(s)
  BY <1>8, <1>10, RawIsContent
<1> QED
  BY <1>6, <1>7, <1>9, <1>11 DEF Part

\* The server answers.
LEMMA AnswersPreserves ==
  ASSUME WholeInv, AttemptIsAnswered
  PROVE  WholeInv'
<1>1. job = "attempt"
  BY DEF AttemptIsAnswered
<1>13. PICK r \in Responses, end \in Ends :
         /\ source' = r
         /\ \E got \in Arrived(r) : Forwards(read_response(parsed.method, got, end), got.wire, end)
  BY DEF AttemptIsAnswered
<1>14. PICK got \in Arrived(r) : Forwards(read_response(parsed.method, got, end), got.wire, end)
  BY <1>13
<1>2. source' = r /\ Forwards(read_response(parsed.method, got, end), got.wire, end)
  BY <1>13, <1>14
<1>3. PICK response : response = read_response(parsed.method, got, end)
  OBVIOUS
<1>4. /\ UNCHANGED <<connection, parsed, stream, answer>>
      /\ \/ job' = "pause" /\ reply' = reply
         \/ job' = "done" /\ reply' = text(500)
         \/ job' = "done" /\ reply' = [framing |-> "websocket"]
         \/ /\ response.error = Ok /\ reply' = response.value
            /\ job' = IF response.value.framing = "none" THEN "done" ELSE "pump"
            /\ link' = [wire |-> got.wire, end |-> end]
  BY <1>2, <1>3, ForwardsIs
<1>5. reply = Nothing /\ stream = <<>> /\ answer = Nothing /\ connection \notin {"write", "stream"}
  BY <1>1, Attempting
<1>6. TurnInv'
  BY <1>2, <1>4, <1>5 DEF WholeInv, TurnInv
<1>7. AnswerInv'
  BY <1>4, <1>5 DEF AnswerInv
<1>8. /\ r.lines \in Seq(Lines) /\ r.wire \in Seq(Pieces) /\ Framed(r.lines, r.wire)
      /\ Len(r.wire) \in Nat
  BY ResponseShape, LenProperties
<1>9. CASE job' = "pause" /\ reply' = reply
  <2>1. ReplyInv' /\ PumpInv' BY <1>5, <1>9 DEF ReplyInv, PumpInv
  <2> QED BY <1>6, <1>7, <2>1 DEF WholeInv
<1>10. CASE job' = "done" /\ reply' = text(500)
  <2>1. reply'.framing = "none" /\ reply'.status = 500 BY <1>10 DEF text
  <2>2. ReplyInv' /\ PumpInv' BY <2>1 DEF ReplyInv, PumpInv
  <2> QED BY <1>6, <1>7, <2>2 DEF WholeInv
<1>11. CASE job' = "done" /\ reply' = [framing |-> "websocket"]
  <2>1. reply'.framing = "websocket" BY <1>11
  <2>2. ReplyInv' /\ PumpInv' BY <2>1 DEF ReplyInv, PumpInv
  <2> QED BY <1>6, <1>7, <2>2 DEF WholeInv
<1>12. CASE /\ response.error = Ok /\ reply' = response.value
            /\ job' = IF response.value.framing = "none" THEN "done" ELSE "pump"
            /\ link' = [wire |-> got.wire, end |-> end]
  <2>1. /\ got.headed /\ response.value.status = got.status
        /\ ~InvalidLength(got.lines)
        /\ \/ NoBody(parsed.method, got.status) /\ response.value.framing = "none"
           \/ /\ ~NoBody(parsed.method, got.status) /\ Chunked(got.lines)
              /\ response.value.framing = "chunked"
           \/ /\ ~NoBody(parsed.method, got.status) /\ ~Chunked(got.lines) /\ ~HasLength(got.lines)
              /\ response.value.framing = "close"
           \/ /\ ~NoBody(parsed.method, got.status) /\ ~Chunked(got.lines) /\ HasLength(got.lines)
              /\ ~(Length(got.lines) > Len(Raw(got.wire)))
              /\ response.value.framing = "none"
              /\ response.value.body = SubSeq(Raw(got.wire), 1, Length(got.lines))
    BY <1>3, <1>12, ResponseIs
  <2>2. got.status = r.status /\ got.lines = r.lines /\ Comes(r.wire, got.wire, 0)
    BY <2>1, ArrivedComes
  <2>3. ReplyInv'
    <3>1. CASE NoBody(parsed.method, got.status) /\ response.value.framing = "none"
      BY <1>4, <1>12, <2>1, <3>1 DEF ReplyInv
    <3>2. CASE Chunked(got.lines) /\ response.value.framing = "chunked"
      BY <1>2, <1>12, <2>2, <3>2 DEF ReplyInv
    <3>3. CASE ~Chunked(got.lines) /\ ~HasLength(got.lines) /\ response.value.framing = "close"
      BY <1>2, <1>12, <2>2, <3>3 DEF ReplyInv
    <3>4. CASE /\ ~Chunked(got.lines) /\ HasLength(got.lines)
               /\ ~(Length(got.lines) > Len(Raw(got.wire)))
               /\ response.value.framing = "none"
               /\ response.value.body = SubSeq(Raw(got.wire), 1, Length(got.lines))
      <4>1. \A i \in DOMAIN r.wire : r.wire[i].kind = "data"
        BY <1>8, <2>2, <3>4 DEF Framed
      <4>2. PICK n \in 0 .. Len(r.wire) : Raw(got.wire) = Part(r.wire, n)
        BY <1>8, <2>2, <4>1, DataComes
      <4>3. Length(r.lines) \in Nat
        BY <1>8, <2>1, <2>2, <3>4, LengthIsLine
      <4>4. Len(Part(r.wire, n)) \in Nat
        <5>1. Part(r.wire, n) \in Seq(Byte) BY <1>8, PartType
        <5> QED BY <5>1, LenProperties
      <4>5. Length(r.lines) <= Len(Part(r.wire, n))
        BY <2>2, <3>4, <4>2, <4>3, <4>4
      <4>6. SubSeq(Part(r.wire, n), 1, Length(r.lines)) = Content(r.wire)
        BY <1>8, <2>1, <2>2, <3>4, <4>5, AllThere
      <4>7. reply'.body = Content(r.wire)
        BY <1>12, <2>2, <3>4, <4>2, <4>6
      <4> QED BY <1>2, <1>12, <2>2, <3>4, <4>7 DEF ReplyInv
    <3> QED BY <2>1, <3>1, <3>2, <3>3, <3>4
  <2>4. PumpInv'
    <3>1. SUFFICES ASSUME reply'.framing \in {"chunked", "close"}
                   PROVE  \E j, k \in 0 .. Len(r.wire) : Pumping(j, k)'
      BY <1>2 DEF PumpInv
    <3>2. job' = "pump" /\ link'.wire = got.wire
      BY <1>12, <3>1
    <3>3. Body' = <<>> /\ stream' = <<>>
      BY <1>4, <1>5 DEF Body
    <3>4. Streamed(r.wire, <<>>, <<>>, 0, 0)
      BY <1>8, StreamedNothing
    <3>5. Len(stream') = 0 - 0
      BY <3>3, EmptySeq
    <3>6. Pumping(0, 0)'
      BY <1>2, <2>2, <3>2, <3>3, <3>4, <3>5 DEF Pumping
    <3>7. 0 \in 0 .. Len(r.wire)
      BY <1>8
    <3> QED BY <3>6, <3>7
  <2> QED BY <1>6, <1>7, <2>3, <2>4 DEF WholeInv
<1> QED
  BY <1>4, <1>9, <1>10, <1>11, <1>12

\* The pump moves pieces into the stream.
LEMMA PumpPreserves ==
  ASSUME WholeInv, PumpsBytes \/ Pumps
  PROVE  WholeInv'
<1>1. /\ job = "pump" /\ UNCHANGED <<reply, source, answer, parsed, connection>>
      /\ reply.framing \in {"close", "chunked"}
      /\ job' \in {"pump", "done"} /\ DOMAIN link' = DOMAIN link
  BY DEF PumpsBytes, Pumps, PumpUnchanged, PumpsChunk, PumpsEnd
<1>2. TurnInv'
  BY <1>1 DEF WholeInv, TurnInv
<1>3. ReplyInv' /\ AnswerInv'
  BY <1>1 DEF WholeInv, ReplyInv, AnswerInv
<1>4. PumpInv'
  <2>1. SUFFICES ASSUME reply # Nothing, source # Nothing, connection \in {"wait", "write", "stream"}
                 PROVE  \E j, k \in 0 .. Len(source.wire) : Pumping(j, k)'
    BY <1>1 DEF PumpInv
  <2> DEFINE w == source.wire
  <2>2. PICK j, k \in 0 .. Len(w) : Pumping(j, k)
    BY <1>1, <2>1 DEF WholeInv, PumpInv
  <2>3. /\ Streamed(w, Body, stream, j, k) /\ Len(stream) = k - j /\ Comes(w, link.wire, k)
    BY <1>1, <2>2 DEF Pumping
  <2>4. w \in Seq(Pieces) /\ Framed(source.lines, w)
    BY <2>1, ResponseShape DEF WholeInv, TurnInv
  <2>5. Len(w) \in Nat /\ DOMAIN w = 1 .. Len(w) /\ \A i \in 1 .. Len(w) : w[i] \in Pieces
    BY <2>4, LenProperties, ElementOfSeq
  <2>6. UNCHANGED <<Body, w>>
    BY <1>1 DEF Body
  <2> HIDE DEF w
  <2>7. ASSUME NEW more \in {<<>>, <<<<>>>>}, stream' = stream \o more \o <<"error">>, job' = "done"
        PROVE  Pumping(j, k)'
    <3>1. Streamed(w, Body, stream', j, k) /\ Len(stream') > k - j
      BY <2>3, <2>4, <2>7, StreamedError
    <3> QED BY <2>6, <2>7, <3>1 DEF Pumping, w
  <2>8. ASSUME k < Len(w), stream' = Append(stream, BytesOf(w[k + 1]))
        PROVE  /\ Streamed(w, Body, stream', j, k + 1) /\ Len(stream') = (k + 1) - j
               /\ k + 1 \in 0 .. Len(w)
    BY <2>3, <2>4, <2>5, <2>8, StreamedMore
  <2>9. ASSUME k < Len(w), stream' = Append(stream, BytesOf(w[k + 1])), job' = "pump",
               Comes(w, link'.wire, k + 1)
        PROVE  Pumping(j, k + 1)'
    BY <2>6, <2>8, <2>9 DEF Pumping, w
  <2>10. <<>> \o <<"error">> = <<"error">> /\ stream \in Seq(Seq(Byte) \cup {"error"})
    BY <2>3, EmptySeq, ConcatEmptySeq DEF Streamed
  <2>11. stream \o <<>> = stream
    BY <2>10, ConcatEmptySeq
  <2>12. Append(stream, "error") = stream \o <<>> \o <<"error">>
    BY <2>10, <2>11, AppendIsConcat
  <2>13. DOMAIN link = {"wire", "end"}
    BY <1>1 DEF WholeInv, TurnInv
  <2>14. ASSUME link.wire # <<>>
         PROVE  \/ k < Len(w) /\ Head(link.wire) = w[k + 1] /\ Comes(w, Tail(link.wire), k + 1)
                \/ Head(link.wire) = Chunk(<<>>, FALSE) /\ \E i \in DOMAIN w : w[i].kind = "chunk"
    <3>1. k \in Nat BY <2>5
    <3>2. PICK wire : wire = link.wire OBVIOUS
    <3>3. Comes(w, wire, k) /\ wire # <<>> BY <2>3, <2>14, <3>2
    <3>4. \/ k < Len(w) /\ Head(wire) = w[k + 1] /\ Comes(w, Tail(wire), k + 1)
          \/ Head(wire) = Chunk(<<>>, FALSE) /\ \E i \in DOMAIN w : w[i].kind = "chunk"
      BY <2>4, <3>1, <3>3, ComesNext
    <3> QED BY <3>2, <3>4
  <2>15. CASE PumpsBytes /\ link.wire # <<>>
    <3>1. /\ stream' = Append(stream, Raw(<<Head(link.wire)>>)) /\ job' = "pump"
          /\ link' = [link EXCEPT !.wire = Tail(@)] /\ reply.framing = "close"
      BY <1>1, <2>15 DEF PumpsBytes
    <3>2. link'.wire = Tail(link.wire)
      BY <2>13, <3>1
    <3>3. \A i \in DOMAIN w : w[i].kind = "data"
      BY <2>1, <2>4, <3>1 DEF WholeInv, ReplyInv, Framed
    <3>4. k < Len(w) /\ Head(link.wire) = w[k + 1] /\ Comes(w, link'.wire, k + 1)
      BY <2>14, <2>15, <3>2, <3>3
    <3>5. w[k + 1] \in Pieces /\ w[k + 1].kind = "data"
      BY <2>5, <3>3, <3>4
    <3>6. Raw(<<Head(link.wire)>>) = BytesOf(w[k + 1])
      BY <3>4, <3>5, RawOfOne DEF BytesOf
    <3>7. Pumping(j, k + 1)' /\ k + 1 \in 0 .. Len(w)
      BY <2>8, <2>9, <3>1, <3>4, <3>6
    <3> QED BY <3>7 DEF w
  <2>16. CASE PumpsBytes /\ link.wire = <<>>
    <3>1. /\ job' = "done" /\ reply.framing = "close"
          /\ stream' = stream \/ stream' = Append(stream, "error")
      BY <2>16 DEF PumpsBytes
    <3>2. CASE stream' = stream
      <4>1. Pumping(j, k)' BY <1>1, <2>3, <2>6, <3>1, <3>2 DEF Pumping, w
      <4> QED BY <4>1 DEF w
    <3>3. CASE stream' = Append(stream, "error")
      <4>1. Pumping(j, k)' BY <2>7, <2>12, <3>1, <3>3
      <4> QED BY <4>1 DEF w
    <3> QED BY <3>1, <3>2, <3>3
  <2>17. CASE Pumps /\ PumpsEnd
    <3>1. job' = "done" /\ stream' = Append(stream, "error") BY <2>17 DEF PumpsEnd
    <3>2. Pumping(j, k)' BY <2>7, <2>12, <3>1
    <3> QED BY <3>2 DEF w
  <2>18. CASE Pumps /\ PumpsChunk
    <3>1. PICK piece : piece = Head(link.wire)
      OBVIOUS
    <3>2. PICK bytes : bytes = IF piece.kind = "chunk" THEN <<piece.bytes>> ELSE <<>>
      OBVIOUS
    <3> DEFINE bad == CASE piece.kind = "chunk" -> ~piece.closed
                        [] piece.kind = "last"  -> piece.lines > MaxHeaders
                        [] piece.kind = "data"  -> TRUE
    <3>4. /\ link.wire # <<>> /\ reply.framing = "chunked"
          /\ stream' = stream \o bytes \o IF bad THEN <<"error">> ELSE <<>>
          /\ job' = IF bad \/ piece.kind = "last" THEN "done" ELSE job
          /\ link' = [link EXCEPT !.wire = Tail(@)]
      BY <2>18, <3>1, <3>2, Zenon DEF Pumps, PumpsChunk
    <3>3. (piece.kind = "chunk" => (bad <=> ~piece.closed)) /\ (piece.kind = "data" => bad)
      OBVIOUS
    <3> HIDE DEF bad
    <3>5. link'.wire = Tail(link.wire)
      BY <2>13, <3>4
    <3>6. CASE piece = Chunk(<<>>, FALSE)
      <4>1. piece.kind = "chunk" /\ ~piece.closed /\ piece.bytes = <<>> BY <3>6 DEF Chunk
      <4>2. bad /\ bytes = <<<<>>>> BY <3>2, <3>3, <4>1
      <4>3. stream' = stream \o bytes \o <<"error">> /\ job' = "done" BY <3>4, <4>2
      <4>4. Pumping(j, k)' BY <2>7, <4>2, <4>3
      <4> QED BY <4>4 DEF w
    <3>7. CASE k < Len(w) /\ piece = w[k + 1] /\ Comes(w, link'.wire, k + 1)
      <4>1. piece \in Pieces BY <2>5, <3>7
      <4>2. piece.kind \in {"data", "chunk", "last"} /\ BytesOf(piece) \in Seq(Byte)
        BY <4>1, PieceType
      <4>3. CASE piece.kind = "chunk"
        <5>1. bytes = <<piece.bytes>> /\ BytesOf(piece) = piece.bytes BY <3>2, <4>3 DEF BytesOf
        <5>2. stream \o bytes = Append(stream, BytesOf(w[k + 1]))
          <6>1. BytesOf(piece) \in Seq(Byte) \cup {"error"} BY <4>2
          <6> QED BY <2>10, <3>7, <5>1, <6>1, AppendIsConcat
        <5>3. CASE ~bad
          <6>1. stream' = Append(stream, BytesOf(w[k + 1])) \o <<>> /\ job' = "pump"
            BY <1>1, <3>4, <4>3, <5>2, <5>3
          <6>2. Append(stream, BytesOf(w[k + 1])) \in Seq(Seq(Byte) \cup {"error"})
            BY <2>10, <3>7, <4>2, AppendProperties
          <6>3. stream' = Append(stream, BytesOf(w[k + 1])) BY <6>1, <6>2, ConcatEmptySeq
          <6>4. Pumping(j, k + 1)' /\ k + 1 \in 0 .. Len(w) BY <2>8, <2>9, <3>7, <6>1, <6>3
          <6> QED BY <6>4 DEF w
        <5>4. CASE bad
          <6>1. PICK s : s = Append(stream, BytesOf(w[k + 1]))
            OBVIOUS
          <6>2. Streamed(w, Body, s, j, k + 1) /\ Len(s) = (k + 1) - j
            BY <2>3, <2>4, <3>7, <6>1, StreamedMore
          <6>3. s \in Seq(Seq(Byte) \cup {"error"}) BY <6>2 DEF Streamed
          <6>4. s \o <<>> = s BY <6>3, ConcatEmptySeq
          <6>5. stream' = s \o <<>> \o <<"error">> /\ job' = "done"
            BY <3>4, <5>2, <5>4, <6>1, <6>4
          <6>6. Streamed(w, Body, stream', j, k + 1) /\ Len(stream') > (k + 1) - j
            BY <2>4, <6>2, <6>5, StreamedError
          <6>7. Pumping(j, k + 1)' BY <2>6, <6>5, <6>6 DEF Pumping, w
          <6>8. k + 1 \in 0 .. Len(w) BY <2>5, <3>7
          <6> QED BY <6>7, <6>8 DEF w
        <5> QED BY <5>3, <5>4
      <4>4. CASE piece.kind # "chunk" /\ bad
        <5>1. stream' = stream \o <<>> \o <<"error">> /\ job' = "done" BY <3>2, <3>4, <4>4
        <5>2. Pumping(j, k)' BY <2>7, <5>1
        <5> QED BY <5>2 DEF w
      <4>5. CASE piece.kind # "chunk" /\ ~bad
        <5>1. piece.kind = "last" BY <3>3, <4>2, <4>5
        <5>2. stream' = stream /\ job' = "done"
          <6>1. stream' = stream \o <<>> \o <<>> /\ job' = "done" BY <3>2, <3>4, <4>5, <5>1
          <6> QED BY <2>11, <6>1
        <5>3. Chunked(source.lines)
          BY <2>1, <3>4 DEF WholeInv, ReplyInv
        <5>4. k + 1 = Len(w)
          <6>1. k + 1 \in DOMAIN w BY <2>5, <3>7
          <6> QED BY <2>4, <3>7, <5>1, <5>3, <6>1 DEF Framed
        <5>5. Part(w, k) = Content(w)
          <6>1. Content(w) = Part(w, k) \o BytesOf(w[k + 1])
            <7>1. k \in Nat BY <2>5
            <7>2. Part(w, k + 1) = Part(w, k) \o BytesOf(w[k + 1]) BY <2>4, <3>7, <7>1, PartStep
            <7>3. Part(w, k + 1) = Content(w) BY <2>4, <5>4, PartType
            <7> QED BY <7>2, <7>3
          <6>2. BytesOf(w[k + 1]) = <<>> BY <3>7, <5>1 DEF BytesOf
          <6>3. Part(w, k) \in Seq(Byte) BY <2>4, PartType
          <6> QED BY <6>1, <6>2, <6>3, ConcatEmptySeq
        <5>6. Pumping(j, k)' BY <2>3, <2>6, <5>2, <5>5 DEF Pumping, w
        <5> QED BY <5>6 DEF w
      <4> QED BY <4>3, <4>4, <4>5
    <3> QED BY <2>14, <3>1, <3>4, <3>5, <3>6, <3>7
  <2> QED BY <2>15, <2>16, <2>17, <2>18 DEF PumpsBytes, Pumps
<1> QED
  BY <1>2, <1>3, <1>4 DEF WholeInv

\* The invariant of the answer holds in every state.
THEOREM WholeInvariance == Spec => []WholeInv
<1>1. Init => WholeInv
  BY DEF Init, WholeInv, TurnInv, ReplyInv, AnswerInv, PumpInv
<1>2. ASSUME WholeInv, IInv, [Next]_vars PROVE WholeInv'
  <2>1. CASE Connects \/ Handshakes
    <3>1. /\ UNCHANGED <<reply, source, parsed, stream, link, job>>
          /\ \/ /\ UNCHANGED answer
                /\ \/ connection = "connect" /\ connection' = "handshake"
                   \/ connection = "handshake" /\ connection' \in {"request", "done"}
             \/ connection' = "done" /\ answer' \in {Sent(text(400), "GET"), Sent(text(403), "GET")}
          /\ connection \in {"connect", "handshake"}
      BY <2>1 DEF Connects, Handshakes, jobVars
    <3>2. CASE UNCHANGED answer /\ \/ connection = "connect" /\ connection' = "handshake"
                                   \/ connection = "handshake" /\ connection' \in {"request", "done"}
      BY <1>2, <3>1, <3>2, TurnsPreserve
    <3>3. CASE connection' = "done" /\ answer' \in {Sent(text(400), "GET"), Sent(text(403), "GET")}
      <4>1. job = "none" /\ source = Nothing BY <1>2, <3>1 DEF WholeInv, TurnInv, IInv, StageInv
      <4>2. DOMAIN answer' = {"status", "method", "framing", "headers", "body", "ended"}
        BY <3>3, SentIs
      <4>3. TurnInv' BY <1>2, <3>1, <3>3, <4>1, <4>2 DEF WholeInv, TurnInv
      <4>4. ReplyInv' /\ AnswerInv' /\ PumpInv' BY <3>1, <4>1 DEF ReplyInv, AnswerInv, PumpInv
      <4> QED BY <4>3, <4>4 DEF WholeInv
    <3> QED BY <3>1, <3>2, <3>3
  <2>2. CASE Reads
    <3>1. /\ connection = "request" /\ UNCHANGED <<reply, source, stream, link, answer>>
          /\ \/ connection' = "done" /\ job' = job
             \/ connection' = "wait" /\ job' = "queued"
      BY <2>2 DEF Reads
    <3>2. job = "none" /\ source = Nothing /\ reply = Nothing /\ stream = <<>> /\ answer = Nothing
      BY <1>2, <3>1 DEF WholeInv, TurnInv, IInv, StageInv
    <3>3. TurnInv' BY <1>2, <3>1, <3>2 DEF WholeInv, TurnInv
    <3>4. ReplyInv' /\ AnswerInv' /\ PumpInv' BY <3>1, <3>2 DEF ReplyInv, AnswerInv, PumpInv
    <3> QED BY <3>3, <3>4 DEF WholeInv
  <2>3. CASE Waits \/ ConnectionFails
    <3>1. /\ UNCHANGED <<reply, source, answer, parsed, stream, link, job>>
          /\ \/ connection' = "done"
             \/ connection = "wait" /\ connection' = "write" /\ reply # Nothing
      BY <2>3 DEF Waits, ConnectionFails, jobVars
    <3> QED BY <1>2, <3>1, TurnsPreserve
  <2>4. CASE Writes
    BY <1>2, <2>4, WritesPreserves
  <2>5. CASE Streams \/ EndsStream
    BY <1>2, <2>5, StreamsPreserves
  <2>6. CASE Enters \/ HandleChecks \/ Connected \/ Secured \/ Pauses
    <3>1. /\ UNCHANGED <<reply, source, answer, parsed, stream, link, connection>>
          /\ \/ job \in {"queued", "entered"} /\ job' \in {"entered", "connect", "done"}
             \/ /\ job \in {"connect", "secure", "pause"}
                /\ job' \in {"connect", "secure", "attempt"}
      <4>1. JobUnchanged
        BY <2>6 DEF Enters, HandleChecks, Connected, Secured, Pauses
      <4>2. \/ job \in {"queued", "entered"} /\ job' \in {"entered", "connect", "done"}
            \/ /\ job \in {"connect", "secure", "pause"}
               /\ job' \in {"connect", "secure", "attempt"}
        BY <2>6 DEF Enters, HandleChecks, Connected, Secured, Pauses
      <4> QED BY <4>1, <4>2 DEF JobUnchanged
    <3> QED BY <1>2, <3>1, TurnsPreserve
  <2>11. CASE PumpIsCancelled
    <3>1. /\ UNCHANGED <<reply, source, answer, parsed, stream, link, connection>>
          /\ job = "pump" /\ job' = "done" /\ connection \in {"done", "session"}
      BY <2>11 DEF PumpIsCancelled, PumpUnchanged
    <3> QED BY <1>2, <3>1, TurnsPreserve
  <2>7. CASE SecureFails \/ AttemptFails \/ AttemptIsRejected
    BY <1>2, <2>7, FailurePreserves
  <2>8. CASE AttemptIsAnswered
    BY <1>2, <2>8, AnswersPreserves
  <2>9. CASE PumpsBytes \/ Pumps
    BY <1>2, <2>9, PumpPreserves
  <2>10. CASE Late \/ RuntimeStep \/ Goes \/ UNCHANGED vars
    <3>1. UNCHANGED <<reply, source, answer, parsed, stream, link, job, connection>>
      BY <2>10 DEF Late, RuntimeStep, Suspends, Resumes, Stops, RuntimeUnchanged, Goes, vars, jobVars
    <3> QED BY <1>2, <3>1, TurnsPreserve
  <2> QED
    BY <1>2, <2>1, <2>2, <2>3, <2>4, <2>5, <2>6, <2>7, <2>8, <2>9, <2>10, <2>11
    DEF Next, ConnectionStep, JobStep, SecureStep
<1> QED
  BY <1>1, <1>2, Invariance, PTL DEF Spec

\* What the client takes for a whole answer of the server is what the server
\* sent in one attempt, for every response, every cut of it and every end of the
\* connection (read_response, pump_chunked_body and write_response_headers), as
\* long as the server itself sends no 500: nobody can tell one of its own from
\* the proxy's.
THEOREM WholeAnswers ==
  (\A r \in Responses : r.status # 500) => (Spec => []WholeIsWhole)
<1> SUFFICES ASSUME \A r \in Responses : r.status # 500 PROVE Spec => []WholeIsWhole
  OBVIOUS
<1>1. ASSUME WholeInv PROVE WholeIsWhole
  <2>1. SUFFICES ASSUME TakenForWhole, source # Nothing, answer.status = source.status
                 PROVE  IF Chunked(source.lines) \/ HasLength(source.lines)
                          THEN answer.body = Content(source.wire)
                          ELSE IsPrefix(answer.body, Content(source.wire))
    BY DEF WholeIsWhole
  <2>2. /\ answer # Nothing /\ ~NoBody(answer.method, answer.status)
        /\ "transfer-encoding" \in DOMAIN answer.headers => answer.ended
    BY <2>1 DEF TakenForWhole
  <2>3. source \in Responses /\ source.status # 500 /\ reply # Nothing /\ source.wire \in Seq(Pieces)
    BY <1>1, <2>1, <2>2, ResponseShape DEF WholeInv, TurnInv
  <2>4. /\ answer.method = parsed.method /\ answer.status = reply.status
        /\ \/ /\ reply.framing = "none"
              /\ NoBody(parsed.method, reply.status) \/ answer.body = reply.body
           \/ /\ reply.framing \in {"chunked", "close"}
              /\ "transfer-encoding" \in DOMAIN answer.headers
              /\ \E j \in 0 .. Len(source.wire) : answer.body = Part(source.wire, j)
              /\ reply.framing = "chunked" /\ answer.ended => answer.body = Content(source.wire)
    BY <1>1, <2>1, <2>2 DEF WholeInv, AnswerInv
  <2>5. \/ reply.framing = "websocket"
        \/ reply.framing = "none" /\ reply.status = 500
        \/ /\ reply.framing = "none"
           /\ \/ NoBody(parsed.method, reply.status)
              \/ /\ ~Chunked(source.lines) /\ HasLength(source.lines)
                 /\ reply.body = Content(source.wire)
        \/ reply.framing = "chunked" /\ Chunked(source.lines)
        \/ reply.framing = "close" /\ ~Chunked(source.lines) /\ ~HasLength(source.lines)
    BY <1>1, <2>1, <2>3 DEF WholeInv, ReplyInv
  <2>6. CASE reply.framing = "none"
    BY <2>1, <2>2, <2>3, <2>4, <2>5, <2>6
  <2>7. CASE reply.framing = "chunked"
    BY <2>2, <2>4, <2>5, <2>7
  <2>8. CASE reply.framing = "close"
    <3>1. PICK j \in 0 .. Len(source.wire) : answer.body = Part(source.wire, j)
      BY <2>4, <2>8
    <3>2. PICK t \in Seq(Byte) : Content(source.wire) = Part(source.wire, j) \o t
      BY <2>3, PartBegins
    <3>3. Part(source.wire, j) \in Seq(Byte)
      BY <2>3, PartType
    <3>4. IsPrefix(answer.body, Content(source.wire))
      BY <3>1, <3>2, <3>3, ConcatPrefix
    <3> QED BY <2>5, <2>8, <3>4
  <2> QED BY <2>4, <2>6, <2>7, <2>8
<1> QED
  BY <1>1, WholeInvariance, PTL

===============================================================================
