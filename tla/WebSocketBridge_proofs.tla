------------------------- MODULE WebSocketBridge_proofs -------------------------
(***************************************************************************)
(* Proofs about WebSocketBridge, for every capacity of the queues, any     *)
(* number of messages and both kinds of peer.                              *)
(***************************************************************************)
EXTENDS WebSocketBridge, SequenceTheorems, TLAPS

-----------------------------------------------------------------------------
(* The inductive invariant. *)

\* The session holds an entry exactly while it sends; the peer has something
\* to send only while it emits, and posts no message behind a close.
ThreadInv ==
  /\ session = "send" <=> held # <<>>
  /\ peer # "emit" => outbox = <<>>
  /\ peer = "upstream" => kind = "proxy"
  /\ peer = "handle" => kind = "worker"
  /\ \A i, j \in DOMAIN outbox :
       i < j /\ outbox[i] = Close => outbox[j].type # "message"

\* From the client to the peer.
IncomingInv ==
  /\ Len(got) <= sent /\ got = UpTo(Len(got))
  /\ peer # "gone" => Carries(incoming \o held, Len(got), sent)

\* From the peer to the client: once a close is written the session is gone, or
\* about to pass the client's own close on.
OutgoingInv ==
  \/ /\ Len(wrote) <= made /\ wrote = UpTo(Len(wrote))
     /\ session # "gone" => Carries(outgoing \o outbox, Len(wrote), made)
  \/ /\ \E n \in 0..made : wrote = Append(UpTo(n), Close.id)
     /\ session = "gone" \/ held = <<Close>>

\* The session does not look at the outgoing queue, and may have to wait.
Waits == session \in {"read", "send"} /\ Len(incoming) = Capacity

\* While the session waits, the worker has taken no event since the session
\* emptied the other queue: what is in that queue and what the worker still
\* sends come from one event.
WorkerInv ==
  /\ kind = "worker" => Len(outbox) <= posted
  /\ kind = "worker" /\ Waits => Len(outgoing) + Len(outbox) <= posted
  /\ peer = "handle" /\ Waits => outgoing = <<>>

\* The proxy has read its upstream once since then, and perhaps failed.
ProxyInv ==
  /\ kind = "proxy" => Len(outbox) <= 1
  /\ kind = "proxy" /\ closing => peer \in {"emit", "gone"}
  /\ kind = "proxy" /\ Waits =>
       Len(outgoing) + Len(outbox) <= IF closing THEN 2 ELSE 1
  /\ session \in {"read", "send"} /\ peer = "upstream" /\ incoming # <<>> =>
       outgoing = <<>>

IInv == TypeOK /\ ThreadInv /\ IncomingInv /\ OutgoingInv /\ WorkerInv /\ ProxyInv

-----------------------------------------------------------------------------
(* Lemmas about sequences. *)

\* The first numbers, and one more.
LEMMA UpToGrows ==
  ASSUME NEW n \in Nat
  PROVE  /\ UpTo(n) \in Seq(Nat) /\ Len(UpTo(n)) = n
         /\ \A i \in 1..n : UpTo(n)[i] = i
         /\ Append(UpTo(n), n + 1) = UpTo(n + 1)
<1>1. \A k \in Nat : /\ UpTo(k) \in Seq(Nat) /\ Len(UpTo(k)) = k
                     /\ \A i \in 1..k : UpTo(k)[i] = i
  BY DEF UpTo
<1>2. n \in Nat /\ n + 1 \in Nat
  OBVIOUS
<1> DEFINE longer == Append(UpTo(n), n + 1)
<1>3. /\ longer \in Seq(Nat) /\ Len(longer) = n + 1
      /\ \A i \in 1..n : longer[i] = i
      /\ longer[n + 1] = n + 1
  <2>1. UpTo(n) \in Seq(Nat) /\ Len(UpTo(n)) = n /\ \A i \in 1..n : UpTo(n)[i] = i
    BY <1>1, <1>2
  <2> HIDE DEF longer
  <2> QED
    BY <1>2, <2>1, AppendProperties DEF longer
<1>4. UpTo(n + 1) \in Seq(Nat) /\ Len(UpTo(n + 1)) = n + 1
      /\ \A i \in 1..(n + 1) : UpTo(n + 1)[i] = i
  BY <1>1, <1>2
<1> HIDE DEF longer
<1>5. \A i \in 1..(n + 1) : longer[i] = UpTo(n + 1)[i]
  BY <1>2, <1>3, <1>4
<1>6. longer = UpTo(n + 1)
  BY <1>3, <1>4, <1>5, SeqEqual
<1> QED
  BY <1>1, <1>6 DEF longer

\* What it is for a queue to carry messages, entry by entry.
LEMMA CarriesMeans ==
  ASSUME NEW q, NEW from \in Nat, NEW to \in Nat, Carries(q, from, to)
  PROVE  /\ \A i \in DOMAIN q : q[i].type = "message" =>
              q[i].id \in Nat /\ from < q[i].id /\ q[i].id <= to
         /\ \A k \in (from + 1)..to :
              \E i \in DOMAIN q : q[i].type = "message" /\ q[i].id = k
         /\ \A i, j \in DOMAIN q : q[i].type = "message" /\ q[j].type = "message" /\ i < j
              => q[i].id < q[j].id
<1> DEFINE messages == {i \in DOMAIN q : q[i].type = "message"}
<1>1. /\ {q[i].id : i \in messages} = (from + 1)..to
      /\ \A i, j \in messages : i < j => q[i].id < q[j].id
  BY DEF Carries
<1>2. \A n \in (from + 1)..to : n \in Nat /\ from < n /\ n <= to
  OBVIOUS
<1>3. \A i \in messages : q[i].id \in (from + 1)..to
  BY <1>1
<1>4. \A k \in (from + 1)..to : \E i \in messages : q[i].id = k
  BY <1>1
<1> QED
  BY <1>1, <1>2, <1>3, <1>4, Zenon

\* A queue that carries from + 1 .. to and one that carries the numbers after
\* to, one behind the other.
LEMMA CarriesConcat ==
  ASSUME NEW S, NEW q \in Seq(S), NEW r \in Seq(S),
         NEW from \in Nat, NEW mid \in Nat, NEW to \in Nat, from <= mid, mid <= to,
         Carries(q, from, mid), Carries(r, mid, to)
  PROVE  Carries(q \o r, from, to)
<1> DEFINE p == q \o r
           M(x) == {i \in DOMAIN x : x[i].type = "message"}
<1>1. /\ p \in Seq(S) /\ Len(q) \in Nat /\ Len(r) \in Nat
      /\ DOMAIN p = 1..(Len(q) + Len(r)) /\ DOMAIN q = 1..Len(q) /\ DOMAIN r = 1..Len(r)
      /\ \A i \in DOMAIN q : p[i] = q[i] /\ q[i] \in S
      /\ \A i \in DOMAIN r : p[Len(q) + i] = r[i] /\ r[i] \in S
  OBVIOUS
<1>2. /\ \A i \in DOMAIN q : q[i].type = "message" =>
             q[i].id \in Nat /\ from < q[i].id /\ q[i].id <= mid
      /\ \A k \in (from + 1)..mid :
           \E i \in DOMAIN q : q[i].type = "message" /\ q[i].id = k
      /\ \A i, j \in DOMAIN q : q[i].type = "message" /\ q[j].type = "message" /\ i < j
           => q[i].id < q[j].id
  BY CarriesMeans, Zenon
<1>3. /\ \A i \in DOMAIN r : r[i].type = "message" =>
             r[i].id \in Nat /\ mid < r[i].id /\ r[i].id <= to
      /\ \A k \in (mid + 1)..to :
           \E i \in DOMAIN r : r[i].type = "message" /\ r[i].id = k
      /\ \A i, j \in DOMAIN r : r[i].type = "message" /\ r[j].type = "message" /\ i < j
           => r[i].id < r[j].id
  BY CarriesMeans, Zenon
<1> HIDE DEF p
<1>4. ASSUME NEW i \in DOMAIN p
      PROVE  \/ i \in DOMAIN q /\ p[i] = q[i]
             \/ i - Len(q) \in DOMAIN r /\ p[i] = r[i - Len(q)] /\ i > Len(q)
  <2>1. CASE i <= Len(q)
    BY <1>1, <2>1
  <2>2. CASE i > Len(q)
    <3>1. i - Len(q) \in DOMAIN r /\ Len(q) + (i - Len(q)) = i
      BY <1>1, <2>2
    <3> QED
      BY <1>1, <2>2, <3>1
  <2> QED
    BY <1>1, <2>1, <2>2
<1>5. ASSUME NEW i \in M(p) PROVE p[i].id \in (from + 1)..to
  BY <1>2, <1>3, <1>4
<1>6. ASSUME NEW k \in (from + 1)..to PROVE \E i \in M(p) : p[i].id = k
  <2>1. CASE k <= mid
    <3>1. PICK i \in DOMAIN q : q[i].type = "message" /\ q[i].id = k
      BY <1>2, <2>1
    <3>2. i \in DOMAIN p /\ p[i] = q[i]
      BY <1>1
    <3> QED
      BY <3>1, <3>2
  <2>2. CASE k > mid
    <3>1. PICK i \in DOMAIN r : r[i].type = "message" /\ r[i].id = k
      BY <1>3, <2>2
    <3>2. Len(q) + i \in DOMAIN p /\ p[Len(q) + i] = r[i]
      BY <1>1
    <3> QED
      BY <3>1, <3>2
  <2> QED
    BY <2>1, <2>2
<1>7. ASSUME NEW i \in M(p), NEW j \in M(p), i < j PROVE p[i].id < p[j].id
  <2>1. CASE i \in DOMAIN q /\ p[i] = q[i]
    <3>1. CASE j \in DOMAIN q /\ p[j] = q[j]
      BY <1>2, <1>7, <2>1, <3>1
    <3>2. CASE j - Len(q) \in DOMAIN r /\ p[j] = r[j - Len(q)]
      <4>1. q[i].id \in Nat /\ q[i].id <= mid
        BY <1>2, <2>1
      <4>2. r[j - Len(q)].id \in Nat /\ mid < r[j - Len(q)].id
        BY <1>3, <3>2
      <4> QED
        BY <2>1, <3>2, <4>1, <4>2
    <3> QED
      BY <1>4, <3>1, <3>2
  <2>2. CASE i - Len(q) \in DOMAIN r /\ p[i] = r[i - Len(q)] /\ i > Len(q)
    <3>1. j - Len(q) \in DOMAIN r /\ p[j] = r[j - Len(q)]
      BY <1>1, <1>4, <1>7, <2>2
    <3>2. i - Len(q) < j - Len(q)
      BY <1>1, <1>7
    <3> QED
      BY <1>3, <2>2, <3>1, <3>2
  <2> QED
    BY <1>4, <2>1, <2>2
<1>8. {p[i].id : i \in M(p)} = (from + 1)..to
  BY <1>5, <1>6
<1> QED
  BY <1>7, <1>8 DEF Carries, p

\* A queue without messages, and one that holds the next message alone.
LEMMA CarriesNothing ==
  ASSUME NEW q, \A i \in DOMAIN q : q[i].type # "message", NEW n \in Nat
  PROVE  Carries(q, n, n)
<1>1. {i \in DOMAIN q : q[i].type = "message"} = {} /\ (n + 1)..n = {}
  OBVIOUS
<1> QED
  BY <1>1 DEF Carries

LEMMA CarriesOne ==
  ASSUME NEW n \in Nat
  PROVE  Carries(<<Message(n + 1)>>, n, n + 1)
<1> DEFINE q == <<Message(n + 1)>>
<1>1. /\ DOMAIN q = {1} /\ q[1].type = "message" /\ q[1].id = n + 1
      /\ (n + 1)..(n + 1) = {n + 1}
  BY DEF Message
<1> HIDE DEF q
<1>2. {i \in DOMAIN q : q[i].type = "message"} = {1}
  BY <1>1
<1>3. Carries(q, n, n + 1)
  BY <1>1, <1>2 DEF Carries
<1> QED
  BY <1>3 DEF q

\* What is left when entries behind the last message are dropped.
LEMMA CarriesPrefix ==
  ASSUME NEW S, NEW q \in Seq(S), NEW r \in Seq(S), NEW from \in Nat, NEW to \in Nat,
         \A i \in DOMAIN r : r[i].type # "message", Carries(q \o r, from, to)
  PROVE  Carries(q, from, to)
<1> DEFINE p == q \o r
           M(x) == {i \in DOMAIN x : x[i].type = "message"}
<1>1. /\ Len(q) \in Nat /\ Len(r) \in Nat
      /\ DOMAIN p = 1..(Len(q) + Len(r)) /\ DOMAIN q = 1..Len(q) /\ DOMAIN r = 1..Len(r)
      /\ \A i \in DOMAIN q : p[i] = q[i]
      /\ \A i \in DOMAIN p : i > Len(q) => p[i] = r[i - Len(q)] /\ i - Len(q) \in DOMAIN r
  OBVIOUS
<1>2. {p[i].id : i \in M(p)} = (from + 1)..to
      /\ \A i, j \in M(p) : i < j => p[i].id < p[j].id
  BY DEF Carries
<1> HIDE DEF p
<1>3. M(p) = M(q)
  <2>1. \A i \in M(p) : i \in DOMAIN q
    BY <1>1
  <2> QED
    BY <1>1, <2>1
<1>4. \A i \in M(q) : p[i] = q[i]
  BY <1>1
<1>5. {q[i].id : i \in M(q)} = {p[i].id : i \in M(p)}
  BY <1>3, <1>4
<1>6. \A i, j \in M(q) : i < j => q[i].id < q[j].id
  BY <1>2, <1>3, <1>4
<1> QED
  BY <1>2, <1>5, <1>6 DEF Carries

\* What is left when the first entry is taken.
LEMMA CarriesTail ==
  ASSUME NEW S, NEW q \in Seq(S), q # <<>>, NEW from \in Nat, NEW to \in Nat, from <= to,
         Carries(q, from, to)
  PROVE  IF Head(q).type = "message"
           THEN Head(q).id = from + 1 /\ from + 1 <= to /\ Carries(Tail(q), from + 1, to)
           ELSE Carries(Tail(q), from, to)
<1> DEFINE t == Tail(q)
           M(x) == {i \in DOMAIN x : x[i].type = "message"}
<1>1. /\ Len(q) \in Nat /\ Len(q) > 0 /\ Head(q) = q[1] /\ q[1] \in S
      /\ DOMAIN q = 1..Len(q) /\ DOMAIN t = 1..(Len(q) - 1)
      /\ \A i \in DOMAIN t : i + 1 \in DOMAIN q /\ t[i] = q[i + 1]
      /\ \A i \in DOMAIN q : q[i] \in S
  OBVIOUS
<1>2. /\ \A i \in DOMAIN q : q[i].type = "message" =>
             q[i].id \in Nat /\ from < q[i].id /\ q[i].id <= to
      /\ \A k \in (from + 1)..to :
           \E i \in DOMAIN q : q[i].type = "message" /\ q[i].id = k
      /\ \A i, j \in DOMAIN q : q[i].type = "message" /\ q[j].type = "message" /\ i < j
           => q[i].id < q[j].id
  BY CarriesMeans, Zenon
<1> HIDE DEF t
<1>3. \A i, j \in M(t) : i < j => t[i].id < t[j].id
  <2> SUFFICES ASSUME NEW i \in M(t), NEW j \in M(t), i < j PROVE t[i].id < t[j].id
    OBVIOUS
  <2>1. i + 1 < j + 1 /\ i + 1 \in DOMAIN q /\ j + 1 \in DOMAIN q
        /\ t[i] = q[i + 1] /\ t[j] = q[j + 1]
    BY <1>1
  <2> QED
    BY <1>2, <2>1
<1>4. \A i \in DOMAIN q : i # 1 => i - 1 \in DOMAIN t /\ t[i - 1] = q[i]
  <2> SUFFICES ASSUME NEW i \in DOMAIN q, i # 1
               PROVE  i - 1 \in DOMAIN t /\ t[i - 1] = q[i]
    OBVIOUS
  <2>1. i - 1 \in DOMAIN t /\ (i - 1) + 1 = i
    BY <1>1
  <2> QED
    BY <1>1, <2>1
<1>5. CASE Head(q).type = "message"
  <2>1. from < q[1].id /\ q[1].id <= to /\ q[1].id \in Nat /\ 1 \in DOMAIN q
    BY <1>1, <1>2, <1>5
  <2>2. PICK h \in DOMAIN q : q[h].type = "message" /\ q[h].id = from + 1
    BY <1>2, <2>1
  <2>3. h # 1 => q[1].id < q[h].id
    <3>1. h # 1 => 1 < h
      BY <1>1
    <3>2. q[1].type = "message"
      BY <1>1, <1>5
    <3> QED
      BY <1>2, <2>1, <2>2, <3>1, <3>2
  <2>4. Head(q).id = from + 1 /\ from + 1 <= to
    BY <1>1, <2>1, <2>2, <2>3
  <2>5. ASSUME NEW i \in M(t) PROVE t[i].id \in (from + 2)..to
    <3>1. i + 1 \in DOMAIN q /\ t[i] = q[i + 1] /\ 1 < i + 1
      BY <1>1
    <3>2. q[1].id < q[i + 1].id /\ q[i + 1].id <= to /\ q[i + 1].id \in Nat
      BY <1>1, <1>2, <1>5, <2>1, <3>1
    <3> QED
      BY <1>1, <2>4, <3>1, <3>2
  <2>6. ASSUME NEW k \in (from + 2)..to PROVE \E i \in M(t) : t[i].id = k
    <3>1. k \in (from + 1)..to /\ k # from + 1
      OBVIOUS
    <3>2. PICK i \in DOMAIN q : q[i].type = "message" /\ q[i].id = k
      BY <1>2, <3>1
    <3>3. i # 1
      BY <1>1, <2>4, <3>1, <3>2
    <3> QED
      BY <1>4, <3>2, <3>3
  <2>7. {t[i].id : i \in M(t)} = (from + 2)..to /\ (from + 1) + 1 = from + 2
    BY <2>5, <2>6
  <2>8. Carries(t, from + 1, to)
    BY <1>3, <2>7 DEF Carries
  <2> QED
    BY <1>5, <2>4, <2>8 DEF t
<1>6. CASE Head(q).type # "message"
  <2>1. ASSUME NEW i \in M(t) PROVE t[i].id \in (from + 1)..to
    <3>1. i + 1 \in DOMAIN q /\ t[i] = q[i + 1]
      BY <1>1
    <3> QED
      BY <1>2, <3>1
  <2>2. ASSUME NEW k \in (from + 1)..to PROVE \E i \in M(t) : t[i].id = k
    <3>1. PICK i \in DOMAIN q : q[i].type = "message" /\ q[i].id = k
      BY <1>2
    <3>2. i # 1
      BY <1>1, <1>6, <3>1
    <3> QED
      BY <1>4, <3>1, <3>2
  <2>3. {t[i].id : i \in M(t)} = (from + 1)..to
    BY <2>1, <2>2
  <2>4. Carries(t, from, to)
    BY <1>3, <2>3 DEF Carries
  <2> QED
    BY <1>6, <2>4 DEF t
<1> QED
  BY <1>5, <1>6

\* An entry that moves from the head of one queue to the end of the other one,
\* or leaves the first one, moves along the two of them.
LEMMA PipeMoves ==
  ASSUME NEW S, NEW q \in Seq(S), NEW r \in Seq(S), r # <<>>
  PROVE  /\ Append(q, Head(r)) \in Seq(S) /\ Tail(r) \in Seq(S)
         /\ Append(q, Head(r)) \o Tail(r) = q \o r
<1> DEFINE p == Append(q, Head(r)) \o Tail(r)
           o == q \o r
<1>1. /\ Head(r) \in S /\ Head(r) = r[1] /\ Tail(r) \in Seq(S) /\ Len(Tail(r)) = Len(r) - 1
      /\ Len(q) \in Nat /\ Len(r) \in Nat /\ Len(r) > 0
      /\ \A i \in 1..(Len(r) - 1) : Tail(r)[i] = r[i + 1]
  OBVIOUS
<1>2. /\ Append(q, Head(r)) \in Seq(S) /\ Len(Append(q, Head(r))) = Len(q) + 1
      /\ \A i \in 1..Len(q) : Append(q, Head(r))[i] = q[i]
      /\ Append(q, Head(r))[Len(q) + 1] = Head(r)
  BY <1>1, AppendProperties
<1>3. /\ p \in Seq(S) /\ Len(p) = Len(q) + Len(r)
      /\ \A i \in 1..(Len(q) + Len(r)) :
           p[i] = IF i <= Len(q) + 1 THEN Append(q, Head(r))[i]
                                     ELSE Tail(r)[i - (Len(q) + 1)]
  BY <1>1, <1>2, ConcatProperties
<1>4. /\ o \in Seq(S) /\ Len(o) = Len(q) + Len(r)
      /\ \A i \in 1..(Len(q) + Len(r)) :
           o[i] = IF i <= Len(q) THEN q[i] ELSE r[i - Len(q)]
  BY <1>1, ConcatProperties
<1> HIDE DEF p, o
<1>5. ASSUME NEW i \in 1..(Len(q) + Len(r)) PROVE p[i] = o[i]
  <2>1. CASE i <= Len(q)
    BY <1>1, <1>2, <1>3, <1>4, <2>1
  <2>2. CASE i = Len(q) + 1
    BY <1>1, <1>2, <1>3, <1>4, <2>2
  <2>3. CASE i > Len(q) + 1
    <3> DEFINE k == i - (Len(q) + 1)
    <3>1. k \in 1..(Len(r) - 1) /\ k + 1 = i - Len(q) /\ ~(i <= Len(q) + 1) /\ ~(i <= Len(q))
      BY <1>1, <2>3
    <3>2. p[i] = Tail(r)[k] /\ o[i] = r[i - Len(q)]
      BY <1>3, <1>4, <3>1
    <3> HIDE DEF k
    <3>3. Tail(r)[k] = r[k + 1]
      BY <1>1, <3>1
    <3> QED
      BY <3>1, <3>2, <3>3
  <2> QED
    BY <1>1, <2>1, <2>2, <2>3
<1>6. p = o
  BY <1>3, <1>4, <1>5, SeqEqual
<1> QED
  BY <1>1, <1>2, <1>6 DEF p, o

LEMMA PipeTail ==
  ASSUME NEW S, NEW q \in Seq(S), NEW r \in Seq(S), q # <<>>
  PROVE  /\ q \o r # <<>> /\ Head(q \o r) = Head(q) /\ Tail(q \o r) = Tail(q) \o r
         /\ q \o r \in Seq(S) /\ Tail(q) \in Seq(S)
         /\ Head(q) \in S /\ Len(Tail(q)) = Len(q) - 1 /\ Len(q) > 0 /\ Len(q) \in Nat
<1> DEFINE o == q \o r
           p == Tail(q) \o r
<1>1. /\ Head(q) \in S /\ Head(q) = q[1] /\ Tail(q) \in Seq(S) /\ Len(Tail(q)) = Len(q) - 1
      /\ Len(q) \in Nat /\ Len(r) \in Nat /\ Len(q) > 0
      /\ \A i \in 1..(Len(q) - 1) : Tail(q)[i] = q[i + 1]
  OBVIOUS
<1>2. /\ o \in Seq(S) /\ Len(o) = Len(q) + Len(r)
      /\ \A i \in 1..(Len(q) + Len(r)) :
           o[i] = IF i <= Len(q) THEN q[i] ELSE r[i - Len(q)]
  BY <1>1, ConcatProperties
<1>3. /\ p \in Seq(S) /\ Len(p) = Len(q) - 1 + Len(r)
      /\ \A i \in 1..(Len(q) - 1 + Len(r)) :
           p[i] = IF i <= Len(q) - 1 THEN Tail(q)[i] ELSE r[i - (Len(q) - 1)]
  BY <1>1, ConcatProperties
<1> HIDE DEF o, p
<1>4. /\ o # <<>> /\ Head(o) = o[1] /\ Tail(o) \in Seq(S) /\ Len(Tail(o)) = Len(o) - 1
      /\ \A i \in 1..(Len(o) - 1) : Tail(o)[i] = o[i + 1]
  BY <1>1, <1>2
<1>5. Head(o) = Head(q)
  BY <1>1, <1>2, <1>4
<1>6. ASSUME NEW i \in 1..(Len(q) - 1 + Len(r)) PROVE Tail(o)[i] = p[i]
  <2>1. i \in 1..(Len(o) - 1) /\ i + 1 \in 1..(Len(q) + Len(r))
    BY <1>1, <1>2
  <2>2. Tail(o)[i] = o[i + 1]
    BY <1>4, <2>1
  <2>3. CASE i <= Len(q) - 1
    BY <1>1, <1>2, <1>3, <2>1, <2>2, <2>3
  <2>4. CASE i > Len(q) - 1
    <3>1. (i + 1) - Len(q) = i - (Len(q) - 1)
      BY <1>1
    <3> QED
      BY <1>1, <1>2, <1>3, <2>1, <2>2, <2>4, <3>1
  <2>5. i <= Len(q) - 1 \/ i > Len(q) - 1
    BY <1>1
  <2> QED
    BY <2>3, <2>4, <2>5
<1>7. Len(Tail(o)) = Len(p) /\ Len(p) = Len(q) - 1 + Len(r)
  BY <1>1, <1>2, <1>3, <1>4
<1>8. Tail(o) = p
  BY <1>3, <1>4, <1>6, <1>7, SeqEqual
<1> QED
  BY <1>1, <1>2, <1>4, <1>5, <1>8 DEF o, p

\* An entry is a message, a close or Ready.
LEMMA EntryCases ==
  ASSUME NEW max \in Nat
  PROVE  /\ \A entry \in Entries(max) :
              \/ /\ entry.type = "message" /\ entry.id \in 1..max
                 /\ entry # Close /\ entry # Ready
              \/ entry = Close /\ entry # Ready /\ entry.type = "close" /\ entry.id = 0
              \/ entry = Ready /\ entry # Close /\ entry.type = "ready"
         /\ \A n \in 1..max : /\ Message(n) \in Entries(max) /\ Message(n).type = "message"
                              /\ Message(n).id = n /\ Message(n) # Close
         /\ Close \in Entries(max) /\ Ready \in Entries(max)
         /\ Close.type = "close" /\ Ready.type = "ready" /\ Close.id = 0
<1>1. Close.type = "close" /\ Ready.type = "ready" /\ Close.id = 0
  BY DEF Close, Ready
<1>2. \A n \in 1..max : /\ Message(n) \in [type : {"message"}, id : 1..max]
                       /\ Message(n).type = "message" /\ Message(n).id = n
  BY DEF Message
<1>3. \A entry \in [type : {"message"}, id : 1..max] :
        entry.type = "message" /\ entry.id \in 1..max
  OBVIOUS
<1> QED
  BY <1>1, <1>2, <1>3 DEF Entries

\* What a worker posts carries the messages it made, and a close behind them.
LEMMA PostedCarries ==
  ASSUME NEW n \in Nat, NEW count \in Nat, NEW close \in BOOLEAN, NEW max \in Nat,
         n + count <= max
  PROVE  /\ Posted(n, count, close) \in Seq(Entries(max))
         /\ Len(Posted(n, count, close)) \in 1..(count + 2)
         /\ Carries(Posted(n, count, close), n, n + count)
         /\ \A i, j \in DOMAIN Posted(n, count, close) :
              i < j /\ Posted(n, count, close)[i] = Close
                => Posted(n, count, close)[j].type # "message"
<1> DEFINE m == Made(n, count)
           e == IF close THEN <<Close, Ready>> ELSE <<Ready>>
           p == m \o e
<1>1. /\ m \in Seq(Entries(max)) /\ Len(m) = count /\ DOMAIN m = 1..count
      /\ \A i \in 1..count : /\ m[i].type = "message" /\ m[i].id = n + i
                             /\ m[i] # Close
  <2>1. \A i \in 1..count : /\ Message(n + i) \in Entries(max) /\ Message(n + i) # Close
                           /\ Message(n + i).type = "message" /\ Message(n + i).id = n + i
    <3> SUFFICES ASSUME NEW i \in 1..count
                 PROVE  /\ Message(n + i) \in Entries(max) /\ Message(n + i) # Close
                        /\ Message(n + i).type = "message" /\ Message(n + i).id = n + i
      OBVIOUS
    <3>1. n + i \in 1..max
      OBVIOUS
    <3> QED
      BY <3>1, EntryCases
  <2> QED
    BY <2>1 DEF Made
<1>2. /\ e \in Seq(Entries(max)) /\ Len(e) \in 1..2 /\ DOMAIN e = 1..Len(e)
      /\ \A i \in DOMAIN e : e[i].type # "message"
  <2>1. CASE close
    <3>1. e = <<Close, Ready>>
      BY <2>1
    <3> HIDE DEF e
    <3>2. Close \in Entries(max) /\ Ready \in Entries(max)
          /\ Close.type # "message" /\ Ready.type # "message"
      BY EntryCases
    <3> QED
      BY <3>1, <3>2
  <2>2. CASE ~close
    <3>1. e = <<Ready>>
      BY <2>2
    <3> HIDE DEF e
    <3>2. Ready \in Entries(max) /\ Ready.type # "message"
      BY EntryCases
    <3> QED
      BY <3>1, <3>2
  <2> QED
    BY <2>1, <2>2
<1> HIDE DEF m, e
<1>3. Carries(m, n, n + count)
  <2>1. {i \in DOMAIN m : m[i].type = "message"} = 1..count
    BY <1>1
  <2>2. {m[i].id : i \in 1..count} = (n + 1)..(n + count)
    <3>1. \A i \in 1..count : m[i].id \in (n + 1)..(n + count)
      BY <1>1
    <3>2. ASSUME NEW k \in (n + 1)..(n + count) PROVE \E i \in 1..count : m[i].id = k
      <4>1. k - n \in 1..count /\ n + (k - n) = k
        OBVIOUS
      <4> QED
        BY <1>1, <4>1
    <3> QED
      BY <3>1, <3>2
  <2>3. \A i, j \in 1..count : i < j => m[i].id < m[j].id
    BY <1>1
  <2> QED
    BY <2>1, <2>2, <2>3 DEF Carries
<1>4. n + count \in Nat /\ Carries(e, n + count, n + count)
  BY <1>2, CarriesNothing
<1>5. Carries(p, n, n + count)
  BY <1>1, <1>2, <1>3, <1>4, CarriesConcat
<1>6. /\ p \in Seq(Entries(max)) /\ Len(p) = count + Len(e) /\ DOMAIN p = 1..(count + Len(e))
      /\ \A i \in 1..(count + Len(e)) : p[i] = IF i <= count THEN m[i] ELSE e[i - count]
  <2>1. /\ p \in Seq(Entries(max)) /\ Len(p) = Len(m) + Len(e)
        /\ \A i \in 1..(Len(m) + Len(e)) : p[i] = IF i <= Len(m) THEN m[i] ELSE e[i - Len(m)]
    BY <1>1, <1>2, ConcatProperties
  <2> HIDE DEF p
  <2>2. DOMAIN p = 1..Len(p)
    BY <2>1
  <2> QED
    BY <1>1, <2>1, <2>2
<1> HIDE DEF p
<1>7. \A i, j \in DOMAIN p : i < j /\ p[i] = Close => p[j].type # "message"
  <2> SUFFICES ASSUME NEW i \in DOMAIN p, NEW j \in DOMAIN p, i < j, p[i] = Close
               PROVE  p[j].type # "message"
    OBVIOUS
  <2>1. i > count /\ j > count
    BY <1>1, <1>6
  <2>2. j - count \in DOMAIN e /\ p[j] = e[j - count]
    BY <1>2, <1>6, <2>1
  <2> QED
    BY <1>2, <2>2
<1>8. p = Posted(n, count, close)
  BY DEF p, m, e, Posted
<1>9. Len(p) \in 1..(count + 2)
  BY <1>2, <1>6
<1> QED
  BY <1>5, <1>6, <1>7, <1>8, <1>9

-----------------------------------------------------------------------------
(* The invariant holds initially and every step preserves it. *)

\* What the proofs use of the constants and of the queues before a step.
LEMMA Ranges ==
  ASSUME TypeOK
  PROVE  /\ MaxIn \in Nat /\ MaxOut \in Nat /\ Capacity \in Nat /\ Capacity > 0 /\ Burst \in Nat
         /\ Peers \subseteq {"worker", "proxy"}
         /\ incoming \in Seq(Entries(MaxIn)) /\ held \in Seq(Entries(MaxIn))
         /\ incoming \o held \in Seq(Entries(MaxIn))
         /\ outgoing \in Seq(Entries(MaxOut)) /\ outbox \in Seq(Entries(MaxOut))
         /\ outgoing \o outbox \in Seq(Entries(MaxOut))
         /\ Len(incoming) \in Nat /\ Len(outgoing) \in Nat /\ Len(outbox) \in Nat
         /\ Len(got) \in Nat /\ Len(wrote) \in Nat /\ sent \in Nat /\ made \in Nat
         /\ sent <= MaxIn /\ made <= MaxOut
  BY PeerKinds, CapacityNat, BurstNat, BoundsNat, ConcatProperties DEF TypeOK

\* A connection starts in a state of the invariant.
LEMMA InitIInv == Init => IInv
<1> SUFFICES ASSUME Init PROVE IInv
  OBVIOUS
<1>1. PICK count \in 0..Burst, close \in BOOLEAN :
        /\ count <= MaxOut /\ outbox = Posted(0, count, close) /\ made = count
        /\ readyState = IF close THEN 3 ELSE 1
  BY DEF Init
<1>2. /\ count \in Nat /\ 0 + count = count /\ MaxOut \in Nat /\ MaxIn \in Nat
      /\ Burst \in Nat /\ Capacity \in Nat /\ Capacity > 0
  BY <1>1, BurstNat, BoundsNat, CapacityNat
<1>3. /\ outbox \in Seq(Entries(MaxOut)) /\ Len(outbox) \in 1..(count + 2)
      /\ Carries(outbox, 0, made)
      /\ \A i, j \in DOMAIN outbox : i < j /\ outbox[i] = Close => outbox[j].type # "message"
  <2> DEFINE entries == Posted(0, count, close)
  <2>1. 0 + count <= MaxOut /\ 0 \in Nat /\ close \in BOOLEAN
    BY <1>1, <1>2
  <2>2. /\ entries \in Seq(Entries(MaxOut)) /\ Len(entries) \in 1..(count + 2)
        /\ Carries(entries, 0, 0 + count)
        /\ \A i, j \in DOMAIN entries : i < j /\ entries[i] = Close => entries[j].type # "message"
    BY <1>2, <2>1, PostedCarries
  <2>3. outbox = entries /\ made = 0 + count
    BY <1>1, <1>2
  <2> HIDE DEF entries
  <2> QED
    BY <2>2, <2>3
<1>4. closing \in BOOLEAN /\ running \in BOOLEAN /\ accepting \in BOOLEAN
      /\ posted \in 0..(Burst + 2)
  <2>1. Len(outbox) \in 0..(Burst + 2)
    BY <1>1, <1>2, <1>3
  <2> QED
    BY <2>1 DEF Init
<1>5. TypeOK
  BY <1>1, <1>2, <1>3, <1>4 DEF Init, TypeOK, SessionStates, PeerStates
<1>6. ThreadInv
  BY <1>3 DEF Init, ThreadInv
<1>7. UpTo(0) = <<>>
  BY UpToGrows
<1>8. IncomingInv
  <2>1. got = <<>> /\ sent = 0 /\ incoming \o held = <<>>
    BY DEF Init
  <2>2. Carries(<<>>, 0, 0)
    BY CarriesNothing
  <2> QED
    BY <1>7, <2>1, <2>2 DEF IncomingInv
<1>9. OutgoingInv
  <2>1. wrote = <<>> /\ outgoing = <<>>
    BY DEF Init
  <2>2. outgoing \o outbox = outbox
    BY <1>3, <2>1
  <2> QED
    BY <1>1, <1>2, <1>3, <1>7, <2>1, <2>2 DEF OutgoingInv
<1>10. WorkerInv /\ ProxyInv
  <2>1. posted = Len(outbox) /\ session = "wait" /\ peer = "emit" /\ closing = FALSE
    BY DEF Init
  <2>2. kind = "proxy" => Len(outbox) <= 1
    <3>1. ASSUME kind = "proxy"
          PROVE  Len(outbox) = Len(Posted(0, 0, FALSE))
      <4>1. PICK n \in 0..Burst, c \in BOOLEAN :
              n = 0 /\ ~c /\ outbox = Posted(0, n, c)
        BY <3>1 DEF Init
      <4>2. c = FALSE
        BY <4>1
      <4> QED
        BY <4>1, <4>2
    <3>2. Made(0, 0) \in Seq({Ready}) /\ Len(Made(0, 0)) = 0
      BY DEF Made
    <3>3. Made(0, 0) \o <<Ready>> = <<Ready>>
      <4>1. \A q \in Seq({Ready}) : Len(q) = 0 => q \o <<Ready>> = <<Ready>>
        OBVIOUS
      <4> QED
        BY <3>2, <4>1
    <3>4. Posted(0, 0, FALSE) = <<Ready>>
      BY <3>3 DEF Posted
    <3>5. Len(<<Ready>>) = 1
      OBVIOUS
    <3>6. Len(Posted(0, 0, FALSE)) = 1
      BY <3>4, <3>5, Zenon
    <3>7. kind = "proxy" => Len(outbox) = 1
      BY <3>1, <3>6, Zenon
    <3>8. Len(outbox) \in Nat
      BY <1>3
    <3>9. \A n \in Nat : n = 1 => n <= 1
      OBVIOUS
    <3> QED
      BY <3>7, <3>8, <3>9, Zenon
  <2>3. Len(outbox) \in Nat
    BY <1>3
  <2> QED
    BY <2>1, <2>2, <2>3 DEF WorkerInv, ProxyInv, Waits
<1> QED
  BY <1>5, <1>6, <1>8, <1>9, <1>10 DEF IInv

\* The session takes an entry of the outgoing queue and writes it, skips it if it
\* is Ready, or ends.
LEMMA TakingPreserves ==
  ASSUME IInv, SessionWaitsReady \/ SessionFlushes
  PROVE  IInv'
<1>0. TypeOK /\ ThreadInv /\ IncomingInv /\ OutgoingInv /\ WorkerInv /\ ProxyInv
  BY DEF IInv
<1>1. /\ UNCHANGED <<kind, accepting, held, incoming, peer, outbox, posted, closing, readyState, running,
                     connection, sent, got, made>>
      /\ session \in {"wait", "flush"} /\ held = <<>>
      /\ outgoing # <<>> /\ outgoing' = Tail(outgoing)
  BY <1>0 DEF SessionWaitsReady, SessionFlushes, SessionUnchanged, peerVars, runtimeVars,
         ThreadInv
<1>2. \/ Head(outgoing) = Ready /\ session' = "flush" /\ wrote' = wrote
      \/ Head(outgoing) # Ready /\ \E next \in {"wait", "flush"} : Writes(Head(outgoing), next)
  BY DEF SessionWaitsReady, SessionFlushes
<1>3. \/ session' \in {"wait", "flush"} /\ Head(outgoing) = Ready /\ wrote' = wrote
      \/ session' \in {"wait", "flush"} /\ Head(outgoing) \notin {Ready, Close}
         /\ wrote' = Append(wrote, Head(outgoing).id)
      \/ session' = "gone" /\ Head(outgoing) = Close /\ wrote' = Append(wrote, Close.id)
      \/ session' = "gone" /\ wrote' = wrote
  BY <1>2 DEF Writes
<1>4. /\ Head(outgoing) \in Entries(MaxOut) /\ Tail(outgoing) \in Seq(Entries(MaxOut))
      /\ Len(Tail(outgoing)) = Len(outgoing) - 1
      /\ outgoing \o outbox # <<>> /\ Head(outgoing \o outbox) = Head(outgoing)
      /\ Tail(outgoing \o outbox) = outgoing' \o outbox'
  <2>1. outgoing \in Seq(Entries(MaxOut)) /\ outbox \in Seq(Entries(MaxOut)) /\ outbox' = outbox
    BY <1>0, <1>1, Ranges
  <2> QED
    BY <1>1, <2>1, PipeTail
<1>5. /\ Len(wrote) \in Nat /\ Len(wrote) <= made /\ wrote = UpTo(Len(wrote))
      /\ Carries(outgoing \o outbox, Len(wrote), made)
  BY <1>0, <1>1, Ranges DEF OutgoingInv
<1>6. IF Head(outgoing).type = "message"
        THEN /\ Head(outgoing).id = Len(wrote) + 1 /\ Len(wrote) + 1 <= made
             /\ Carries(outgoing' \o outbox', Len(wrote) + 1, made)
        ELSE Carries(outgoing' \o outbox', Len(wrote), made)
  <2> DEFINE pipe == outgoing \o outbox
  <2>1. /\ pipe \in Seq(Entries(MaxOut)) /\ pipe # <<>> /\ Head(pipe) = Head(outgoing)
        /\ Tail(pipe) = outgoing' \o outbox' /\ Carries(pipe, Len(wrote), made)
        /\ made \in Nat
    BY <1>0, <1>4, <1>5, Ranges
  <2> HIDE DEF pipe
  <2>2. IF Head(pipe).type = "message"
          THEN /\ Head(pipe).id = Len(wrote) + 1 /\ Len(wrote) + 1 <= made
               /\ Carries(Tail(pipe), Len(wrote) + 1, made)
          ELSE Carries(Tail(pipe), Len(wrote), made)
    BY <1>5, <2>1, CarriesTail
  <2> QED
    BY <2>1, <2>2
<1>7. wrote' \in Seq(0..MaxOut)
  <2>1. Head(outgoing) # Ready => Head(outgoing).id \in 0..MaxOut
    BY <1>0, <1>4, Ranges, EntryCases
  <2>2. Close.id \in 0..MaxOut
    BY <1>0, Ranges DEF Close
  <2>3. wrote \in Seq(0..MaxOut)
    BY <1>0 DEF TypeOK
  <2>4. \A x \in 0..MaxOut : Append(wrote, x) \in Seq(0..MaxOut)
    BY <2>3, AppendProperties
  <2> QED
    BY <1>3, <2>1, <2>2, <2>3, <2>4, Zenon
<1>8. TypeOK'
  <2>1. Len(outgoing') <= Capacity /\ session' \in SessionStates
    BY <1>0, <1>1, <1>3, <1>4, Ranges DEF TypeOK, SessionStates
  <2> QED
    BY <1>0, <1>1, <1>4, <1>7, <2>1 DEF TypeOK
<1>9. ThreadInv' /\ IncomingInv' /\ WorkerInv' /\ ProxyInv'
  BY <1>0, <1>1, <1>3 DEF ThreadInv, IncomingInv, WorkerInv, ProxyInv, Waits
<1>10. OutgoingInv'
  <2>1. CASE session' = "gone" /\ wrote' = wrote
    BY <1>1, <1>5, <2>1 DEF OutgoingInv
  <2>2. CASE session' = "gone" /\ wrote' = Append(wrote, Close.id)
    <3>1. Len(wrote) \in 0..made
      BY <1>0, <1>5, Ranges
    <3> QED
      BY <1>1, <1>5, <2>2, <3>1 DEF OutgoingInv
  <2>3. CASE Head(outgoing) = Ready /\ wrote' = wrote
    <3>1. Head(outgoing).type # "message"
      BY <2>3 DEF Ready
    <3> QED
      BY <1>1, <1>5, <1>6, <2>3, <3>1 DEF OutgoingInv
  <2>4. CASE Head(outgoing) \notin {Ready, Close} /\ wrote' = Append(wrote, Head(outgoing).id)
    <3>1. Head(outgoing).type = "message"
      BY <1>0, <1>4, <2>4, Ranges, EntryCases
    <3>2. wrote' = UpTo(Len(wrote) + 1)
      BY <1>5, <1>6, <2>4, <3>1, UpToGrows
    <3>3. Len(wrote') = Len(wrote) + 1
      BY <1>5, <3>2, UpToGrows
    <3> QED
      BY <1>1, <1>6, <3>1, <3>2, <3>3 DEF OutgoingInv
  <2> QED
    BY <1>3, <2>1, <2>2, <2>3, <2>4
<1> QED
  BY <1>8, <1>9, <1>10 DEF IInv

\* The session goes on to another state, or ends, and touches no queue.
LEMMA MovingPreserves ==
  ASSUME IInv,
         SessionGivesUp \/ SessionFlushed \/ SessionReadsNothing \/ SessionReadsEnd
  PROVE  IInv'
<1>0. TypeOK /\ ThreadInv /\ IncomingInv /\ OutgoingInv /\ WorkerInv /\ ProxyInv
  BY DEF IInv
<1>1. /\ UNCHANGED <<kind, accepting, held, incoming, outgoing, peer, outbox, posted, closing, readyState, running,
                     connection, sent, got, made, wrote>>
      /\ session \in {"wait", "flush", "read"} /\ held = <<>>
      /\ session' \in {"flush", "gone"} \/ (session' = "read" /\ outgoing = <<>>)
  <2>1. UNCHANGED <<kind, accepting, held, incoming, outgoing, peer, outbox, posted, closing, readyState, running,
                    connection, sent, got, made, wrote>>
    BY DEF SessionGivesUp, SessionFlushed, SessionReadsNothing, SessionReadsEnd,
           SessionUnchanged, peerVars, runtimeVars, queueVars
  <2>2. /\ session \in {"wait", "flush", "read"}
        /\ session' \in {"flush", "gone"} \/ (session' = "read" /\ outgoing = <<>>)
    BY DEF SessionGivesUp, SessionFlushed, SessionReadsNothing, SessionReadsEnd
  <2> QED
    BY <1>0, <2>1, <2>2 DEF ThreadInv
<1>2. TypeOK' /\ ThreadInv'
  BY <1>0, <1>1 DEF TypeOK, ThreadInv, SessionStates
<1>3. IncomingInv' /\ OutgoingInv'
  BY <1>0, <1>1 DEF IncomingInv, OutgoingInv
<1>4. WorkerInv' /\ ProxyInv'
  <2>1. Len(outgoing) \in Nat /\ Len(outbox) \in Nat /\ posted \in Nat /\ closing \in BOOLEAN
        /\ (outgoing = <<>> => Len(outgoing) = 0)
    BY <1>0, Ranges DEF TypeOK
  <2>2. session' \in {"read", "send"} => outgoing = <<>>
    BY <1>1
  <2> QED
    BY <1>0, <1>1, <2>1, <2>2 DEF WorkerInv, ProxyInv, Waits
<1> QED
  BY <1>2, <1>3, <1>4 DEF IInv

\* The session reads a message or a close of the client, and sends it on.
LEMMA ReadingPreserves ==
  ASSUME IInv, SessionReadsMessage \/ SessionReadsClose \/ SessionSends
  PROVE  IInv'
<1>0. TypeOK /\ ThreadInv /\ IncomingInv /\ OutgoingInv /\ WorkerInv /\ ProxyInv
  BY DEF IInv
<1>1. CASE SessionReadsMessage
  <2>1. /\ UNCHANGED <<kind, accepting, incoming, outgoing, peer, outbox, posted, closing, readyState, running,
                       connection, got, made, wrote>>
        /\ session = "read" /\ held = <<>> /\ session' = "send"
        /\ sent < MaxIn /\ sent' = sent + 1 /\ held' = <<Message(sent + 1)>>
    BY <1>0, <1>1 DEF SessionReadsMessage, SessionUnchanged, peerVars, runtimeVars, queueVars,
                ThreadInv
  <2>2. /\ sent' \in 0..MaxIn /\ Message(sent + 1) \in Entries(MaxIn)
        /\ Message(sent + 1) # Close
    <3>1. sent + 1 \in 1..MaxIn
      BY <1>0, <2>1, Ranges
    <3> QED
      BY <1>0, <2>1, <3>1, Ranges, EntryCases
  <2>3. held' \in Seq(Entries(MaxIn)) /\ Len(held') = 1 /\ held' # <<>>
    BY <2>1, <2>2
  <2>4. TypeOK' /\ ThreadInv'
    BY <1>0, <2>1, <2>2, <2>3 DEF TypeOK, ThreadInv, SessionStates
  <2>5. IncomingInv'
    <3>1. Len(got) <= sent' /\ Len(got) <= sent
      BY <1>0, <2>1, Ranges DEF IncomingInv
    <3>2. ASSUME peer # "gone" PROVE Carries(incoming \o held', Len(got), sent + 1)
      <4>1. Carries(incoming \o held, Len(got), sent) /\ incoming \o held = incoming
        BY <1>0, <2>1, <3>2, Ranges DEF IncomingInv
      <4>2. Carries(held', sent, sent + 1)
        BY <1>0, <2>1, Ranges, CarriesOne
      <4>3. sent \in Nat /\ sent + 1 \in Nat /\ sent <= sent + 1 /\ Len(got) \in Nat
        BY <1>0, Ranges
      <4> QED
        BY <1>0, <2>3, <3>1, <4>1, <4>2, <4>3, Ranges, CarriesConcat
    <3> QED
      BY <1>0, <2>1, <3>1, <3>2 DEF IncomingInv
  <2>6. OutgoingInv'
    <3>1. held # <<Close>> /\ session # "gone"
      BY <2>1
    <3> QED
      BY <1>0, <2>1, <3>1 DEF OutgoingInv
  <2>7. WorkerInv' /\ ProxyInv'
    BY <1>0, <2>1 DEF WorkerInv, ProxyInv, Waits
  <2> QED
    BY <2>4, <2>5, <2>6, <2>7 DEF IInv
<1>2. CASE SessionReadsClose
  <2>1. /\ UNCHANGED <<kind, accepting, incoming, outgoing, peer, outbox, posted, closing, readyState, running,
                       connection, got, made, sent>>
        /\ session = "read" /\ held = <<>>
        /\ \/ /\ session' = "send" /\ held' = <<Close>> /\ wrote' = Append(wrote, 0)
           \/ session' = "gone" /\ held' = held /\ wrote' = wrote
    BY <1>0, <1>2 DEF SessionReadsClose, SessionUnchanged, peerVars, runtimeVars, queueVars,
                ThreadInv
  <2>2. CASE session' = "gone" /\ held' = held /\ wrote' = wrote
    <3>1. TypeOK' /\ ThreadInv' /\ IncomingInv'
      BY <1>0, <2>1, <2>2 DEF TypeOK, ThreadInv, IncomingInv, SessionStates
    <3>2. OutgoingInv' /\ WorkerInv' /\ ProxyInv'
      BY <1>0, <2>1, <2>2 DEF OutgoingInv, WorkerInv, ProxyInv, Waits
    <3> QED
      BY <3>1, <3>2 DEF IInv
  <2>3. CASE session' = "send" /\ held' = <<Close>> /\ wrote' = Append(wrote, 0)
    <3>1. Close \in Entries(MaxIn) /\ Close.type # "message" /\ Close.id = 0
      BY <1>0, Ranges, EntryCases
    <3>2. held' \in Seq(Entries(MaxIn)) /\ Len(held') = 1 /\ held' # <<>>
          /\ DOMAIN held' = {1} /\ held'[1] = Close
      BY <2>3, <3>1
    <3>3. wrote' \in Seq(0..MaxOut)
      <4>1. wrote \in Seq(0..MaxOut) /\ 0 \in 0..MaxOut
        BY <1>0, Ranges DEF TypeOK
      <4> QED
        BY <2>3, <4>1, AppendProperties
    <3>4. TypeOK' /\ ThreadInv'
      BY <1>0, <2>1, <2>3, <3>2, <3>3 DEF TypeOK, ThreadInv, SessionStates
    <3>5. IncomingInv'
      <4>1. ASSUME peer # "gone" PROVE Carries(incoming \o held', Len(got), sent)
        <5>1. Carries(incoming \o held, Len(got), sent) /\ incoming \o held = incoming
              /\ Len(got) <= sent
          BY <1>0, <2>1, <4>1, Ranges DEF IncomingInv
        <5>2. Carries(held', sent, sent)
          BY <1>0, <3>1, <3>2, Ranges, CarriesNothing
        <5> QED
          BY <1>0, <3>2, <5>1, <5>2, Ranges, CarriesConcat
      <4> QED
        BY <1>0, <2>1, <4>1 DEF IncomingInv
    <3>6. OutgoingInv'
      <4>1. Len(wrote) <= made /\ wrote = UpTo(Len(wrote))
        BY <1>0, <2>1 DEF OutgoingInv
      <4>2. Len(wrote) \in 0..made
        BY <1>0, <4>1, Ranges
      <4> QED
        BY <2>1, <2>3, <3>1, <4>1, <4>2 DEF OutgoingInv
    <3>7. WorkerInv' /\ ProxyInv'
      BY <1>0, <2>1, <2>3 DEF WorkerInv, ProxyInv, Waits
    <3> QED
      BY <3>4, <3>5, <3>6, <3>7 DEF IInv
  <2> QED
    BY <2>1, <2>2, <2>3
<1>3. CASE SessionSends
  <2>1. /\ UNCHANGED <<kind, accepting, outgoing, peer, outbox, posted, closing, readyState, running,
                       connection, got, made, sent, wrote>>
        /\ session = "send" /\ held # <<>> /\ held' = <<>>
        /\ session' \in {"gone", "flush"} /\ (held = <<Close>> => session' = "gone")
        /\ \/ peer = "gone" /\ incoming' = incoming
           \/ Len(incoming) < Capacity /\ incoming' = incoming \o held
    BY <1>0, <1>3 DEF SessionSends, SessionUnchanged, peerVars, runtimeVars, ThreadInv
  <2>2. incoming' \in Seq(Entries(MaxIn)) /\ Len(incoming') <= Capacity
    <3>1. Len(held) <= 1 /\ Len(held) \in Nat /\ Len(incoming) <= Capacity
      BY <1>0, Ranges DEF TypeOK
    <3>2. Len(incoming \o held) = Len(incoming) + Len(held)
      BY <1>0, Ranges, ConcatProperties
    <3>3. CASE incoming' = incoming
      BY <1>0, <3>1, <3>3, Ranges
    <3>4. CASE Len(incoming) < Capacity /\ incoming' = incoming \o held
      BY <1>0, <3>1, <3>2, <3>4, Ranges
    <3> QED
      BY <2>1, <3>3, <3>4
  <2>3. held' \in Seq(Entries(MaxIn)) /\ Len(held') <= 1
    BY <2>1
  <2>4. TypeOK' /\ ThreadInv'
    BY <1>0, <2>1, <2>2, <2>3 DEF TypeOK, ThreadInv, SessionStates
  <2>5. IncomingInv'
    <3>1. peer # "gone" => incoming' \o held' = incoming \o held
      BY <1>0, <2>1, <2>2, Ranges
    <3> QED
      BY <1>0, <2>1, <3>1 DEF IncomingInv
  <2>6. OutgoingInv' /\ WorkerInv' /\ ProxyInv'
    BY <1>0, <2>1 DEF OutgoingInv, WorkerInv, ProxyInv, Waits
  <2> QED
    BY <2>4, <2>5, <2>6 DEF IInv
<1> QED
  BY <1>1, <1>2, <1>3

\* The peer sends an entry, or gives the rest up: no message is among it.
LEMMA EmittingPreserves ==
  ASSUME IInv, PeerEmits \/ WorkerRejectsEntry
  PROVE  IInv'
<1>0. TypeOK /\ ThreadInv /\ IncomingInv /\ OutgoingInv /\ WorkerInv /\ ProxyInv
  BY DEF IInv
<1>1. /\ UNCHANGED <<kind, accepting, session, held, incoming, posted, closing, readyState, running, connection,
                     sent, got, made, wrote>>
      /\ peer = "emit" /\ outbox # <<>>
  BY DEF PeerEmits, WorkerRejectsEntry, PeerUnchanged, runtimeVars, queueVars
<1>2. CASE /\ peer' = "gone" /\ outbox' = <<>> /\ outgoing' = outgoing
           /\ session = "gone" \/ Head(outbox) = Close
  <2>1. TypeOK' /\ ThreadInv' /\ IncomingInv'
    BY <1>0, <1>1, <1>2 DEF TypeOK, ThreadInv, IncomingInv, PeerStates
  <2>2. WorkerInv' /\ ProxyInv'
    <3>1. /\ Len(outbox') = 0 /\ Len(outbox) \in Nat /\ Len(outgoing) \in Nat
          /\ posted \in Nat /\ closing \in BOOLEAN
      BY <1>0, <1>2, Ranges DEF TypeOK
    <3>2. peer' = "gone"
      BY <1>2
    <3>3. WorkerInv'
      BY <1>0, <1>1, <1>2, <3>1, <3>2 DEF WorkerInv, Waits
    <3>4. ProxyInv'
      BY <1>0, <1>1, <1>2, <3>1, <3>2 DEF ProxyInv, Waits
    <3> QED
      BY <3>3, <3>4
  <2>3. ASSUME session # "gone", Carries(outgoing \o outbox, Len(wrote), made)
        PROVE  Carries(outgoing' \o outbox', Len(wrote), made)
    <3>1. \A i \in DOMAIN outbox : outbox[i].type # "message"
      <4> SUFFICES ASSUME NEW i \in DOMAIN outbox PROVE outbox[i].type # "message"
        OBVIOUS
      <4>1. outbox[1] = Close /\ 1 \in DOMAIN outbox /\ i \in Nat /\ i >= 1
        BY <1>0, <1>1, <1>2, <2>3, Ranges
      <4>2. Close.type # "message"
        BY DEF Close
      <4>3. i # 1 => 1 < i
        BY <4>1
      <4> QED
        BY <1>0, <4>1, <4>2, <4>3 DEF ThreadInv
    <3>2. Carries(outgoing, Len(wrote), made)
      BY <1>0, <2>3, <3>1, Ranges, CarriesPrefix
    <3>3. outgoing' \o outbox' = outgoing
      BY <1>0, <1>2, Ranges
    <3> QED
      BY <3>2, <3>3
  <2>4. OutgoingInv'
    BY <1>0, <1>1, <2>3 DEF OutgoingInv
  <2> QED
    BY <2>1, <2>2, <2>4 DEF IInv
<1>3. CASE /\ peer' = peer /\ outgoing' = Append(outgoing, Head(outbox)) /\ outbox' = Tail(outbox)
           /\ Len(outgoing) < Capacity
  <2>1. /\ outgoing \in Seq(Entries(MaxOut)) /\ outbox \in Seq(Entries(MaxOut))
        /\ Len(outgoing) \in Nat /\ Len(outbox) \in Nat /\ Capacity \in Nat
    BY <1>0, Ranges
  <2>2. /\ outgoing' \in Seq(Entries(MaxOut)) /\ outbox' \in Seq(Entries(MaxOut))
        /\ outgoing' \o outbox' = outgoing \o outbox
    <3>1. /\ Append(outgoing, Head(outbox)) \in Seq(Entries(MaxOut))
          /\ Tail(outbox) \in Seq(Entries(MaxOut))
          /\ Append(outgoing, Head(outbox)) \o Tail(outbox) = outgoing \o outbox
      BY <1>1, <2>1, PipeMoves
    <3> QED
      BY <1>3, <3>1, Zenon
  <2>3. /\ Len(outgoing') = Len(outgoing) + 1 /\ Len(outbox') = Len(outbox) - 1
        /\ DOMAIN outbox = 1..Len(outbox) /\ DOMAIN outbox' = 1..(Len(outbox) - 1)
        /\ \A i \in DOMAIN outbox' : i + 1 \in DOMAIN outbox /\ outbox'[i] = outbox[i + 1]
    BY <1>1, <1>3, <2>1
  <2>4. Len(outgoing') <= Capacity
    BY <1>3, <2>1, <2>3
  <2>5. TypeOK'
    BY <1>0, <1>1, <1>3, <2>2, <2>4 DEF TypeOK
  <2>6. \A i, j \in DOMAIN outbox' :
          i < j /\ outbox'[i] = Close => outbox'[j].type # "message"
    BY <1>0, <2>3 DEF ThreadInv
  <2>7. ThreadInv' /\ IncomingInv'
    BY <1>0, <1>1, <1>3, <2>6 DEF ThreadInv, IncomingInv
  <2>8. OutgoingInv'
    BY <1>0, <1>1, <2>2 DEF OutgoingInv
  <2>9. WorkerInv' /\ ProxyInv'
    <3>1. Len(outbox') <= Len(outbox) /\ posted \in Nat
      BY <1>0, <2>1, <2>3, Ranges DEF TypeOK
    <3>2. Len(outgoing') + Len(outbox') = Len(outgoing) + Len(outbox)
      BY <2>1, <2>3
    <3> QED
      BY <1>0, <1>1, <1>3, <2>1, <2>3, <3>1, <3>2 DEF WorkerInv, ProxyInv, Waits
  <2> QED
    BY <2>5, <2>7, <2>8, <2>9 DEF IInv
<1> QED
  BY <1>2, <1>3 DEF PeerEmits, WorkerRejectsEntry, queueVars

\* The peer goes on to another state, or returns, and touches no queue.
LEMMA PeerMovingPreserves ==
  ASSUME IInv,
         PeerEmitted \/ WorkerChecks \/ WorkerIdles \/ ProxyDrained
  PROVE  IInv'
<1>0. TypeOK /\ ThreadInv /\ IncomingInv /\ OutgoingInv /\ WorkerInv /\ ProxyInv
  BY DEF IInv
<1>1. UNCHANGED <<kind, accepting, session, held, incoming, outgoing, outbox, posted, closing, readyState, running,
                  connection, sent, got, made, wrote>>
  BY DEF PeerEmitted, WorkerChecks, WorkerIdles, ProxyDrained,
         PeerUnchanged, runtimeVars, queueVars
<1>2. /\ outbox = <<>> /\ peer # "gone"
      /\ peer' \in {"check", "receive", "gone"}
           \/ (peer' = "upstream" /\ kind = "proxy" /\ incoming = <<>>)
  <2>1. peer # "emit" \/ outbox = <<>>
    BY DEF PeerEmitted, WorkerChecks, WorkerIdles, ProxyDrained
  <2>2. /\ peer # "gone"
        /\ peer' \in {"check", "receive", "gone"}
             \/ (peer' = "upstream" /\ kind = "proxy" /\ incoming = <<>>)
    BY SMT DEF PeerEmitted, WorkerChecks, WorkerIdles, ProxyDrained
  <2> QED
    BY <1>0, <2>1, <2>2 DEF ThreadInv
<1>3. TypeOK' /\ ThreadInv'
  BY <1>0, <1>1, <1>2 DEF TypeOK, ThreadInv, PeerStates
<1>4. IncomingInv' /\ OutgoingInv' /\ WorkerInv'
  BY <1>0, <1>1, <1>2 DEF IncomingInv, OutgoingInv, WorkerInv, Waits
<1>5. ProxyInv'
  <2>1. kind = "proxy" /\ closing => peer' = "gone"
    BY <1>0 DEF ProxyInv, PeerEmitted, WorkerChecks, WorkerIdles, ProxyDrained
  <2> QED
    BY <1>0, <1>1, <1>2, <2>1 DEF ProxyInv, Waits
<1> QED
  BY <1>3, <1>4, <1>5 DEF IInv

\* What is on its way to the peer when it has taken the first entry.
LEMMA ReceivingKeepsIncoming ==
  ASSUME IInv, peer # "gone", incoming # <<>>, incoming' = Tail(incoming),
         got' = Received(Head(incoming)), UNCHANGED <<held, sent>>
  PROVE  /\ IncomingInv' /\ got' \in Seq(1..MaxIn)
         /\ incoming' \in Seq(Entries(MaxIn)) /\ Len(incoming') < Capacity
<1>0. TypeOK /\ IncomingInv
  BY DEF IInv
<1>1. /\ Head(incoming) \in Entries(MaxIn) /\ incoming' \in Seq(Entries(MaxIn))
      /\ Len(incoming') = Len(incoming) - 1
      /\ incoming \o held # <<>> /\ Head(incoming \o held) = Head(incoming)
      /\ Tail(incoming \o held) = incoming' \o held'
  <2>1. incoming \in Seq(Entries(MaxIn)) /\ held \in Seq(Entries(MaxIn)) /\ held' = held
    BY <1>0, Ranges
  <2> QED
    BY <2>1, PipeTail
<1>2. Len(incoming') < Capacity
  BY <1>0, <1>1, Ranges DEF TypeOK
<1>3. /\ Len(got) \in Nat /\ Len(got) <= sent /\ got = UpTo(Len(got)) /\ sent \in Nat
      /\ Carries(incoming \o held, Len(got), sent) /\ got \in Seq(1..MaxIn)
  BY <1>0, Ranges DEF IncomingInv, TypeOK
<1>4. IF Head(incoming).type = "message"
        THEN /\ Head(incoming).id = Len(got) + 1 /\ Len(got) + 1 <= sent
             /\ Carries(incoming' \o held', Len(got) + 1, sent)
        ELSE Carries(incoming' \o held', Len(got), sent)
  <2> DEFINE pipe == incoming \o held
  <2>1. /\ pipe \in Seq(Entries(MaxIn)) /\ pipe # <<>> /\ Head(pipe) = Head(incoming)
        /\ Tail(pipe) = incoming' \o held' /\ Carries(pipe, Len(got), sent)
    BY <1>0, <1>1, <1>3, Ranges
  <2> HIDE DEF pipe
  <2>2. IF Head(pipe).type = "message"
          THEN /\ Head(pipe).id = Len(got) + 1 /\ Len(got) + 1 <= sent
               /\ Carries(Tail(pipe), Len(got) + 1, sent)
          ELSE Carries(Tail(pipe), Len(got), sent)
    BY <1>3, <2>1, CarriesTail
  <2> QED
    BY <2>1, <2>2
<1>5. CASE Head(incoming).type = "message"
  <2>1. got' = Append(got, Head(incoming).id) /\ Head(incoming).id = Len(got) + 1
    BY <1>4, <1>5 DEF Received
  <2>2. got' = UpTo(Len(got) + 1)
    BY <1>3, <2>1, UpToGrows
  <2>3. Len(got') = Len(got) + 1
    BY <1>3, <2>2, UpToGrows
  <2>4. Head(incoming).id \in 1..MaxIn
    BY <1>0, <1>1, <1>5, Ranges, EntryCases
  <2>5. got \in Seq(1..MaxIn)
    BY <1>0 DEF TypeOK
  <2>6. Append(got, Head(incoming).id) \in Seq(1..MaxIn)
    BY <2>4, <2>5, AppendProperties
  <2>7. got' \in Seq(1..MaxIn)
    BY <2>1, <2>6
  <2> QED
    BY <1>1, <1>2, <1>4, <1>5, <2>2, <2>3, <2>7 DEF IncomingInv
<1>6. CASE Head(incoming).type # "message"
  <2>1. got' = got
    BY <1>6 DEF Received
  <2> QED
    BY <1>1, <1>2, <1>3, <1>4, <1>6, <2>1 DEF IncomingInv
<1> QED
  BY <1>5, <1>6

\* What the peer makes joins what is on its way to the client.
LEMMA PostingKeepsOutgoing ==
  ASSUME IInv, outbox = <<>>, UNCHANGED <<session, held, outgoing, wrote>>,
         made' \in Nat, made <= made',
         outbox' \in Seq(Entries(MaxOut)), Carries(outbox', made, made')
  PROVE  OutgoingInv'
<1>0. TypeOK /\ OutgoingInv
  BY DEF IInv
<1>1. ASSUME Len(wrote) <= made, Carries(outgoing \o outbox, Len(wrote), made)
      PROVE  Carries(outgoing' \o outbox', Len(wrote), made')
  <2>1. outgoing \o outbox = outgoing
    BY <1>0, Ranges
  <2> QED
    BY <1>0, <1>1, <2>1, Ranges, CarriesConcat
<1>2. CASE /\ Len(wrote) <= made /\ wrote = UpTo(Len(wrote))
           /\ session # "gone" => Carries(outgoing \o outbox, Len(wrote), made)
  <2>1. Len(wrote) <= made'
    BY <1>0, <1>2, Ranges
  <2> QED
    BY <1>1, <1>2, <2>1 DEF OutgoingInv
<1>3. CASE /\ \E n \in 0..made : wrote = Append(UpTo(n), Close.id)
           /\ session = "gone" \/ held = <<Close>>
  <2>1. \A n \in 0..made : n \in 0..made'
    BY <1>0, Ranges
  <2> QED
    BY <1>3, <2>1 DEF OutgoingInv
<1> QED
  BY <1>0, <1>2, <1>3 DEF OutgoingInv

\* A close in the outbox, and nothing with it.
LEMMA CloseAlone ==
  ASSUME NEW max \in Nat, NEW n \in Nat
  PROVE  /\ <<Close>> \in Seq(Entries(max)) /\ Len(<<Close>>) = 1
         /\ Carries(<<Close>>, n, n)
         /\ \A i, j \in DOMAIN <<Close>> :
              i < j /\ <<Close>>[i] = Close => <<Close>>[j].type # "message"
<1>1. Close \in Entries(max) /\ Close.type # "message"
  BY EntryCases
<1> DEFINE q == <<Close>>
<1>2. q \in Seq(Entries(max)) /\ Len(q) = 1 /\ DOMAIN q = {1} /\ q[1] = Close
  BY <1>1
<1> HIDE DEF q
<1>3. \A i \in DOMAIN q : q[i].type # "message"
  BY <1>1, <1>2
<1>4. Carries(q, n, n)
  BY <1>3, CarriesNothing
<1> QED
  BY <1>2, <1>3, <1>4 DEF q

\* The worker takes an event.
LEMMA WorkerTakingPreserves ==
  ASSUME IInv, WorkerReceives
  PROVE  IInv'
<1>0. TypeOK /\ ThreadInv /\ IncomingInv /\ OutgoingInv /\ WorkerInv /\ ProxyInv
  BY DEF IInv
<1>1. /\ UNCHANGED <<kind, accepting, session, held, outgoing, running, connection, sent, wrote,
                     outbox, posted, readyState, made>>
      /\ kind = "worker" /\ peer = "receive" /\ peer' = "handle" /\ outbox = <<>>
      /\ incoming # <<>> /\ incoming' = Tail(incoming) /\ got' = Received(Head(incoming))
      /\ closing' = (Head(incoming).type = "close")
  BY <1>0 DEF WorkerReceives, PeerUnchanged, runtimeVars, ThreadInv
<1>2. IncomingInv' /\ got' \in Seq(1..MaxIn) /\ incoming' \in Seq(Entries(MaxIn))
      /\ Len(incoming') < Capacity /\ Len(incoming') \in Nat
  BY <1>1, ReceivingKeepsIncoming, LenProperties
<1>3. Len(incoming') <= Capacity /\ Len(incoming') # Capacity
  BY <1>0, <1>2, Ranges
<1>4. TypeOK'
  <2>1. closing' \in BOOLEAN /\ peer' \in PeerStates
    BY <1>1 DEF PeerStates
  <2> QED
    BY <1>0, <1>1, <1>2, <1>3, <2>1 DEF TypeOK
<1>5. ThreadInv' /\ OutgoingInv'
  BY <1>0, <1>1 DEF ThreadInv, OutgoingInv
<1>6. WorkerInv' /\ ProxyInv'
  BY <1>0, <1>1, <1>3 DEF WorkerInv, ProxyInv, Waits
<1> QED
  BY <1>2, <1>4, <1>5, <1>6 DEF IInv

\* The worker's handler posts, or fails.
LEMMA HandlerPreserves ==
  ASSUME IInv, HandlerStep
  PROVE  IInv'
<1>0. TypeOK /\ ThreadInv /\ IncomingInv /\ OutgoingInv /\ WorkerInv /\ ProxyInv
  BY DEF IInv
<1>1. /\ UNCHANGED <<kind, accepting, session, held, incoming, outgoing, running, connection,
                     sent, wrote, closing, got>>
      /\ kind = "worker" /\ peer = "handle" /\ outbox = <<>>
  BY <1>0 DEF HandlerStep, WorkerHandles, WorkerThrows, PeerUnchanged, runtimeVars, queueVars,
         ThreadInv
<1>2. CASE WorkerHandles
  <2>1. PICK count \in 0..Burst, close \in BOOLEAN :
          /\ made + count <= MaxOut
          /\ outbox' = Posted(made, count, close) /\ made' = made + count
          /\ readyState' = IF close \/ closing THEN 3 ELSE readyState
    BY <1>2 DEF WorkerHandles
  <2>2. count \in Nat /\ count <= Burst /\ made \in Nat /\ MaxOut \in Nat /\ Burst \in Nat
    BY <1>0, <2>1, Ranges
  <2>3. /\ outbox' \in Seq(Entries(MaxOut)) /\ Len(outbox') \in 1..(count + 2)
        /\ Carries(outbox', made, made')
        /\ \A i, j \in DOMAIN outbox' :
             i < j /\ outbox'[i] = Close => outbox'[j].type # "message"
    <3> DEFINE entries == Posted(made, count, close)
    <3>1. /\ entries \in Seq(Entries(MaxOut)) /\ Len(entries) \in 1..(count + 2)
          /\ Carries(entries, made, made + count)
          /\ \A i, j \in DOMAIN entries :
               i < j /\ entries[i] = Close => entries[j].type # "message"
      BY <2>1, <2>2, PostedCarries
    <3> HIDE DEF entries
    <3>2. outbox' = entries
      BY <2>1 DEF entries
    <3> QED
      BY <2>1, <3>1, <3>2
  <2>4. /\ made' \in Nat /\ made <= made' /\ made' <= MaxOut
        /\ posted' = Len(outbox') /\ posted' \in 0..(Burst + 2) /\ peer' = "emit"
    BY <1>2, <2>1, <2>2, <2>3 DEF WorkerHandles
  <2>5. OutgoingInv'
    BY <1>1, <2>3, <2>4, PostingKeepsOutgoing
  <2>6. TypeOK'
    <3>1. readyState' \in {1, 3} /\ made' \in 0..MaxOut /\ peer' \in PeerStates
      BY <1>0, <2>1, <2>4 DEF TypeOK, PeerStates
    <3> QED
      BY <1>0, <1>1, <2>3, <2>4, <3>1 DEF TypeOK
  <2>7. ThreadInv'
    BY <1>0, <1>1, <2>3, <2>4 DEF ThreadInv
  <2>8. IncomingInv'
    BY <1>0, <1>1, <2>4 DEF IncomingInv
  <2>9. WorkerInv' /\ ProxyInv'
    <3>1. Waits' => Len(outgoing) = 0
      BY <1>0, <1>1 DEF WorkerInv, Waits
    <3>2. Len(outbox') \in Nat
      BY <2>3
    <3> QED
      BY <1>1, <2>4, <3>1, <3>2 DEF WorkerInv, ProxyInv
  <2> QED
    BY <2>5, <2>6, <2>7, <2>8, <2>9 DEF IInv
<1>3. CASE WorkerThrows
  <2>1. UNCHANGED <<outbox, posted, readyState, made>> /\ peer' = "gone"
    BY <1>3 DEF WorkerThrows
  <2>2. TypeOK'
    BY <1>0, <1>1, <2>1 DEF TypeOK, PeerStates
  <2>3. ThreadInv' /\ IncomingInv' /\ OutgoingInv'
    BY <1>0, <1>1, <2>1 DEF ThreadInv, IncomingInv, OutgoingInv
  <2>4. WorkerInv' /\ ProxyInv'
    BY <1>0, <1>1, <2>1 DEF WorkerInv, ProxyInv, Waits
  <2> QED
    BY <2>2, <2>3, <2>4 DEF IInv
<1> QED
  BY <1>2, <1>3 DEF HandlerStep

\* The development proxy passes an entry on, reads its upstream, or fails.
LEMMA ProxyPreserves ==
  ASSUME IInv, ProxyChecks \/ ProxyDrains \/ ProxyReads
  PROVE  IInv'
<1>0. TypeOK /\ ThreadInv /\ IncomingInv /\ OutgoingInv /\ WorkerInv /\ ProxyInv
  BY DEF IInv
<1>1. /\ UNCHANGED <<kind, accepting, session, held, outgoing, running, connection, sent, wrote,
                     posted, readyState>>
      /\ peer \in {"check", "receive", "upstream"} /\ outbox = <<>> /\ kind = "proxy"
      /\ closing = FALSE
  BY <1>0 DEF ProxyInv, TypeOK, ProxyChecks, ProxyDrains, ProxyReads, PeerUnchanged, runtimeVars, queueVars, ThreadInv
<1>2. \/ /\ made < MaxOut /\ made' = made + 1 /\ outbox' = <<Message(made + 1)>>
         /\ peer' = "emit" /\ closing' = closing
      \/ outbox' = <<Close>> /\ closing' = TRUE /\ peer' = "emit" /\ made' = made
      \/ /\ outbox' = outbox /\ closing' = closing /\ made' = made
         /\ peer' \in {"check", "receive", "gone"}
  BY DEF ProxyChecks, ProxyDrains, ProxyReads, Fails
<1>3. /\ outbox' \in Seq(Entries(MaxOut)) /\ Len(outbox') <= 1
      /\ made' \in Nat /\ made <= made' /\ made' <= MaxOut /\ Carries(outbox', made, made')
      /\ \A i, j \in DOMAIN outbox' :
           i < j /\ outbox'[i] = Close => outbox'[j].type # "message"
  <2>1. CASE made < MaxOut /\ made' = made + 1 /\ outbox' = <<Message(made + 1)>>
    <3>1. made + 1 \in 1..MaxOut
      BY <1>0, <2>1, Ranges
    <3>2. Message(made + 1) \in Entries(MaxOut)
      BY <1>0, <3>1, Ranges, EntryCases
    <3>3. outbox' \in Seq(Entries(MaxOut)) /\ Len(outbox') = 1 /\ DOMAIN outbox' = {1}
      BY <2>1, <3>2
    <3>4. Carries(outbox', made, made')
      BY <1>0, <2>1, Ranges, CarriesOne
    <3>5. \A i, j \in DOMAIN outbox' : ~(i < j)
      BY <3>3
    <3> QED
      BY <1>0, <2>1, <3>3, <3>4, <3>5, Ranges
  <2>2. CASE outbox' = <<Close>> /\ made' = made
    BY <1>0, <2>2, Ranges, CloseAlone
  <2>3. CASE outbox' = outbox /\ made' = made
    <3>1. outbox' = <<>> /\ DOMAIN outbox' = {}
      BY <1>1, <2>3
    <3>2. Carries(outbox', made, made)
      BY <1>0, <3>1, Ranges, CarriesNothing
    <3> QED
      BY <1>0, <2>3, <3>1, <3>2, Ranges
  <2> QED
    BY <1>2, <2>1, <2>2, <2>3
<1>4. OutgoingInv'
  BY <1>1, <1>3, PostingKeepsOutgoing
<1>5. ThreadInv'
  BY <1>0, <1>1, <1>2, <1>3 DEF ThreadInv
<1>6. closing' \in BOOLEAN /\ made' \in 0..MaxOut /\ peer' \in PeerStates
  <2>1. closing' \in BOOLEAN
    BY <1>0, <1>2 DEF TypeOK
  <2>2. peer' \in PeerStates
    BY <1>0, <1>2 DEF TypeOK, PeerStates
  <2>3. made' \in 0..MaxOut
    BY <1>0, <1>3 DEF TypeOK
  <2> QED
    BY <2>1, <2>2, <2>3
<1>7. /\ kind' = "proxy" /\ Len(outbox') <= 1
      /\ (closing' => peer' \in {"emit", "gone"})
  BY <1>1, <1>2, <1>3
<1>8. CASE ProxyDrains
  <2>1. /\ incoming # <<>> /\ incoming' = Tail(incoming) /\ got' = Received(Head(incoming))
        /\ peer # "gone"
    BY <1>1, <1>8 DEF ProxyDrains
  <2>2. IncomingInv' /\ got' \in Seq(1..MaxIn) /\ incoming' \in Seq(Entries(MaxIn))
        /\ Len(incoming') < Capacity /\ Len(incoming') \in Nat
    BY <1>1, <2>1, ReceivingKeepsIncoming, LenProperties
  <2>3. Len(incoming') # Capacity /\ Len(incoming') <= Capacity
    BY <1>0, <2>2, Ranges
  <2>4. TypeOK'
    BY <1>0, <1>1, <1>3, <1>6, <2>2, <2>3 DEF TypeOK
  <2>5. peer' \notin {"upstream", "handle"}
    BY <1>8 DEF ProxyDrains, Fails
  <2>6. WorkerInv' /\ ProxyInv'
    BY <1>1, <1>7, <2>3, <2>5 DEF WorkerInv, ProxyInv, Waits
  <2> QED
    BY <1>4, <1>5, <2>2, <2>4, <2>6 DEF IInv
<1>9. CASE ProxyChecks \/ ProxyReads
  <2>1. UNCHANGED <<incoming, got>> /\ peer \in {"check", "upstream"} /\ peer # "gone"
        /\ peer' \notin {"upstream", "handle"}
    BY <1>9, Zenon DEF ProxyChecks, ProxyReads, Fails, queueVars
  <2>2. TypeOK'
    BY <1>0, <1>1, <1>3, <1>6, <2>1 DEF TypeOK
  <2>3. IncomingInv'
    <3>1. peer' # "gone" => peer # "gone"
      BY <2>1
    <3> QED
      BY <1>0, <1>1, <2>1, <3>1 DEF IncomingInv
  <2>4. WorkerInv' /\ ProxyInv'
    <3>1. Len(outbox') \in Nat /\ Len(outgoing) \in Nat /\ Len(outbox) = 0
      BY <1>0, <1>1, <1>3, Ranges, LenProperties
    <3>2. ASSUME Waits
          PROVE  Len(outgoing) + Len(outbox') <= IF closing' THEN 2 ELSE 1
      <4>1. incoming # <<>>
        BY <1>0, <3>2, Ranges DEF Waits
      <4>2. Len(outgoing) <= 1
        BY <1>0, <1>1, <3>1, <3>2 DEF ProxyInv
      <4>3. CASE peer = "upstream"
        <5>1. Len(outgoing) = 0
          BY <1>0, <3>2, <4>1, <4>3 DEF ProxyInv, Waits
        <5> QED
          BY <1>3, <3>1, <5>1
      <4>4. CASE peer = "check"
        <5>1. ProxyChecks
          BY <1>9, <4>4 DEF ProxyReads
        <5>2. closing' = TRUE \/ Len(outbox') = 0
          BY <3>1, <5>1 DEF ProxyChecks, Fails
        <5> QED
          BY <1>3, <3>1, <4>2, <5>2
      <4> QED
        BY <2>1, <4>3, <4>4
    <3>3. Waits' <=> Waits
      BY <1>1, <2>1 DEF Waits
    <3> QED
      BY <1>1, <1>7, <2>1, <3>2, <3>3 DEF WorkerInv, ProxyInv
  <2> QED
    BY <1>4, <1>5, <2>2, <2>3, <2>4 DEF IInv
<1> QED
  BY <1>8, <1>9

\* Every state of a behaviour satisfies the invariant.
THEOREM Invariance == Spec => []IInv
<1>1. IInv /\ (RuntimeSuspends \/ RuntimeDrops \/ RuntimeSevers \/ RuntimeResumes) => IInv'
  <2> SUFFICES ASSUME IInv,
                      RuntimeSuspends \/ RuntimeDrops \/ RuntimeSevers \/ RuntimeResumes
               PROVE  IInv'
    OBVIOUS
  <2>1. UNCHANGED <<kind, session, held, incoming, outgoing, peer, outbox, posted, closing, readyState,
                    sent, got, made, wrote>>
    BY DEF RuntimeSuspends, RuntimeDrops, RuntimeSevers, RuntimeResumes, RuntimeUnchanged, peerVars, queueVars
  <2>2. running' \in BOOLEAN /\ accepting' \in BOOLEAN /\ connection' \in {"open", "closing", "shut"}
    BY DEF RuntimeSuspends, RuntimeDrops, RuntimeSevers, RuntimeResumes, IInv, TypeOK
  <2>3. TypeOK' /\ ThreadInv'
    BY <2>1, <2>2 DEF IInv, TypeOK, ThreadInv
  <2>4. IncomingInv' /\ OutgoingInv' /\ WorkerInv' /\ ProxyInv'
    BY <2>1 DEF IInv, IncomingInv, OutgoingInv, WorkerInv, ProxyInv, Waits
  <2> QED
    BY <2>3, <2>4 DEF IInv
<1>2. IInv /\ UNCHANGED vars => IInv'
  BY DEF IInv, TypeOK, ThreadInv, IncomingInv, OutgoingInv, WorkerInv, ProxyInv, Waits,
         vars, queueVars, runtimeVars, peerVars
<1>3. IInv /\ [Next]_vars => IInv'
  BY <1>1, <1>2, TakingPreserves, MovingPreserves, ReadingPreserves, EmittingPreserves,
     PeerMovingPreserves, WorkerTakingPreserves, HandlerPreserves, ProxyPreserves DEF Next, SessionStep, PeerStep
<1> QED
  BY InitIInv, <1>3, PTL DEF Spec

-----------------------------------------------------------------------------
(* Theorems. *)

\* The variables keep to their values, and both queues to their capacity.
THEOREM TypeCorrect == Spec => []TypeOK
<1>1. IInv => TypeOK
  BY DEF IInv
<1> QED
  BY Invariance, <1>1, PTL

\* The peer receives the client's messages in order and without gaps, and the
\* client the peer's, whatever both of them do, whenever either ends, and however
\* small the queues are (websocket_session, websocket_loop, proxy_websocket).
THEOREM NoMessageIsLost == Spec => []MessagesConserved
<1>1. ASSUME IInv PROVE MessagesConserved
  <2>1. Len(got) \in 0..sent /\ Len(wrote) \in Nat /\ made \in Nat
    BY <1>1, Ranges DEF IInv, IncomingInv
  <2>2. Len(wrote) <= made => Len(wrote) \in 0..made
    BY <2>1
  <2> QED
    BY <1>1, <2>1, <2>2 DEF IInv, IncomingInv, OutgoingInv, MessagesConserved
<1> QED
  BY Invariance, <1>1, PTL

\* The client is sent nothing behind a close (RFC 6455 and write_close in
\* transport.rs).
THEOREM NothingFollowsClose == Spec => []CloseIsLast
<1>1. ASSUME IInv, NEW i \in DOMAIN wrote, wrote[i] = Close.id PROVE i = Len(wrote)
  <2>1. wrote \in Seq(0..MaxOut) /\ DOMAIN wrote = 1..Len(wrote) /\ made \in Nat
    BY <1>1, Ranges DEF IInv, TypeOK
  <2>2. Close.id = 0
    BY DEF Close
  <2>3. \A n \in Nat : /\ UpTo(n) \in Seq(Nat) /\ Len(UpTo(n)) = n
                       /\ \A k \in 1..n : UpTo(n)[k] = k
    BY UpToGrows
  <2>4. CASE wrote = UpTo(Len(wrote))
    <3>1. i \in 1..Len(wrote) /\ Len(wrote) \in Nat
      BY <1>1, <2>1
    <3>2. UpTo(Len(wrote))[i] = i
      BY <2>3, <3>1
    <3> QED
      BY <1>1, <2>2, <2>4, <3>1, <3>2
  <2>5. CASE \E n \in 0..made : wrote = Append(UpTo(n), Close.id)
    <3>1. PICK n \in 0..made : wrote = Append(UpTo(n), 0)
      BY <2>2, <2>5
    <3>0. n \in Nat
      BY <2>1
    <3>2. UpTo(n) \in Seq(Nat) /\ Len(UpTo(n)) = n /\ 0 \in Nat
      BY <3>0, UpToGrows
    <3>3. Len(wrote) = n + 1 /\ \A k \in 1..n : wrote[k] = UpTo(n)[k]
      BY <3>1, <3>2, AppendProperties
    <3>4. i \in 1..(n + 1)
      BY <1>1, <2>1, <3>3
    <3>5. i \in 1..n => wrote[i] = i
      BY <2>3, <3>2, <3>3
    <3> QED
      BY <1>1, <2>2, <3>2, <3>3, <3>4, <3>5
  <2> QED
    BY <1>1, <2>4, <2>5 DEF IInv, OutgoingInv
<1>2. IInv => CloseIsLast
  BY <1>1 DEF CloseIsLast
<1> QED
  BY Invariance, <1>2, PTL

\* The session and its peer wait for each other only if the worker posted more
\* entries for one event than a queue holds, and never with the development
\* proxy (websocket_session against websocket_loop and proxy_websocket): what is
\* left of other events never adds to it, whatever the queues' capacity.
THEOREM DeadlockIsAFlood == Spec => []DeadlockNeedsFlood
<1>1. IInv => DeadlockNeedsFlood
  <2> SUFFICES ASSUME IInv, BothBlocked PROVE kind = "worker" /\ posted > Capacity
    BY DEF DeadlockNeedsFlood
  <2>1. /\ Waits /\ Len(outgoing) = Capacity /\ outbox # <<>>
        /\ Len(outbox) \in Nat /\ Capacity \in Nat /\ Capacity > 1
    BY Ranges, CapacityNat DEF IInv, BothBlocked, Waits
  <2>2. Len(outbox) > 0
    BY <2>1, Ranges DEF IInv
  <2>3. kind # "proxy"
    BY <2>1, <2>2 DEF IInv, ProxyInv
  <2>4. kind = "worker" /\ posted \in Nat
    BY <2>3, PeerKinds DEF IInv, TypeOK
  <2> QED
    BY <2>1, <2>2, <2>4 DEF IInv, WorkerInv
<1> QED
  BY Invariance, <1>1, PTL

=============================================================================
