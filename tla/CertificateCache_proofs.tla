------------------------ MODULE CertificateCache_proofs ------------------------
(***************************************************************************)
(* Proofs about CertificateCache, for any number of refreshing threads,    *)
(* hosts, crashes, failed reads and writes and sets of certificates, and   *)
(* whatever expires.                                                       *)
(***************************************************************************)
EXTENDS CertificateCache, SequenceTheorems, TLAPS

Operations == Files \cup {"mark", "unmark"}

\* The operations that are left.
Left(operations) == {operations[i] : i \in DOMAIN operations}

-----------------------------------------------------------------------------
(* The inductive invariant. *)

\* Whole, without the quantifier.
Sound(b) ==
  /\ {b.caCert, b.serverCert, b.clientCert} \subseteq DOMAIN issued
  /\ b.caKey = b.caCert /\ b.caDer = b.caCert
  /\ b.serverKey = b.serverCert /\ b.serverIdentity = b.serverCert
  /\ b.clientKey = b.clientCert /\ b.clientDer = b.clientCert
  /\ issued[b.serverCert].authority = b.caCert
  /\ issued[b.clientCert].authority = b.caCert

\* Only certificates that were issued are anywhere.
KnownInv ==
  /\ \A f \in Files : disk[f] \in 0..Len(issued)
  /\ \A t \in Threads, f \in Files : bundle[t][f] \in 0..Len(issued)

\* The launch is alone: refreshes and handshakes wait until the runtime runs.
ProcessInv ==
  /\ process # "starting" => pc["start"] = "idle"
  /\ process # "running" =>
       acceptor = NoHandshake /\ \A t \in Refreshers : pc[t] = "idle"

\* Until two refreshes overlap, one thread works at a time.
LoneInv ==
  ~overlapped => \A s, t \in Threads : s # t => pc[s] = "idle" \/ pc[t] = "idle"

Transfers == {"load", "issuer", "write", "swap"}

\* What a thread that is not in doubt has read of the authority, or written of
\* it, is what the disk holds, whatever other threads do.
AuthorityInv(t) ==
  pc[t] \in Transfers /\ t \notin doubt =>
    \A f \in AuthorityFiles : f \in Left(todo[t]) \/ bundle[t][f] = disk[f]

\* What a thread writes belongs together, and replaces no current authority
\* unless the thread is in doubt.
WriteInv(t) ==
  /\ pc[t] \in {"write", "swap"} => Sound(bundle[t])
  /\ pc[t] = "write" =>
       /\ todo[t] # <<>>
       /\ \A i \in DOMAIN todo[t] : todo[t][i] = "mark" => i = Len(todo[t])
       /\ IssuerIsCurrent(disk) /\ t \notin doubt => SameAuthority(bundle[t], disk)
  /\ pc[t] = "swap" => todo[t] = <<>>

\* What a thread that is alone has read or written is on the disk, and it writes
\* only while there is no marker.
AloneInv(t) ==
  ~overlapped \/ t = "start" =>
    /\ pc[t] \in {"load", "write", "swap"} =>
         \A f \in Files : f \in Left(todo[t]) \/ bundle[t][f] = disk[f]
    /\ pc[t] = "write" /\ marker => Head(todo[t]) = "unmark"

\* While a running process has its first authority, a refresh holds the same one,
\* or a new one that it has not begun to write.
HeldInv(t) ==
  ~replaced /\ process = "running" =>
    /\ pc[t] \in {"load", "issuer"} =>
         "caCert" \in Left(todo[t]) \/ bundle[t].caCert = disk.caCert
    /\ pc[t] = "write" =>
         bundle[t].caCert = disk.caCert \/ todo[t] \in {WriteAll, Tail(WriteAll)}
    /\ pc[t] = "swap" => bundle[t].caCert = disk.caCert

ThreadFacts(t) == AuthorityInv(t) /\ WriteInv(t) /\ AloneInv(t) /\ HeldInv(t)
ThreadInv == \A t \in Threads : ThreadFacts(t)

MarkerInv == ~overlapped /\ marker => Sound(disk)

\* A running process holds its first authority, which is on the disk, and so does
\* a handshake.
RunInv ==
  ~replaced /\ process = "running" =>
    /\ disk.serverCert # 0 /\ issued[disk.serverCert].authority = disk.caCert
    /\ Sound(memory) /\ memory.caCert = disk.caCert
    /\ acceptor.step # "idle" =>
         /\ acceptor.cert \in DOMAIN issued
         /\ issued[acceptor.cert].authority = disk.caCert
    /\ acceptor.step = "ready" => acceptor.key = acceptor.cert

IInv == TypeOK /\ KnownInv /\ ProcessInv /\ LoneInv /\ ThreadInv /\ MarkerInv /\ RunInv

-----------------------------------------------------------------------------
(* Lemmas about the order of the operations. *)

\* What is left is the next operation and what is left after it.
LEMMA LeftOfTail ==
  ASSUME NEW s \in Seq(Operations), s # <<>>
  PROVE  /\ Head(s) \in Operations /\ Tail(s) \in Seq(Operations)
         /\ Left(s) = {Head(s)} \cup Left(Tail(s))
         /\ Len(Tail(s)) = Len(s) - 1
         /\ \A i \in DOMAIN Tail(s) : i + 1 \in DOMAIN s /\ Tail(s)[i] = s[i + 1]
<1>1. /\ Len(s) \in Nat \ {0} /\ DOMAIN s = 1..Len(s) /\ Head(s) = s[1]
      /\ Tail(s) \in Seq(Operations) /\ Len(Tail(s)) = Len(s) - 1
      /\ \A i \in 1..Len(Tail(s)) : Tail(s)[i] = s[i + 1]
  BY EmptySeq, LenProperties, HeadTailProperties
<1>2. DOMAIN Tail(s) = 1..(Len(s) - 1)
  BY <1>1, LenProperties
<1>3. Head(s) \in Operations
  BY <1>1, ElementOfSeq
<1>4. \A i \in DOMAIN s : i = 1 \/ (i - 1 \in DOMAIN Tail(s) /\ s[i] = Tail(s)[i - 1])
  BY <1>1, <1>2
<1>5. \A i \in DOMAIN Tail(s) : i + 1 \in DOMAIN s /\ Tail(s)[i] = s[i + 1]
  BY <1>1, <1>2
<1>6. 1 \in DOMAIN s
  BY <1>1
<1>7. Left(s) \subseteq {Head(s)} \cup Left(Tail(s))
  <2>1. SUFFICES ASSUME NEW i \in DOMAIN s PROVE s[i] = Head(s) \/ s[i] \in Left(Tail(s))
    BY DEF Left
  <2>2. CASE i = 1
    BY <1>1, <2>2
  <2>3. CASE i - 1 \in DOMAIN Tail(s) /\ s[i] = Tail(s)[i - 1]
    BY <2>3 DEF Left
  <2> QED
    BY <1>4, <2>2, <2>3
<1>8. {Head(s)} \cup Left(Tail(s)) \subseteq Left(s)
  BY <1>1, <1>5, <1>6 DEF Left
<1> QED
  BY <1>1, <1>3, <1>5, <1>7, <1>8

\* Nothing is left when there is no operation.
LEMMA NothingLeft == Left(<<>>) = {} /\ <<>> \in Seq(Operations)
  BY EmptySeq DEF Left

\* Every file of an order is left when it starts; the marker is the first to go
\* and the last to come.
LEMMA CommittedOrder ==
  ASSUME NEW order \in Seq(Files)
  PROVE  /\ Committed(order) \in Seq(Operations) /\ Committed(order) # <<>>
         /\ Left(order) \subseteq Left(Committed(order))
         /\ Head(Committed(order)) = "unmark"
         /\ \A i \in DOMAIN Committed(order) :
              Committed(order)[i] = "mark" => i = Len(Committed(order))
<1> DEFINE first == <<"unmark">> \o order
           all == first \o <<"mark">>
<1>1. Files \subseteq Operations /\ "mark" \in Operations /\ "unmark" \in Operations
  BY DEF Operations
<1>2. "mark" \notin Files
  BY DEF Files, AuthorityFiles, LeafFiles
<1>3. /\ <<"unmark">> \in Seq(Operations) /\ Len(<<"unmark">>) = 1 /\ <<"unmark">>[1] = "unmark"
      /\ <<"mark">> \in Seq(Operations) /\ Len(<<"mark">>) = 1
  BY <1>1
<1>4. /\ order \in Seq(Operations) /\ Len(order) \in Nat /\ DOMAIN order = 1..Len(order)
      /\ \A i \in 1..Len(order) : order[i] \in Files
  BY <1>1, SeqMonotonic, LenProperties, ElementOfSeq
<1>5. /\ first \in Seq(Operations) /\ Len(first) = Len(order) + 1
      /\ \A i \in 1..(Len(order) + 1) : first[i] = IF i <= 1 THEN <<"unmark">>[i] ELSE order[i - 1]
  BY <1>3, <1>4, ConcatProperties
<1> HIDE DEF first
<1>6. /\ all \in Seq(Operations) /\ Len(all) = Len(order) + 2
      /\ \A i \in 1..(Len(order) + 2) : all[i] = IF i <= Len(first) THEN first[i] ELSE <<"mark">>[i - Len(first)]
  BY <1>3, <1>4, <1>5, ConcatProperties
<1>7. Committed(order) = all
  BY DEF Committed, all, first
<1> HIDE DEF all
<1>8. DOMAIN all = 1..(Len(order) + 2)
  BY <1>6, LenProperties
<1>9. \A i \in 1..(Len(order) + 1) : all[i] = first[i]
  BY <1>4, <1>5, <1>6
<1>10. all[1] = "unmark"
  BY <1>3, <1>4, <1>5, <1>9
<1>11. \A i \in 1..Len(order) : all[i + 1] = order[i]
  BY <1>4, <1>5, <1>9
<1>12. \A i \in DOMAIN all : all[i] = "mark" => i = Len(all)
  <2>1. SUFFICES ASSUME NEW i \in DOMAIN all, i # Len(all) PROVE all[i] # "mark"
    OBVIOUS
  <2>2. i \in 1..(Len(order) + 1)
    BY <1>4, <1>6, <1>8, <2>1
  <2>3. CASE i = 1
    BY <1>10, <2>3
  <2>4. CASE i # 1
    <3>1. i - 1 \in 1..Len(order) /\ i = (i - 1) + 1
      BY <1>4, <2>2, <2>4
    <3>2. all[i] = order[i - 1]
      BY <1>11, <3>1
    <3> QED
      BY <1>2, <1>4, <3>1, <3>2
  <2> QED
    BY <2>3, <2>4
<1>13. all # <<>> /\ Head(all) = all[1]
  BY <1>4, <1>6, EmptySeq
<1>14. Left(order) \subseteq Left(all)
  <2>1. \A i \in 1..Len(order) : i + 1 \in DOMAIN all
    BY <1>4, <1>8
  <2> QED
    BY <1>4, <1>11, <2>1 DEF Left
<1> QED
  BY <1>6, <1>7, <1>10, <1>12, <1>13, <1>14

\* The orders name every file they have to.
LEMMA OrdersCover ==
  /\ LoadOrder \in Seq(Files) /\ Files \subseteq Left(LoadOrder)
  /\ IssuerOrder \in Seq(Files) /\ AuthorityFiles \subseteq Left(IssuerOrder)
  /\ LoadOrder \in Seq(Operations) /\ IssuerOrder \in Seq(Operations)
  /\ WriteAll \in Seq(Operations) /\ WriteAll # <<>> /\ Files \subseteq Left(WriteAll)
  /\ WriteLeaves \in Seq(Operations) /\ WriteLeaves # <<>>
  /\ LeafFiles \subseteq Left(WriteLeaves)
  /\ \A order \in {WriteAll, WriteLeaves} :
       /\ Head(order) = "unmark"
       /\ \A i \in DOMAIN order : order[i] = "mark" => i = Len(order)
<1>1. LoadOrder \in Seq(Files) /\ IssuerOrder \in Seq(Files)
  BY DEF LoadOrder, IssuerOrder, Files, AuthorityFiles, LeafFiles
<1>2. Files \subseteq Operations
  BY DEF Operations
<1>3. LoadOrder \in Seq(Operations) /\ IssuerOrder \in Seq(Operations)
  BY <1>1, <1>2, SeqMonotonic
<1>4. Files \subseteq Left(LoadOrder)
  <2>1. DOMAIN LoadOrder = 1..9
    BY DEF LoadOrder
  <2>2. \A i \in 1..9 : LoadOrder[i] \in Left(LoadOrder)
    BY <2>1 DEF Left
  <2>3. /\ LoadOrder[1] = "caCert" /\ LoadOrder[2] = "caKey" /\ LoadOrder[3] = "serverCert"
        /\ LoadOrder[4] = "serverKey" /\ LoadOrder[5] = "serverIdentity"
        /\ LoadOrder[6] = "clientCert" /\ LoadOrder[7] = "clientKey"
        /\ LoadOrder[8] = "clientDer" /\ LoadOrder[9] = "caDer"
    BY DEF LoadOrder
  <2> HIDE DEF LoadOrder
  <2>4. {"caCert", "caKey", "serverCert", "serverKey", "serverIdentity", "clientCert",
         "clientKey", "clientDer", "caDer"} \subseteq Left(LoadOrder)
    BY <2>2, <2>3
  <2> QED
    BY <2>4 DEF Files, AuthorityFiles, LeafFiles
<1>5. AuthorityFiles \subseteq Left(IssuerOrder)
  <2>1. DOMAIN IssuerOrder = 1..3 /\ IssuerOrder[1] = "caCert" /\ IssuerOrder[2] = "caKey"
        /\ IssuerOrder[3] = "caDer"
    BY DEF IssuerOrder
  <2>2. {IssuerOrder[1], IssuerOrder[2], IssuerOrder[3]} \subseteq Left(IssuerOrder)
    BY <2>1 DEF Left
  <2> QED
    BY <2>1, <2>2 DEF AuthorityFiles
<1> DEFINE leaves == <<"serverCert", "serverKey", "clientCert", "clientKey", "clientDer",
                       "serverIdentity">>
<1>6. leaves \in Seq(Files)
  BY DEF Files, LeafFiles
<1>7. LeafFiles \subseteq Left(leaves)
  <2>1. DOMAIN leaves = 1..6 /\ leaves[1] = "serverCert" /\ leaves[2] = "serverKey"
        /\ leaves[3] = "clientCert" /\ leaves[4] = "clientKey" /\ leaves[5] = "clientDer"
        /\ leaves[6] = "serverIdentity"
    OBVIOUS
  <2> HIDE DEF leaves
  <2>2. {leaves[1], leaves[2], leaves[3], leaves[4], leaves[5], leaves[6]} \subseteq Left(leaves)
    BY <2>1 DEF Left
  <2> QED
    BY <2>1, <2>2 DEF LeafFiles
<1>8. WriteLeaves = Committed(leaves) /\ WriteAll = Committed(LoadOrder)
  BY DEF WriteLeaves, WriteAll
<1> HIDE DEF leaves
<1>9. /\ Committed(leaves) \in Seq(Operations) /\ Committed(leaves) # <<>>
      /\ LeafFiles \subseteq Left(Committed(leaves))
      /\ Head(Committed(leaves)) = "unmark"
      /\ \A i \in DOMAIN Committed(leaves) :
           Committed(leaves)[i] = "mark" => i = Len(Committed(leaves))
  BY <1>6, <1>7, CommittedOrder
<1>10. /\ Committed(LoadOrder) \in Seq(Operations) /\ Committed(LoadOrder) # <<>>
       /\ Files \subseteq Left(Committed(LoadOrder))
       /\ Head(Committed(LoadOrder)) = "unmark"
       /\ \A i \in DOMAIN Committed(LoadOrder) :
            Committed(LoadOrder)[i] = "mark" => i = Len(Committed(LoadOrder))
  BY <1>1, <1>4, CommittedOrder
<1> QED
  BY <1>1, <1>3, <1>4, <1>5, <1>8, <1>9, <1>10

\* A new authority is the first thing written after the marker is removed.
LEMMA AuthorityFirst ==
  /\ Head(WriteAll) = "unmark" /\ Len(WriteAll) # 1
  /\ Head(Tail(WriteAll)) = "caCert" /\ Len(Tail(WriteAll)) # 1
<1> DEFINE mark == <<"mark">>
           unmark == <<"unmark">>
           first == unmark \o LoadOrder
<1>1. LoadOrder \in Seq(Operations) /\ Len(LoadOrder) = 9 /\ LoadOrder[1] = "caCert"
  BY OrdersCover DEF LoadOrder
<1>2. /\ unmark \in Seq(Operations) /\ Len(unmark) = 1
      /\ mark \in Seq(Operations) /\ Len(mark) = 1
  BY DEF Operations
<1>3. WriteAll = first \o mark
  BY DEF WriteAll, Committed
<1> HIDE DEF mark, unmark
<1> HIDE DEF LoadOrder
<1>4. /\ first \in Seq(Operations) /\ Len(first) = Len(unmark) + Len(LoadOrder)
      /\ \A i \in 1..(Len(unmark) + Len(LoadOrder)) :
           first[i] = IF i <= Len(unmark) THEN unmark[i] ELSE LoadOrder[i - Len(unmark)]
  BY <1>1, <1>2, ConcatProperties, Zenon
<1>5. Len(first) = 10 /\ first[2] = "caCert"
  BY <1>1, <1>2, <1>4
<1> HIDE DEF first
<1>6. Len(WriteAll) = 11 /\ WriteAll[2] = first[2]
  <2>1. /\ Len(WriteAll) = Len(first) + Len(mark)
        /\ \A i \in 1..(Len(first) + Len(mark)) :
             WriteAll[i] = IF i <= Len(first) THEN first[i] ELSE mark[i - Len(first)]
    <3>1. /\ Len(first \o mark) = Len(first) + Len(mark)
          /\ \A i \in 1..(Len(first) + Len(mark)) :
               (first \o mark)[i] = IF i <= Len(first) THEN first[i] ELSE mark[i - Len(first)]
      <4>1. first \in Seq(Operations) /\ mark \in Seq(Operations)
        BY <1>2, <1>4
      <4> QED
        BY <4>1, ConcatProperties
    <3> QED
      BY <1>3, <3>1
  <2> QED
    BY <1>2, <1>5, <2>1
<1>7. WriteAll \in Seq(Operations) /\ WriteAll # <<>> /\ Head(WriteAll) = "unmark"
  BY OrdersCover
<1>8. /\ Tail(WriteAll) \in Seq(Operations) /\ Len(Tail(WriteAll)) = 10
      /\ \A i \in DOMAIN Tail(WriteAll) : Tail(WriteAll)[i] = WriteAll[i + 1]
  <2>1. /\ Tail(WriteAll) \in Seq(Operations) /\ Len(Tail(WriteAll)) = Len(WriteAll) - 1
        /\ \A i \in DOMAIN Tail(WriteAll) : Tail(WriteAll)[i] = WriteAll[i + 1]
    BY <1>7, LeftOfTail
  <2> QED
    BY <1>6, <2>1
<1>9. DOMAIN Tail(WriteAll) = 1..10 /\ Tail(WriteAll) # <<>>
  <2>1. DOMAIN Tail(WriteAll) = 1..Len(Tail(WriteAll))
    BY <1>8, LenProperties, Zenon
  <2>2. Len(<<>>) = 0 /\ 0 # 10
    BY EmptySeq
  <2> QED
    BY <1>8, <2>1, <2>2, Zenon
<1>10. Head(Tail(WriteAll)) = Tail(WriteAll)[1]
  BY <1>8, <1>9, HeadTailProperties
<1>11. Tail(WriteAll)[1] = WriteAll[2]
  BY <1>8, <1>9
<1>12. Len(WriteAll) # 1 /\ Len(Tail(WriteAll)) # 1
  <2>1. 11 # 1 /\ 10 # 1
    OBVIOUS
  <2> QED
    BY <1>6, <1>8, <2>1, Zenon
<1> QED
  BY <1>5, <1>6, <1>7, <1>10, <1>11, <1>12, Zenon

-----------------------------------------------------------------------------
(* Lemmas about bundles. *)

\* Every file is one of nine.
LEMMA FileNames ==
  /\ AuthorityFiles \subseteq Files /\ LeafFiles \subseteq Files
  /\ AuthorityFiles \cap LeafFiles = {} /\ Files = AuthorityFiles \cup LeafFiles
  /\ "mark" \notin Files /\ "unmark" \notin Files
  /\ {"caCert", "caKey", "caDer"} \subseteq AuthorityFiles
  /\ {"serverCert", "serverKey", "serverIdentity", "clientCert", "clientKey", "clientDer"}
       \subseteq LeafFiles
  BY DEF Files, AuthorityFiles, LeafFiles

\* Bundles that agree on the authority are current alike.
LEMMA SameAuthorityCurrent ==
  ASSUME NEW b, NEW c, SameAuthority(b, c)
  PROVE  IssuerIsCurrent(b) <=> IssuerIsCurrent(c)
<1>1. b.caCert = c.caCert /\ b.caKey = c.caKey /\ b.caDer = c.caDer
  BY FileNames DEF SameAuthority
<1> QED
  BY <1>1 DEF IssuerIsCurrent, IssuerMatches

\* A bundle is whole when it is sound.
LEMMA SoundIsWhole ==
  ASSUME NEW b
  PROVE  Sound(b) => Whole(b)
<1>1. SUFFICES ASSUME Sound(b) PROVE Whole(b)
  OBVIOUS
<1>2. b.caCert \in DOMAIN issued /\ b.serverCert \in DOMAIN issued /\ b.clientCert \in DOMAIN issued
  BY <1>1 DEF Sound
<1>3. /\ \A f \in AuthorityFiles : b[f] = b.caCert
      /\ \A f \in ServerFiles : b[f] = b.serverCert
      /\ \A f \in LeafFiles \ ServerFiles : b[f] = b.clientCert
  BY <1>1 DEF Sound, AuthorityFiles, ServerFiles, LeafFiles
<1>4. issued[b.serverCert].authority = b.caCert /\ issued[b.clientCert].authority = b.caCert
  BY <1>1 DEF Sound
<1> QED
  BY <1>2, <1>3, <1>4 DEF Whole

\* Numbers of certificates.
LEMMA IssuedRange ==
  ASSUME TypeOK
  PROVE  /\ DOMAIN issued = 1..Len(issued) /\ Len(issued) \in Nat
         /\ MaxIssued \in Nat /\ MaxTime \in Nat /\ now \in Nat
         /\ \A i \in 1..Len(issued) :
              issued[i].authority \in 1..MaxIssued /\ issued[i].born \in Nat
<1>1. issued \in Seq([authority : 1..MaxIssued, born : 0..MaxTime, host : Hosts])
  BY DEF TypeOK
<1>2. /\ DOMAIN issued = 1..Len(issued) /\ Len(issued) \in Nat
      /\ \A i \in 1..Len(issued) : issued[i] \in [authority : 1..MaxIssued, born : 0..MaxTime, host : Hosts]
  BY <1>1, LenProperties, ElementOfSeq
<1>3. MaxIssued \in Nat /\ MaxTime \in Nat
  BY CacheBounds
<1> QED
  BY <1>2, <1>3 DEF TypeOK

\* A bundle that ensure keeps is whole.
LEMMA KeptIsSound ==
  ASSUME TypeOK, NEW b, \A f \in Files : b[f] \in 0..Len(issued), Keeps(b)
  PROVE  Sound(b)
<1>1. /\ b.caCert \in 0..Len(issued) /\ b.serverCert \in 0..Len(issued)
      /\ b.clientCert \in 0..Len(issued)
  BY FileNames
<1>2. /\ b.caCert # 0 /\ b.caKey = b.caCert /\ b.caDer = b.caCert
      /\ b.serverCert # 0 /\ b.serverKey = b.serverCert /\ b.serverIdentity = b.serverCert
      /\ b.clientCert # 0 /\ b.clientKey = b.clientCert /\ b.clientDer = b.clientCert
      /\ issued[b.serverCert].authority = b.caCert
      /\ issued[b.clientCert].authority = b.caCert
  BY DEF Keeps, MaterialIsCurrent, IssuerIsCurrent, IssuerMatches, LeavesMatch, LeafMatches
<1>3. {b.caCert, b.serverCert, b.clientCert} \subseteq 1..Len(issued)
  BY <1>1, <1>2, IssuedRange
<1> QED
  BY <1>2, <1>3, IssuedRange DEF Sound

\* Threads that work at the same time are refreshes of a running process.
LEMMA TwoOverlap ==
  ASSUME IInv, NEW s \in Threads, NEW t \in Threads,
         s # t, pc[s] # "idle", pc[t] # "idle"
  PROVE  overlapped /\ process = "running" /\ s # "start"
<1>1. ProcessInv /\ LoneInv /\ process \in {"down", "starting", "running"}
      /\ overlapped \in BOOLEAN
  BY DEF IInv, TypeOK
<1>2. s \in Refreshers \/ t \in Refreshers
  BY DEF Threads
<1>3. process = "running"
  BY <1>1, <1>2 DEF ProcessInv
<1>4. s # "start"
  BY <1>1, <1>3 DEF ProcessInv
<1> QED
  BY <1>1, <1>3, <1>4 DEF LoneInv
-----------------------------------------------------------------------------
(* Lemmas about steps. *)

Steps == {"idle", "look", "load", "issuer", "write", "swap"}

\* What a step of a thread does to the threads.
LEMMA GoesStep ==
  ASSUME TypeOK, NEW t \in Threads, NEW step \in Steps, NEW b \in Bundles,
         NEW operations \in Seq(Operations), Goes(t, step, b, operations)
  PROVE  /\ pc' \in [Threads -> Steps] /\ bundle' \in [Threads -> Bundles]
         /\ todo' \in [Threads -> Seq(Operations)]
         /\ pc'[t] = step /\ bundle'[t] = b /\ todo'[t] = operations
         /\ \A s \in Threads : s # t =>
              pc'[s] = pc[s] /\ bundle'[s] = bundle[s] /\ todo'[s] = todo[s]
<1>1. /\ pc \in [Threads -> Steps] /\ bundle \in [Threads -> Bundles]
      /\ todo \in [Threads -> Seq(Operations)]
  BY DEF TypeOK, Steps, Operations
<1>2. /\ pc' = [pc EXCEPT ![t] = step] /\ bundle' = [bundle EXCEPT ![t] = b]
      /\ todo' = [todo EXCEPT ![t] = operations]
  BY DEF Goes
<1> QED
  BY <1>1, <1>2

\* The history of a step leaves thread s in the doubt it is in, and does not
\* forget that refreshes overlapped or that the authority changed.
Remembers(s) ==
  /\ s \in doubt => s \in doubt'
  /\ ~overlapped' => ~overlapped
  /\ ~replaced' /\ process' = "running" => ~replaced /\ process = "running"

\* Nothing is said of a thread that has nothing in its hands.
LEMMA IdleHolds ==
  ASSUME NEW s, pc'[s] \in {"idle", "look"}
  PROVE  ThreadFacts(s)'
  BY DEF ThreadFacts, AuthorityInv, WriteInv, AloneInv, HeldInv, Transfers

\* A thread that does nothing, while no file changes, keeps what holds of it.
LEMMA ThreadStays ==
  ASSUME TypeOK, KnownInv, NEW s \in Threads, ThreadFacts(s), Remembers(s),
         UNCHANGED <<issued, disk, marker>>, now' \in Nat, now <= now',
         pc'[s] = pc[s], bundle'[s] = bundle[s], todo'[s] = todo[s]
  PROVE  ThreadFacts(s)'
<1>0. AuthorityInv(s) /\ WriteInv(s) /\ AloneInv(s) /\ HeldInv(s)
  BY DEF ThreadFacts
<1>1. AuthorityInv(s)' /\ AloneInv(s)' /\ HeldInv(s)'
  BY <1>0 DEF AuthorityInv, AloneInv, HeldInv, Remembers
<1>2. IssuerIsCurrent(disk)' => IssuerIsCurrent(disk)
  <2>1. SUFFICES ASSUME disk.caCert # 0, disk.caDer = disk.caCert, disk.caKey = disk.caCert,
                        now' < issued[disk.caCert].born + AuthorityLife
                 PROVE  now < issued[disk.caCert].born + AuthorityLife
    BY DEF IssuerIsCurrent, IssuerMatches, IsLive
  <2>2. disk.caCert \in 1..Len(issued)
    BY <2>1, IssuedRange, FileNames DEF KnownInv
  <2>3. now \in Nat /\ issued[disk.caCert].born \in Nat /\ AuthorityLife \in Nat
    BY <2>2, IssuedRange, LivesOrdered
  <2> QED
    BY <2>1, <2>3
<1>3. WriteInv(s)'
  BY <1>0, <1>2 DEF WriteInv, Sound, SameAuthority, Remembers
<1> QED
  BY <1>1, <1>3 DEF ThreadFacts

\* A step that changes no file and no certificate keeps what holds of the disk,
\* and of a running process whose bundle and handshake it leaves alone.
LEMMA WorldStays ==
  ASSUME IInv, UNCHANGED <<issued, disk, marker>>
  PROVE  /\ (~overlapped' => ~overlapped) => MarkerInv'
         /\ UNCHANGED <<process, memory, acceptor>> /\ (~replaced' => ~replaced) => RunInv'
<1>1. KnownInv /\ MarkerInv /\ RunInv
  BY DEF IInv
<1>2. (~overlapped' => ~overlapped) => MarkerInv'
  BY <1>1 DEF MarkerInv, Sound
<1>3. ASSUME UNCHANGED <<process, memory, acceptor>>, ~replaced' => ~replaced PROVE RunInv'
  BY <1>1, <1>3 DEF RunInv, Sound
<1> QED
  BY <1>2, <1>3

\* The threads know only certificates that were issued.
LEMMA KnownStays ==
  ASSUME KnownInv, UNCHANGED <<issued, disk>>, NEW t \in Threads,
         \A s \in Threads : s # t => bundle'[s] = bundle[s],
         \A f \in Files : bundle'[t][f] \in 0..Len(issued)
  PROVE  KnownInv'
  BY DEF KnownInv

\* A step of a thread that changes no file, no certificate and not the time keeps
\* the invariant when it keeps the thread's own.
LEMMA GoesPreserves ==
  ASSUME IInv, NEW t \in Threads, NEW step \in Steps, NEW b \in Bundles,
         NEW operations \in Seq(Operations), Goes(t, step, b, operations),
         UNCHANGED <<issued, disk, marker, now>>, ~overlapped' => ~overlapped,
         \A s \in Threads : s # t => pc[s] = "idle" \/ Remembers(s),
         \A f \in Files : b[f] \in 0..Len(issued),
         ThreadFacts(t)'
  PROVE  KnownInv' /\ ThreadInv' /\ MarkerInv'
<1>0. TypeOK /\ KnownInv /\ ThreadInv
  BY DEF IInv
<1>1. /\ bundle'[t] = b
      /\ \A s \in Threads : s # t =>
           pc'[s] = pc[s] /\ bundle'[s] = bundle[s] /\ todo'[s] = todo[s]
  BY <1>0, GoesStep
<1>2. now' \in Nat /\ now <= now'
  BY <1>0, IssuedRange
<1>3. ASSUME NEW s \in Threads, s # t PROVE ThreadFacts(s)'
  <2>1. ThreadFacts(s)
    BY <1>0 DEF ThreadInv
  <2>2. CASE pc[s] = "idle"
    BY <1>1, <1>3, <2>2, IdleHolds
  <2>3. CASE Remembers(s)
    BY <1>0, <1>1, <1>2, <1>3, <2>1, <2>3, ThreadStays
  <2> QED
    BY <1>3, <2>2, <2>3
<1>4. ThreadInv'
  BY <1>3 DEF ThreadInv
<1>5. KnownInv'
  BY <1>0, <1>1, KnownStays
<1> QED
  BY <1>4, <1>5, WorldStays

\* A thread that works goes on alone if it was alone.
LEMMA LoneStays ==
  ASSUME TypeOK, LoneInv, NEW t \in Threads, pc[t] # "idle", ~overlapped' => ~overlapped,
         \A s \in Threads : s # t => pc'[s] = pc[s]
  PROVE  LoneInv'
  BY DEF LoneInv

\* Nothing holds no certificate.
LEMMA NothingIsABundle ==
  ASSUME TypeOK
  PROVE  Nothing \in Bundles /\ \A f \in Files : Nothing[f] \in 0..Len(issued)
  BY IssuedRange DEF Nothing, Bundles, Contents

-----------------------------------------------------------------------------
(* The invariant holds initially, and every step preserves it. *)

LEMMA InitInv == Init => IInv
<1> SUFFICES ASSUME Init PROVE IInv
  OBVIOUS
<1>1. TypeOK
  <2>1. <<>> \in Seq([authority : 1..MaxIssued, born : 0..MaxTime, host : Hosts])
    BY EmptySeq
  <2>2. <<>> \in Seq(Files \cup {"mark", "unmark"}) /\ Len(<<>>) = 0
    BY EmptySeq
  <2>3. Nothing \in Bundles
    BY CacheBounds DEF Nothing, Bundles, Contents
  <2>4. NoHandshake \in [step : {"idle", "key", "ready", "refused"}, cert : Contents, key : Contents]
    BY CacheBounds DEF NoHandshake, Contents
  <2>5. 0 \in 0..MaxTime /\ 0 <= MaxIssued /\ 0 \in 0..Failures /\ 0 \in 0..Restores
    BY CacheBounds
  <2>6. /\ issued = <<>> /\ now = 0 /\ failures = 0 /\ crashes = 0 /\ acceptor = NoHandshake
        /\ disk = Nothing /\ memory = Nothing /\ marker = FALSE /\ process = "down"
        /\ host \in Hosts
    BY DEF Init
  <2>7. /\ pc \in [Threads -> {"idle", "look", "load", "issuer", "write", "swap"}]
        /\ bundle \in [Threads -> Bundles]
        /\ todo \in [Threads -> Seq(Files \cup {"mark", "unmark"})]
    BY <2>2, <2>3 DEF Init
  <2>8. marker \in BOOLEAN /\ doubt \subseteq Threads /\ replaced \in BOOLEAN
        /\ overlapped \in BOOLEAN
    BY DEF Init
  <2>9. process \in {"down", "starting", "running"}
    BY <2>6
  <2> QED
    BY <2>1, <2>2, <2>3, <2>4, <2>5, <2>6, <2>7, <2>8, <2>9 DEF TypeOK
<1>2. KnownInv
  BY DEF Init, KnownInv, Nothing
<1>3. ProcessInv /\ LoneInv /\ MarkerInv /\ RunInv
  BY DEF Init, ProcessInv, LoneInv, MarkerInv, RunInv, Threads
<1>4. ThreadInv
  BY DEF Init, ThreadInv, ThreadFacts, AuthorityInv, WriteInv, AloneInv, HeldInv, Transfers
<1> QED
  BY <1>1, <1>2, <1>3, <1>4 DEF IInv

\* A launch or a refresh starts with the thread's look at the cache.
LEMMA StartPreserves ==
  ASSUME IInv, NEW t \in Threads, (Launch /\ t = "start") \/ Refresh(t)
  PROVE  IInv'
<1>0. TypeOK /\ KnownInv /\ ProcessInv /\ LoneInv /\ RunInv
  BY DEF IInv
<1>1. /\ Goes(t, "look", Nothing, <<>>)
      /\ UNCHANGED <<now, crashes, issued, disk, marker, memory, acceptor, failures>>
      /\ host' \in Hosts
  BY <1>0 DEF Launch, Refresh, worldVars, cacheVars, TypeOK
<1>2. \/ /\ process = "down" /\ process' = "starting" /\ t = "start"
         /\ doubt' = {} /\ replaced' = FALSE /\ overlapped' = overlapped
      \/ /\ process = "running" /\ process' = "running" /\ t \in Refreshers
         /\ doubt' = doubt \ {t} /\ replaced' = replaced
         /\ overlapped' = (overlapped \/ \E s \in Threads : pc[s] # "idle")
  BY DEF Launch, Refresh
<1>3. "look" \in Steps /\ Nothing \in Bundles /\ <<>> \in Seq(Operations)
      /\ \A f \in Files : Nothing[f] \in 0..Len(issued)
  BY <1>0, NothingIsABundle, NothingLeft DEF Steps
<1>4. /\ pc' \in [Threads -> Steps] /\ bundle' \in [Threads -> Bundles]
      /\ todo' \in [Threads -> Seq(Operations)] /\ pc'[t] = "look"
      /\ \A s \in Threads : s # t => pc'[s] = pc[s]
  BY <1>0, <1>1, <1>3, GoesStep
<1>5. ThreadFacts(t)'
  BY <1>4, IdleHolds
<1>6. \A s \in Threads : s # t => pc[s] = "idle" \/ Remembers(s)
  <2>1. CASE process = "down"
    BY <1>0, <1>2, <2>1 DEF ProcessInv, Threads
  <2>2. CASE process = "running"
    BY <1>2, <2>2 DEF Remembers
  <2> QED
    BY <1>2, <2>1, <2>2
<1>7. ~overlapped' => ~overlapped
  BY <1>2
<1>8. KnownInv' /\ ThreadInv' /\ MarkerInv'
  BY <1>1, <1>3, <1>5, <1>6, <1>7, GoesPreserves
<1>9. TypeOK'
  <2>1. doubt' \subseteq Threads /\ replaced' \in BOOLEAN /\ overlapped' \in BOOLEAN
    BY <1>0, <1>2 DEF TypeOK
  <2> QED
    BY <1>0, <1>1, <1>2, <1>4, <2>1 DEF TypeOK, Steps, Operations
<1>10. ProcessInv'
  BY <1>0, <1>1, <1>2, <1>4, StartIsNoRefresher DEF ProcessInv, Threads
<1>11. LoneInv'
  <2>1. ~overlapped' => \A s \in Threads : s # t => pc[s] = "idle"
    <3>1. CASE process = "down"
      BY <1>0, <1>2, <3>1 DEF ProcessInv, Threads
    <3>2. CASE process = "running"
      BY <1>2, <3>2
    <3> QED
      BY <1>2, <3>1, <3>2
  <2> QED
    BY <1>4, <2>1 DEF LoneInv
<1>12. RunInv'
  <2>1. CASE process' # "running"
    BY <2>1 DEF RunInv
  <2>2. CASE process = "running" /\ process' = "running"
    BY <1>1, <1>2, <2>2, WorldStays
  <2> QED
    BY <1>2, <2>1, <2>2
<1> QED
  BY <1>8, <1>9, <1>10, <1>11, <1>12 DEF IInv

\* A step of a thread that changes neither files, certificates nor the process.
LEMMA ReadingPreserves ==
  ASSUME IInv, NEW t \in Threads, pc[t] # "idle", NEW step \in Steps, NEW b \in Bundles,
         NEW operations \in Seq(Operations), Goes(t, step, b, operations),
         UNCHANGED <<process, issued, cacheVars, memory, history>>, ThreadUnchanged,
         failures' \in 0..Failures,
         \A f \in Files : b[f] \in 0..Len(issued),
         ThreadFacts(t)'
  PROVE  IInv'
<1>0. TypeOK /\ KnownInv /\ ProcessInv /\ LoneInv /\ RunInv
  BY DEF IInv
<1>1. UNCHANGED <<process, host, now, crashes, issued, disk, marker, memory, acceptor,
                  doubt, replaced, overlapped>>
  BY DEF ThreadUnchanged, worldVars, cacheVars, history
<1>2. /\ pc' \in [Threads -> Steps] /\ bundle' \in [Threads -> Bundles]
      /\ todo' \in [Threads -> Seq(Operations)]
      /\ \A s \in Threads : s # t => pc'[s] = pc[s]
  BY <1>0, GoesStep
<1>3. \A s \in Threads : Remembers(s)
  BY <1>1 DEF Remembers
<1>4. KnownInv' /\ ThreadInv' /\ MarkerInv' /\ RunInv'
  BY <1>1, <1>3, GoesPreserves, WorldStays
<1>5. TypeOK'
  BY <1>0, <1>1, <1>2 DEF TypeOK, Steps, Operations
<1>6. ProcessInv'
  BY <1>0, <1>1, <1>2 DEF ProcessInv, Threads
<1>7. LoneInv'
  BY <1>0, <1>1, <1>2, LoneStays
<1> QED
  BY <1>4, <1>5, <1>6, <1>7 DEF IInv

\* The cache, or only the issuer, is read from its first file on.
LEMMA RestartPreserves ==
  ASSUME IInv, NEW t \in Threads, pc[t] # "idle", NEW step \in {"load", "issuer"},
         NEW order \in {LoadOrder, IssuerOrder}, step = "load" => order = LoadOrder,
         Goes(t, step, Nothing, order),
         UNCHANGED <<process, issued, cacheVars, memory, history>>, ThreadUnchanged,
         failures' \in 0..Failures
  PROVE  IInv'
<1>0. TypeOK
  BY DEF IInv
<1>1. /\ order \in Seq(Operations) /\ step \in Steps /\ Nothing \in Bundles
      /\ \A f \in Files : Nothing[f] \in 0..Len(issued)
      /\ AuthorityFiles \subseteq Left(order) /\ "caCert" \in Left(order)
      /\ step = "load" => Files \subseteq Left(order)
  BY <1>0, OrdersCover, NothingIsABundle, FileNames DEF Steps
<1>2. pc'[t] = step /\ todo'[t] = order
  BY <1>0, <1>1, GoesStep
<1>3. AuthorityInv(t)' /\ WriteInv(t)' /\ AloneInv(t)' /\ HeldInv(t)'
  BY <1>1, <1>2 DEF AuthorityInv, WriteInv, AloneInv, HeldInv
<1>4. ThreadFacts(t)'
  BY <1>3 DEF ThreadFacts
<1> QED
  BY <1>1, <1>4, ReadingPreserves

\* The cache is looked up.
LEMMA LooksPreserves ==
  ASSUME IInv, NEW t \in Threads, Looks(t)
  PROVE  IInv'
<1>0. TypeOK /\ pc[t] = "look" /\ failures \in 0..Failures
  BY DEF IInv, Looks, TypeOK
<1>1. PICK step \in {"load", "issuer"}, order \in {LoadOrder, IssuerOrder} :
        /\ Goes(t, step, Nothing, order)
        /\ step = "load" => order = LoadOrder
        /\ UNCHANGED <<process, issued, cacheVars, memory, failures, history>>
        /\ ThreadUnchanged
  BY DEF Looks
<1>2. failures' \in 0..Failures /\ pc[t] # "idle"
  BY <1>0, <1>1
<1> QED
  BY <1>1, <1>2, RestartPreserves

\* One file is read.
LEMMA ReadsPreserves ==
  ASSUME IInv, NEW t \in Threads, Reads(t)
  PROVE  IInv'
<1> DEFINE file == Head(todo[t])
           b == [bundle[t] EXCEPT ![file] = disk[file]]
<1>0. /\ TypeOK /\ KnownInv /\ AuthorityInv(t) /\ AloneInv(t) /\ HeldInv(t)
      /\ pc[t] \in {"load", "issuer"} /\ todo[t] # <<>>
      /\ Goes(t, pc[t], b, Tail(todo[t]))
      /\ UNCHANGED <<process, issued, cacheVars, memory, failures, history>>
      /\ ThreadUnchanged
  BY DEF IInv, ThreadInv, ThreadFacts, Reads
<1>1. /\ todo[t] \in Seq(Operations) /\ bundle[t] \in Bundles /\ disk \in Bundles
      /\ pc[t] \in Steps /\ failures' \in 0..Failures
  BY <1>0 DEF TypeOK, Operations, Steps
<1>2. /\ Tail(todo[t]) \in Seq(Operations) /\ Left(todo[t]) = {file} \cup Left(Tail(todo[t]))
  BY <1>0, <1>1, LeftOfTail
<1>3. /\ b \in Bundles
      /\ \A f \in Files : b[f] = IF f = file THEN disk[f] ELSE bundle[t][f]
  BY <1>1 DEF Bundles
<1> HIDE DEF b, file
<1>4. \A f \in Files : b[f] \in 0..Len(issued)
  BY <1>0, <1>3 DEF KnownInv
<1>5. pc'[t] = pc[t] /\ bundle'[t] = b /\ todo'[t] = Tail(todo[t])
  BY <1>0 DEF Goes, TypeOK
<1>6. UNCHANGED <<disk, marker, process, doubt, replaced, overlapped>>
  BY <1>0 DEF cacheVars, history
<1>7. AuthorityInv(t)'
  BY <1>0, <1>2, <1>3, <1>5, <1>6, FileNames DEF AuthorityInv
<1>8. WriteInv(t)' /\ AloneInv(t)'
  BY <1>0, <1>2, <1>3, <1>5, <1>6 DEF WriteInv, AloneInv
<1>9. HeldInv(t)'
  BY <1>0, <1>2, <1>3, <1>5, <1>6, FileNames DEF HeldInv
<1>10. ThreadFacts(t)'
  BY <1>7, <1>8, <1>9 DEF ThreadFacts
<1> QED
  BY <1>0, <1>1, <1>2, <1>3, <1>4, <1>10, ReadingPreserves

\* The cache is kept as it is.
LEMMA KeepingPreserves ==
  ASSUME IInv, NEW t \in Threads, pc[t] = "load", todo[t] = <<>>, Keeps(bundle[t]),
         Goes(t, "swap", bundle[t], <<>>),
         UNCHANGED <<process, issued, cacheVars, memory, failures, history>>, ThreadUnchanged
  PROVE  IInv'
<1>0. /\ TypeOK /\ AuthorityInv(t) /\ AloneInv(t) /\ HeldInv(t)
      /\ \A f \in Files : bundle[t][f] \in 0..Len(issued)
  BY DEF IInv, ThreadInv, ThreadFacts, KnownInv
<1>1. /\ bundle[t] \in Bundles /\ <<>> \in Seq(Operations) /\ "swap" \in Steps
      /\ Left(<<>>) = {} /\ failures' \in 0..Failures
  BY <1>0, NothingLeft DEF TypeOK, Steps
<1>2. pc'[t] = "swap" /\ bundle'[t] = bundle[t] /\ todo'[t] = <<>>
  BY <1>0 DEF Goes, TypeOK
<1>3. UNCHANGED <<disk, marker, issued, process, doubt, replaced, overlapped>>
  BY DEF cacheVars, history
<1>4. AuthorityInv(t)' /\ AloneInv(t)'
  BY <1>0, <1>2, <1>3 DEF AuthorityInv, AloneInv, Transfers
<1>5. Sound(bundle[t])
  BY <1>0, KeptIsSound
<1>6. WriteInv(t)'
  BY <1>2, <1>3, <1>5 DEF WriteInv, Sound
<1>7. HeldInv(t)'
  BY <1>0, <1>1, <1>2, <1>3 DEF HeldInv
<1>8. ThreadFacts(t)'
  BY <1>4, <1>6, <1>7 DEF ThreadFacts
<1> QED
  BY <1>0, <1>1, <1>8, ReadingPreserves

\* A new set of certificates changes none that was issued before.
LEMMA IssueAppends ==
  ASSUME TypeOK, Len(issued) < MaxIssued, NEW authority \in 1..MaxIssued, Issue(authority)
  PROVE  /\ issued' \in Seq([authority : 1..MaxIssued, born : 0..MaxTime, host : Hosts])
         /\ Len(issued') = Len(issued) + 1 /\ DOMAIN issued' = 1..(Len(issued) + 1)
         /\ \A i \in 1..Len(issued) : issued'[i] = issued[i]
         /\ issued'[Len(issued) + 1].authority = authority
<1> DEFINE set == [authority |-> authority, born |-> now, host |-> host]
<1>1. set \in [authority : 1..MaxIssued, born : 0..MaxTime, host : Hosts]
  BY DEF TypeOK
<1>2. issued' = Append(issued, set) /\ set.authority = authority
  BY DEF Issue
<1> HIDE DEF set
<1>3. issued \in Seq([authority : 1..MaxIssued, born : 0..MaxTime, host : Hosts])
  BY DEF TypeOK
<1>4. /\ issued' \in Seq([authority : 1..MaxIssued, born : 0..MaxTime, host : Hosts])
      /\ Len(issued') = Len(issued) + 1
      /\ \A i \in 1..Len(issued) : issued'[i] = issued[i]
      /\ issued'[Len(issued) + 1] = set
  BY <1>1, <1>2, <1>3, AppendProperties
<1> QED
  BY <1>2, <1>4, LenProperties

\* What is sound or current stays so when certificates are issued.
LEMMA IssueKeeps ==
  ASSUME TypeOK, Len(issued') = Len(issued) + 1, DOMAIN issued' = 1..(Len(issued) + 1),
         \A i \in 1..Len(issued) : issued'[i] = issued[i],
         NEW b \in Bundles, \A f \in Files : b[f] \in 0..Len(issued), now' = now
  PROVE  /\ Sound(b) => /\ {b.caCert, b.serverCert, b.clientCert} \subseteq DOMAIN issued'
                        /\ b.caKey = b.caCert /\ b.caDer = b.caCert
                        /\ b.serverKey = b.serverCert /\ b.serverIdentity = b.serverCert
                        /\ b.clientKey = b.clientCert /\ b.clientDer = b.clientCert
                        /\ issued'[b.serverCert].authority = b.caCert
                        /\ issued'[b.clientCert].authority = b.caCert
         /\ IssuerIsCurrent(b) <=> /\ IssuerMatches(b)
                                   /\ b.caCert # 0
                                   /\ now' < issued'[b.caCert].born + AuthorityLife
<1>1. DOMAIN issued = 1..Len(issued) /\ Len(issued) \in Nat
  BY IssuedRange
<1>2. b.caCert \in 0..Len(issued)
  BY FileNames
<1>3. b.caCert # 0 => issued'[b.caCert] = issued[b.caCert]
  BY <1>1, <1>2
<1>4. ASSUME Sound(b)
      PROVE  /\ {b.caCert, b.serverCert, b.clientCert} \subseteq DOMAIN issued'
             /\ issued'[b.serverCert].authority = b.caCert
             /\ issued'[b.clientCert].authority = b.caCert
  BY <1>1, <1>4 DEF Sound
<1>5. Sound(b) => /\ b.caKey = b.caCert /\ b.caDer = b.caCert
                  /\ b.serverKey = b.serverCert /\ b.serverIdentity = b.serverCert
                  /\ b.clientKey = b.clientCert /\ b.clientDer = b.clientCert
  BY DEF Sound
<1>6. IssuerIsCurrent(b) <=> /\ IssuerMatches(b) /\ b.caCert # 0
                             /\ now' < issued'[b.caCert].born + AuthorityLife
  BY <1>3 DEF IssuerIsCurrent, IsLive
<1> QED
  BY <1>4, <1>5, <1>6

\* New certificates are issued for thread t, which goes on to write them.
LEMMA IssuingPreserves ==
  ASSUME IInv, NEW t \in Threads, pc[t] \in {"load", "issuer"},
         Len(issued) < MaxIssued,
         NEW authority \in 1..MaxIssued, NEW b, NEW operations \in {WriteAll, WriteLeaves},
         Issue(authority), Goes(t, "write", b, operations),
         UNCHANGED <<process, cacheVars, memory, replaced, overlapped>>, ThreadUnchanged,
         failures' \in 0..Failures, doubt' \in {doubt, doubt \cup {t}},
         b \in Bundles, \A f \in Files : b[f] \in 0..(Len(issued) + 1),
         \A f \in LeafFiles : b[f] = Len(issued) + 1,
         b.caKey = b.caCert, b.caDer = b.caCert, b.caCert = authority,
         authority \in 1..(Len(issued) + 1),
         IssuerIsCurrent(disk) /\ t \notin doubt' => SameAuthority(b, disk),
         operations = WriteLeaves =>
           pc[t] = "load" /\ todo[t] = <<>> /\ SameAuthority(b, bundle[t]),
         operations = WriteLeaves \/ operations = WriteAll
  PROVE  IInv'
<1>0. /\ TypeOK /\ KnownInv /\ ProcessInv /\ LoneInv /\ ThreadInv /\ MarkerInv /\ RunInv
      /\ AuthorityInv(t) /\ AloneInv(t) /\ HeldInv(t)
  BY DEF IInv, ThreadInv, ThreadFacts
<1>1. /\ issued' \in Seq([authority : 1..MaxIssued, born : 0..MaxTime, host : Hosts])
      /\ Len(issued') = Len(issued) + 1 /\ DOMAIN issued' = 1..(Len(issued) + 1)
      /\ \A i \in 1..Len(issued) : issued'[i] = issued[i]
      /\ issued'[Len(issued) + 1].authority = authority
  BY <1>0, IssueAppends
<1>2. UNCHANGED <<process, host, now, crashes, disk, marker, memory, acceptor,
                  replaced, overlapped>>
  BY DEF ThreadUnchanged, worldVars, cacheVars
<1>3. /\ operations \in Seq(Operations) /\ operations # <<>> /\ Head(operations) = "unmark"
      /\ \A i \in DOMAIN operations : operations[i] = "mark" => i = Len(operations)
      /\ LeafFiles \subseteq Left(operations)
      /\ operations = WriteAll => Files \subseteq Left(operations)
  BY OrdersCover, FileNames
<1>4. /\ pc' \in [Threads -> Steps] /\ bundle' \in [Threads -> Bundles]
      /\ todo' \in [Threads -> Seq(Operations)]
      /\ pc'[t] = "write" /\ bundle'[t] = b /\ todo'[t] = operations
      /\ \A s \in Threads : s # t =>
           pc'[s] = pc[s] /\ bundle'[s] = bundle[s] /\ todo'[s] = todo[s]
  <2>1. "write" \in Steps
    BY DEF Steps
  <2> QED
    BY <1>0, <1>3, <2>1, GoesStep
<1>5. Len(issued) \in Nat /\ DOMAIN issued = 1..Len(issued)
  BY <1>0, IssuedRange
<1>6. TypeOK'
  <2>1. Len(issued') <= MaxIssued
    BY <1>1, <1>5, IssuedRange, <1>0
  <2>2. doubt' \subseteq Threads
    BY <1>0 DEF TypeOK
  <2> QED
    BY <1>0, <1>1, <1>2, <1>4, <2>1, <2>2 DEF TypeOK, Steps, Operations
<1>7. KnownInv'
  <2>1. \A f \in Files : disk'[f] \in 0..Len(issued')
    BY <1>0, <1>1, <1>2, <1>5 DEF KnownInv
  <2>2. ASSUME NEW s \in Threads, NEW f \in Files PROVE bundle'[s][f] \in 0..Len(issued')
    <3>1. CASE s = t
      BY <1>1, <1>4, <3>1
    <3>2. CASE s # t
      <4>1. bundle'[s][f] \in 0..Len(issued)
        BY <1>0, <1>4, <3>2 DEF KnownInv
      <4> QED
        BY <1>1, <1>5, <4>1
    <3> QED
      BY <3>1, <3>2
  <2> QED
    BY <2>1, <2>2 DEF KnownInv
<1>8. ProcessInv'
  BY <1>0, <1>2, <1>4 DEF ProcessInv, Threads
<1>9. LoneInv'
  BY <1>0, <1>2, <1>4, LoneStays
<1>10. disk \in Bundles /\ \A f \in Files : disk[f] \in 0..Len(issued)
  BY <1>0 DEF TypeOK, KnownInv
<1>11. (IssuerIsCurrent(disk)' <=> IssuerIsCurrent(disk)) /\ (Sound(disk) => Sound(disk)')
  BY <1>0, <1>1, <1>2, <1>10, IssueKeeps DEF IssuerIsCurrent, IssuerMatches, IsLive, Sound
<1>12. Sound(b)' /\ b' = b
  <2>1. /\ b.serverCert = Len(issued) + 1 /\ b.clientCert = Len(issued) + 1
        /\ b.serverKey = b.serverCert /\ b.serverIdentity = b.serverCert
        /\ b.clientKey = b.clientCert /\ b.clientDer = b.clientCert
    BY FileNames
  <2>2. b.caCert \in 1..(Len(issued) + 1) /\ Len(issued) + 1 \in 1..(Len(issued) + 1)
    BY <1>5
  <2>3. b' = b
    OBVIOUS
  <2> QED
    BY <1>1, <2>1, <2>2, <2>3 DEF Sound
<1>13. ThreadFacts(t)'
  <2>1. ASSUME operations = WriteLeaves, NEW f \in AuthorityFiles, t \notin doubt'
        PROVE  b[f] = disk[f]
    BY <1>0, <2>1, NothingLeft DEF AuthorityInv, SameAuthority, Transfers
  <2>2. ASSUME NEW f \in AuthorityFiles, t \notin doubt'
        PROVE  f \in Left(operations) \/ b[f] = disk[f]
    BY <1>3, <2>1, <2>2, FileNames
  <2>3. AuthorityInv(t)'
    BY <1>2, <1>4, <2>2 DEF AuthorityInv
  <2>4. ASSUME ~overlapped \/ t = "start", NEW f \in Files
        PROVE  f \in Left(operations) \/ b[f] = disk[f]
    <3>1. CASE f \in LeafFiles \/ operations = WriteAll
      BY <1>3, <2>4, <3>1
    <3>2. CASE f \in AuthorityFiles /\ operations = WriteLeaves
      <4>1. bundle[t][f] = disk[f]
        BY <1>0, <2>4, <3>2, NothingLeft DEF AloneInv
      <4> QED
        BY <3>2, <4>1 DEF SameAuthority
    <3> QED
      BY <2>4, <3>1, <3>2, FileNames
  <2>5. AloneInv(t)'
    BY <1>2, <1>3, <1>4, <2>4 DEF AloneInv
  <2>6. IssuerIsCurrent(disk)' /\ t \notin doubt' => SameAuthority(b, disk)
    BY <1>11
  <2>7. Sound(bundle[t])'
    BY <1>4, <1>12 DEF Sound
  <2>8. WriteInv(t)'
    BY <1>2, <1>3, <1>4, <2>6, <2>7 DEF WriteInv, SameAuthority
  <2>9. HeldInv(t)'
    <3>1. CASE operations = WriteAll
      BY <1>4, <3>1 DEF HeldInv
    <3>2. CASE operations = WriteLeaves
      <4>1. b.caCert = bundle[t].caCert
        BY <3>2, FileNames DEF SameAuthority
      <4>2. ~replaced /\ process = "running" => bundle[t].caCert = disk.caCert
        BY <1>0, <3>2, NothingLeft DEF HeldInv
      <4> QED
        BY <1>2, <1>4, <4>1, <4>2 DEF HeldInv
    <3> QED
      BY <3>1, <3>2
  <2> QED
    BY <2>3, <2>5, <2>8, <2>9 DEF ThreadFacts
<1>14. ASSUME NEW s \in Threads, s # t PROVE ThreadFacts(s)'
  <2>1. AuthorityInv(s) /\ WriteInv(s) /\ AloneInv(s) /\ HeldInv(s)
    BY <1>0 DEF ThreadInv, ThreadFacts
  <2>2. bundle[s] \in Bundles /\ \A f \in Files : bundle[s][f] \in 0..Len(issued)
    BY <1>0 DEF TypeOK, KnownInv
  <2>3. pc'[s] = pc[s] /\ bundle'[s] = bundle[s] /\ todo'[s] = todo[s]
    BY <1>4, <1>14
  <2>4. Sound(bundle[s]) => Sound(bundle[s])'
    <3>1. SUFFICES ASSUME Sound(bundle[s]) PROVE Sound(bundle[s])'
      OBVIOUS
    <3>2. /\ bundle[s].caCert \in 1..Len(issued) /\ bundle[s].serverCert \in 1..Len(issued)
          /\ bundle[s].clientCert \in 1..Len(issued)
      BY <1>5, <3>1 DEF Sound
    <3>3. 1..Len(issued) \subseteq DOMAIN issued'
      BY <1>1, <1>5
    <3>4. /\ issued'[bundle[s].serverCert] = issued[bundle[s].serverCert]
          /\ issued'[bundle[s].clientCert] = issued[bundle[s].clientCert]
      BY <1>1, <3>2
    <3> QED
      BY <2>3, <3>1, <3>2, <3>3, <3>4 DEF Sound
  <2>5. s \in doubt' <=> s \in doubt
    BY <1>14
  <2>6. AuthorityInv(s)'
    BY <1>2, <2>1, <2>3, <2>5 DEF AuthorityInv
  <2>7. AloneInv(s)'
    BY <1>2, <2>1, <2>3 DEF AloneInv
  <2>8. HeldInv(s)'
    BY <1>2, <2>1, <2>3 DEF HeldInv
  <2>9. WriteInv(s)'
    BY <1>2, <1>11, <2>1, <2>3, <2>4, <2>5 DEF WriteInv, SameAuthority
  <2> QED
    BY <2>6, <2>7, <2>8, <2>9 DEF ThreadFacts
<1>15. ThreadInv'
  BY <1>13, <1>14 DEF ThreadInv
<1>16. MarkerInv'
  BY <1>0, <1>2, <1>11 DEF MarkerInv
<1>17. RunInv'
  <2>1. SUFFICES ASSUME ~replaced, process = "running" PROVE RunInv'
    BY <1>2 DEF RunInv
  <2>2. /\ disk.serverCert # 0 /\ issued[disk.serverCert].authority = disk.caCert
        /\ Sound(memory) /\ memory.caCert = disk.caCert
        /\ acceptor.step # "idle" =>
             /\ acceptor.cert \in DOMAIN issued
             /\ issued[acceptor.cert].authority = disk.caCert
        /\ acceptor.step = "ready" => acceptor.key = acceptor.cert
    BY <1>0, <2>1 DEF RunInv
  <2>3. disk.serverCert \in 1..Len(issued)
    BY <1>5, <1>10, <2>2, FileNames
  <2>4. Sound(memory)'
    <3>1. /\ memory.caCert \in 1..Len(issued) /\ memory.serverCert \in 1..Len(issued)
          /\ memory.clientCert \in 1..Len(issued)
      BY <1>5, <2>2 DEF Sound
    <3>2. 1..Len(issued) \subseteq DOMAIN issued'
      BY <1>1, <1>5
    <3>3. /\ issued'[memory.serverCert] = issued[memory.serverCert]
          /\ issued'[memory.clientCert] = issued[memory.clientCert]
      BY <1>1, <3>1
    <3> QED
      BY <1>2, <2>2, <3>1, <3>2, <3>3 DEF Sound
  <2>5. acceptor.step # "idle" =>
          acceptor.cert \in DOMAIN issued' /\ issued'[acceptor.cert] = issued[acceptor.cert]
    BY <1>1, <1>5, <2>2
  <2>6. issued'[disk.serverCert].authority = disk.caCert
    BY <1>1, <2>2, <2>3
  <2> QED
    BY <1>2, <2>2, <2>4, <2>5, <2>6 DEF RunInv
<1> QED
  BY <1>6, <1>7, <1>8, <1>9, <1>15, <1>16, <1>17 DEF IInv

\* A new authority and its leaves are made by a thread that could not read the
\* one on disk, or knows that it is not current.
LEMMA GeneratingPreserves ==
  ASSUME IInv, NEW t \in Threads, pc[t] \in {"load", "issuer"},
         Len(issued) < MaxIssued, Generates(t),
         UNCHANGED <<process, cacheVars, memory, replaced, overlapped>>, ThreadUnchanged,
         failures' \in 0..Failures, doubt' \in {doubt, doubt \cup {t}},
         IssuerIsCurrent(disk) => t \in doubt'
  PROVE  IInv'
<1> DEFINE id == Len(issued) + 1
           b == Generated(id)
<1>0. TypeOK
  BY DEF IInv
<1>1. Issue(id) /\ Goes(t, "write", b, WriteAll)
  BY DEF Generates
<1>2. id \in 1..(Len(issued) + 1) /\ id \in 1..MaxIssued
  BY <1>0, IssuedRange
<1>3. \A f \in Files : b[f] = id
  BY DEF Generated
<1>4. b \in Bundles
  <2>1. id \in Contents
    BY <1>2 DEF Contents
  <2> QED
    BY <2>1 DEF Bundles, Generated
<1> HIDE DEF b
<1>5. /\ b.caKey = b.caCert /\ b.caDer = b.caCert /\ b.caCert = id
      /\ \A f \in LeafFiles : b[f] = id
      /\ \A f \in Files : b[f] \in 0..(Len(issued) + 1)
  BY <1>2, <1>3, FileNames
<1>6. PICK authority \in 1..MaxIssued : authority = id /\ Issue(authority)
  BY <1>1, <1>2 DEF Issue
<1>7. WriteAll # WriteLeaves
  <2>1. WriteAll[2] = "caCert" /\ WriteLeaves[2] = "serverCert"
    BY DEF WriteAll, WriteLeaves, Committed, LoadOrder
  <2> QED
    BY <2>1
<1> QED
  BY <1>0, <1>1, <1>2, <1>4, <1>5, <1>6, <1>7, IssuingPreserves

\* The cache, or the issuer, has been read and is kept, renewed or replaced.
LEMMA EnsuresPreserves ==
  ASSUME IInv, NEW t \in Threads, Ensures(t)
  PROVE  IInv'
<1> DEFINE id == Len(issued) + 1
<1>0. /\ TypeOK /\ KnownInv /\ AuthorityInv(t)
      /\ pc[t] \in {"load", "issuer"} /\ todo[t] = <<>>
      /\ UNCHANGED <<process, cacheVars, memory, failures, history>> /\ ThreadUnchanged
  BY DEF IInv, ThreadInv, ThreadFacts, Ensures
<1>1. /\ bundle[t] \in Bundles /\ \A f \in Files : bundle[t][f] \in 0..Len(issued)
      /\ disk \in Bundles /\ failures' \in 0..Failures
  BY <1>0 DEF TypeOK, KnownInv
<1>2. t \notin doubt => SameAuthority(bundle[t], disk)
  BY <1>0, NothingLeft DEF AuthorityInv, SameAuthority, Transfers
<1>3. /\ Len(issued) \in Nat /\ MaxIssued \in Nat
      /\ UNCHANGED <<doubt, replaced, overlapped>>
  BY <1>0, IssuedRange DEF history
<1>4. CASE pc[t] = "load" /\ Keeps(bundle[t]) /\ Goes(t, "swap", bundle[t], <<>>)
           /\ UNCHANGED issued
  BY <1>0, <1>4, KeepingPreserves
<1>5. CASE /\ Len(issued) < MaxIssued /\ IssuerIsCurrent(bundle[t])
           /\ \/ pc[t] = "issuer" /\ Renews(t, WriteAll)
              \/ pc[t] = "load" /\ Renews(t, WriteLeaves)
  <2> DEFINE b == Renewed(bundle[t], id)
  <2>1. PICK operations \in {WriteAll, WriteLeaves} :
          /\ Issue(bundle[t].caCert) /\ Goes(t, "write", b, operations)
          /\ operations = WriteLeaves => pc[t] = "load"
    <3>1. CASE pc[t] = "issuer" /\ Renews(t, WriteAll)
      <4>1. WriteAll # WriteLeaves
        <5>1. WriteAll[2] = "caCert" /\ WriteLeaves[2] = "serverCert"
          BY DEF WriteAll, WriteLeaves, Committed, LoadOrder
        <5> QED
          BY <5>1
      <4> QED
        BY <3>1, <4>1 DEF Renews
    <3>2. CASE pc[t] = "load" /\ Renews(t, WriteLeaves)
      BY <3>2 DEF Renews
    <3> QED
      BY <1>5, <3>1, <3>2
  <2>2. bundle[t].caCert \in 0..Len(issued) /\ bundle[t].caCert # 0
        /\ bundle[t].caKey = bundle[t].caCert /\ bundle[t].caDer = bundle[t].caCert
    BY <1>1, <1>5, FileNames DEF IssuerIsCurrent, IssuerMatches
  <2>3. bundle[t].caCert \in 1..(Len(issued) + 1) /\ bundle[t].caCert \in 1..MaxIssued
    BY <1>3, <1>5, <2>2
  <2>4. \A f \in Files : b[f] = IF f \in LeafFiles THEN id ELSE bundle[t][f]
    BY DEF Renewed
  <2>5. b \in Bundles
    <3>1. id \in Contents
      BY <1>3, <1>5 DEF Contents
    <3> QED
      BY <1>1, <3>1 DEF Bundles, Renewed
  <2> HIDE DEF b
  <2>6. \A f \in Files : b[f] \in 0..(Len(issued) + 1)
    BY <1>1, <1>3, <2>4
  <2>7. SameAuthority(b, bundle[t])
    BY <2>4, FileNames DEF SameAuthority
  <2>8. b.caKey = b.caCert /\ b.caDer = b.caCert /\ b.caCert = bundle[t].caCert
    BY <2>2, <2>7, FileNames DEF SameAuthority
  <2>9. \A f \in LeafFiles : b[f] = Len(issued) + 1
    BY <2>4, FileNames
  <2>10. PICK authority \in 1..MaxIssued : authority = bundle[t].caCert /\ Issue(authority)
    BY <2>1, <2>3 DEF Issue
  <2>11. t \notin doubt' => SameAuthority(b, disk)
    BY <1>2, <1>3, <2>7 DEF SameAuthority
  <2> QED
    BY <1>0, <1>1, <1>3, <1>5, <2>1, <2>3, <2>5, <2>6, <2>7, <2>8, <2>9, <2>10, <2>11,
       IssuingPreserves
<1>6. CASE Len(issued) < MaxIssued /\ ~IssuerIsCurrent(bundle[t]) /\ Generates(t)
  <2>1. IssuerIsCurrent(disk) => t \in doubt'
    BY <1>2, <1>3, <1>6, SameAuthorityCurrent
  <2> QED
    BY <1>0, <1>1, <1>3, <1>6, <2>1, GeneratingPreserves
<1> QED
  BY <1>4, <1>5, <1>6 DEF Ensures

\* A file cannot be looked up or read, and the authority is read or made anew.
LEMMA MisreadsPreserves ==
  ASSUME IInv, NEW t \in Threads, Misreads(t)
  PROVE  IInv'
<1>0. TypeOK /\ failures' \in 0..Failures
  BY CacheBounds DEF IInv, Misreads, TypeOK
<1>1. CASE /\ pc[t] \in {"look", "load"}
           /\ Goes(t, "issuer", Nothing, IssuerOrder)
           /\ UNCHANGED <<issued, doubt>>
  <2>1. UNCHANGED <<process, issued, cacheVars, memory, history>> /\ ThreadUnchanged
    BY <1>1 DEF Misreads, history
  <2>2. pc[t] # "idle"
    BY <1>1
  <2> QED
    BY <1>0, <1>1, <2>1, <2>2, RestartPreserves
<1>2. CASE /\ pc[t] = "issuer" /\ Len(issued) < MaxIssued
           /\ Generates(t) /\ doubt' = doubt \cup {t}
  <2>1. /\ UNCHANGED <<process, cacheVars, memory, replaced, overlapped>>
        /\ ThreadUnchanged
    BY DEF Misreads
  <2> QED
    BY <1>0, <1>2, <2>1, GeneratingPreserves
<1> QED
  BY <1>1, <1>2 DEF Misreads

\* The next file, or the marker, is written.
LEMMA WritesPreserves ==
  ASSUME IInv, NEW t \in Threads, Writes(t)
  PROVE  IInv'
<1> DEFINE op == Head(todo[t])
           step == IF Len(todo[t]) = 1 THEN "swap" ELSE "write"
<1>0. /\ TypeOK /\ KnownInv /\ ProcessInv /\ LoneInv /\ ThreadInv /\ MarkerInv /\ RunInv
      /\ AuthorityInv(t) /\ WriteInv(t) /\ AloneInv(t) /\ HeldInv(t)
  BY DEF IInv, ThreadInv, ThreadFacts
<1>1. /\ pc[t] = "write" /\ todo[t] # <<>>
      /\ Goes(t, step, bundle[t], Tail(todo[t]))
      /\ UNCHANGED <<process, host, now, crashes, issued, memory, acceptor, failures, overlapped>>
  BY DEF Writes, ThreadUnchanged, worldVars
<1>2. /\ todo[t] \in Seq(Operations) /\ bundle[t] \in Bundles /\ disk \in Bundles
      /\ marker \in BOOLEAN
  BY <1>0 DEF TypeOK, Operations
<1>3. /\ op \in Operations /\ Tail(todo[t]) \in Seq(Operations)
      /\ Left(todo[t]) = {op} \cup Left(Tail(todo[t]))
      /\ Len(Tail(todo[t])) = Len(todo[t]) - 1 /\ Len(todo[t]) \in Nat
      /\ \A i \in DOMAIN Tail(todo[t]) :
           i + 1 \in DOMAIN todo[t] /\ Tail(todo[t])[i] = todo[t][i + 1]
  BY <1>1, <1>2, LeftOfTail, LenProperties
<1>4. marker' \in BOOLEAN /\ (marker' <=> IF op \in Files THEN marker ELSE op = "mark")
  BY <1>2 DEF Writes
<1>5. disk' \in Bundles /\ \A f \in Files : disk'[f] = IF f = op THEN bundle[t][f] ELSE disk[f]
  BY <1>2 DEF Writes, Bundles
<1>6. /\ pc'[t] = step /\ bundle'[t] = bundle[t] /\ todo'[t] = Tail(todo[t])
      /\ pc' \in [Threads -> Steps] /\ bundle' \in [Threads -> Bundles]
      /\ todo' \in [Threads -> Seq(Operations)]
      /\ \A s \in Threads : s # t =>
           pc'[s] = pc[s] /\ bundle'[s] = bundle[s] /\ todo'[s] = todo[s]
  <2>1. step \in Steps
    BY DEF Steps
  <2>2. /\ pc \in [Threads -> Steps] /\ bundle \in [Threads -> Bundles]
        /\ todo \in [Threads -> Seq(Operations)]
    BY <1>0 DEF TypeOK, Steps, Operations
  <2>3. /\ pc' = [pc EXCEPT ![t] = step] /\ bundle' = [bundle EXCEPT ![t] = bundle[t]]
        /\ todo' = [todo EXCEPT ![t] = Tail(todo[t])]
    BY <1>1 DEF Goes
  <2> HIDE DEF step
  <2> QED
    BY <1>2, <1>3, <2>1, <2>2, <2>3
<1>7. op = "mark" => Tail(todo[t]) = <<>> /\ step = "swap"
  <2>1. 1 \in DOMAIN todo[t] /\ todo[t][1] = op
    BY <1>1, <1>2, EmptySeq, LenProperties, HeadTailProperties
  <2>2. ASSUME op = "mark" PROVE Len(todo[t]) = 1
    BY <1>0, <1>1, <2>1, <2>2 DEF WriteInv
  <2>3. ASSUME op = "mark" PROVE Tail(todo[t]) = <<>>
    BY <1>3, <2>2, <2>3, EmptySeq
  <2> QED
    BY <2>2, <2>3
<1>8. /\ Sound(bundle[t])
      /\ IssuerIsCurrent(disk) /\ t \notin doubt => SameAuthority(bundle[t], disk)
      /\ t \notin doubt => \A f \in AuthorityFiles :
           f = op \/ f \in Left(Tail(todo[t])) \/ bundle[t][f] = disk[f]
  BY <1>0, <1>1, <1>3 DEF WriteInv, AuthorityInv, Transfers
<1>9. ~overlapped \/ t = "start" =>
        /\ \A f \in Files : f = op \/ f \in Left(Tail(todo[t])) \/ bundle[t][f] = disk[f]
        /\ marker => op = "unmark"
  BY <1>0, <1>1, <1>3 DEF AloneInv
<1>10. /\ t \in doubt' <=> t \in doubt
       /\ \/ SameAuthority(disk', disk) /\ doubt' = doubt /\ replaced' = replaced
          \/ /\ doubt' = doubt \cup (Threads \ {t})
             /\ replaced' = (replaced \/ process = "running")
  BY DEF Writes
<1> HIDE DEF op, step
<1>11. IssuerIsCurrent(disk)' /\ t \notin doubt => SameAuthority(bundle[t], disk')
  <2>1. CASE op \in AuthorityFiles
    <3>1. SUFFICES ASSUME IssuerMatches(disk') PROVE SameAuthority(bundle[t], disk')
      BY DEF IssuerIsCurrent, IssuerMatches
    <3>2. disk'.caKey = disk'.caCert /\ disk'.caDer = disk'.caCert
      BY <3>1 DEF IssuerMatches
    <3>3. bundle[t].caKey = bundle[t].caCert /\ bundle[t].caDer = bundle[t].caCert
      BY <1>8 DEF Sound
    <3>4. disk'[op] = bundle[t][op]
      BY <1>5, <2>1, FileNames
    <3> QED
      BY <2>1, <3>2, <3>3, <3>4 DEF SameAuthority, AuthorityFiles
  <2>2. CASE op \notin AuthorityFiles
    <3>1. \A f \in AuthorityFiles : disk'[f] = disk[f]
      BY <1>5, <2>2, FileNames
    <3>2. IssuerIsCurrent(disk)' => IssuerIsCurrent(disk)
      BY <1>1, <3>1, FileNames DEF IssuerIsCurrent, IssuerMatches, IsLive
    <3> QED
      BY <1>8, <3>1, <3>2 DEF SameAuthority
  <2> QED
    BY <2>1, <2>2
<1>12. AuthorityInv(t)'
  BY <1>5, <1>6, <1>8, <1>10, FileNames DEF AuthorityInv
<1>13. WriteInv(t)'
  <2>1. Sound(bundle[t])'
    BY <1>1, <1>6, <1>8 DEF Sound
  <2>2. pc'[t] = "swap" => todo'[t] = <<>>
    <3>1. ASSUME Len(todo[t]) = 1 PROVE Tail(todo[t]) = <<>>
      BY <1>3, <3>1, EmptySeq
    <3> QED
      BY <1>6, <3>1 DEF step
  <2>3. pc'[t] = "write" => todo'[t] # <<>>
    <3>1. ASSUME Tail(todo[t]) = <<>> PROVE Len(todo[t]) = 1
      <4>1. Len(<<>>) = 0
        BY EmptySeq
      <4>2. Len(Tail(todo[t])) = 0
        BY <3>1, <4>1, Zenon
      <4> QED
        BY <1>3, <4>2
    <3> QED
      BY <1>6, <3>1 DEF step
  <2>4. \A i \in DOMAIN Tail(todo[t]) : Tail(todo[t])[i] = "mark" => i = Len(Tail(todo[t]))
    <3>1. SUFFICES ASSUME NEW i \in DOMAIN Tail(todo[t]), Tail(todo[t])[i] = "mark"
                   PROVE  i = Len(Tail(todo[t]))
      OBVIOUS
    <3>2. i + 1 = Len(todo[t])
      BY <1>0, <1>1, <1>3, <3>1 DEF WriteInv
    <3>3. i \in Nat
      BY <1>3, LenProperties
    <3> QED
      BY <1>3, <3>2, <3>3
  <2>5. IssuerIsCurrent(disk)' /\ t \notin doubt' => SameAuthority(bundle[t], disk)'
    BY <1>6, <1>10, <1>11 DEF SameAuthority
  <2>6. \A i \in DOMAIN todo'[t] : todo'[t][i] = "mark" => i = Len(todo'[t])
    BY <1>6, <2>4
  <2> QED
    BY <1>6, <2>1, <2>2, <2>3, <2>5, <2>6 DEF WriteInv
<1>14. AloneInv(t)'
  <2>1. ASSUME ~overlapped \/ t = "start", NEW f \in Files
        PROVE  f \in Left(Tail(todo[t])) \/ bundle[t][f] = disk'[f]
    BY <1>5, <1>9, <2>1
  <2>2. ASSUME ~overlapped \/ t = "start", marker' PROVE op = "mark"
    <3>1. op = "unmark" => op \notin Files
      BY FileNames
    <3> QED
      BY <1>4, <1>9, <2>2, <3>1
  <2>3. ~overlapped \/ t = "start" => ~(pc'[t] = "write" /\ marker')
    BY <1>6, <1>7, <2>2
  <2> QED
    BY <1>1, <1>6, <2>1, <2>3 DEF AloneInv
<1>15. ASSUME ~replaced', process = "running"
       PROVE  /\ ~replaced /\ SameAuthority(disk', disk) /\ disk'.caCert = disk.caCert
              /\ op \notin {"unmark", "caCert"} => bundle[t].caCert = disk.caCert
              /\ op = "caCert" => bundle[t].caCert = disk.caCert
              /\ op = "unmark" /\ bundle[t].caCert # disk.caCert => todo[t] = WriteAll
  <2>1. ~replaced /\ SameAuthority(disk', disk)
    <3>1. CASE SameAuthority(disk', disk) /\ doubt' = doubt /\ replaced' = replaced
      BY <1>15, <3>1, Zenon
    <3>2. CASE /\ doubt' = doubt \cup (Threads \ {t})
               /\ replaced' = (replaced \/ process = "running")
      BY <1>15, <3>2, Zenon
    <3> QED
      BY <1>10, <3>1, <3>2, Zenon
  <2>2. disk'.caCert = disk.caCert
    BY <2>1, FileNames DEF SameAuthority
  <2>3. bundle[t].caCert = disk.caCert \/ todo[t] \in {WriteAll, Tail(WriteAll)}
    BY <1>0, <1>1, <1>15, <2>1 DEF HeldInv
  <2>4. op = "caCert" => disk'.caCert = bundle[t].caCert
    BY <1>5, FileNames
  <2>5. /\ todo[t] = WriteAll => op = "unmark"
        /\ todo[t] = Tail(WriteAll) => op = "caCert"
    BY AuthorityFirst DEF op
  <2> QED
    BY <2>1, <2>2, <2>3, <2>4, <2>5
<1>16. HeldInv(t)'
  <2>1. SUFFICES ASSUME ~replaced', process = "running" PROVE HeldInv(t)'
    BY <1>1 DEF HeldInv
  <2>2. CASE bundle[t].caCert = disk.caCert
    BY <1>1, <1>6, <1>15, <2>1, <2>2 DEF HeldInv, step
  <2>3. CASE bundle[t].caCert # disk.caCert
    <3>1. todo[t] = WriteAll
      BY <1>15, <2>1, <2>3
    <3>2. step = "write"
      BY <3>1, AuthorityFirst DEF step
    <3> QED
      BY <1>1, <1>6, <3>1, <3>2 DEF HeldInv
  <2> QED
    BY <2>2, <2>3
<1>17. ASSUME NEW s \in Threads, s # t PROVE ThreadFacts(s)'
  <2>1. AuthorityInv(s) /\ WriteInv(s) /\ AloneInv(s) /\ HeldInv(s)
    BY <1>0 DEF ThreadInv, ThreadFacts
  <2>2. CASE pc[s] = "idle"
    BY <1>6, <1>17, <2>2, IdleHolds
  <2>3. CASE pc[s] # "idle"
    <3>1. overlapped /\ process = "running" /\ s # "start"
      BY <1>1, <1>17, <2>3, TwoOverlap
    <3>2. AloneInv(s)'
      BY <1>1, <3>1 DEF AloneInv
    <3>3. Sound(bundle[s]) => Sound(bundle[s])'
      BY <1>1, <1>6, <1>17 DEF Sound
    <3>4. CASE SameAuthority(disk', disk) /\ doubt' = doubt /\ replaced' = replaced
      <4>1. disk'.caCert = disk.caCert
        BY <3>4, FileNames DEF SameAuthority
      <4>2. AuthorityInv(s)' /\ HeldInv(s)'
        BY <1>1, <1>6, <1>17, <2>1, <3>4, <4>1 DEF AuthorityInv, HeldInv, SameAuthority
      <4>3. IssuerIsCurrent(disk)' => IssuerIsCurrent(disk)
        BY <1>1, <3>4, FileNames DEF SameAuthority, IssuerIsCurrent, IssuerMatches, IsLive
      <4>4. WriteInv(s)'
        BY <1>6, <1>17, <2>1, <3>3, <3>4, <4>3 DEF WriteInv, SameAuthority
      <4> QED
        BY <3>2, <4>2, <4>4 DEF ThreadFacts
    <3>5. CASE /\ doubt' = doubt \cup (Threads \ {t})
               /\ replaced' = (replaced \/ process = "running")
      <4>1. s \in doubt' /\ replaced'
        BY <1>17, <3>1, <3>5
      <4>2. AuthorityInv(s)' /\ HeldInv(s)'
        BY <4>1 DEF AuthorityInv, HeldInv
      <4>3. WriteInv(s)'
        BY <1>6, <1>17, <2>1, <3>3, <4>1 DEF WriteInv
      <4> QED
        BY <3>2, <4>2, <4>3 DEF ThreadFacts
    <3> QED
      BY <1>10, <3>4, <3>5
  <2> QED
    BY <2>2, <2>3
<1>18. ThreadInv'
  BY <1>12, <1>13, <1>14, <1>16, <1>17 DEF ThreadInv, ThreadFacts
<1>19. MarkerInv'
  <2>1. SUFFICES ASSUME ~overlapped, marker' PROVE Sound(disk)'
    BY <1>1 DEF MarkerInv
  <2>2. op = "mark"
    <3>1. op = "unmark" => op \notin Files
      BY FileNames
    <3> QED
      BY <1>4, <1>9, <2>1, <3>1
  <2>3. \A f \in Files : disk'[f] = bundle[t][f]
    BY <1>5, <1>7, <1>9, <2>1, <2>2, NothingLeft
  <2> QED
    BY <1>1, <1>8, <2>3, FileNames DEF Sound
<1>20. RunInv'
  <2>1. SUFFICES ASSUME ~replaced', process = "running" PROVE RunInv'
    BY <1>1 DEF RunInv
  <2>2. /\ disk.serverCert # 0 /\ issued[disk.serverCert].authority = disk.caCert
        /\ Sound(memory) /\ memory.caCert = disk.caCert
        /\ acceptor.step # "idle" =>
             /\ acceptor.cert \in DOMAIN issued
             /\ issued[acceptor.cert].authority = disk.caCert
        /\ acceptor.step = "ready" => acceptor.key = acceptor.cert
    BY <1>0, <1>15, <2>1 DEF RunInv
  <2>3. disk'.caCert = disk.caCert
    BY <1>15, <2>1
  <2>4. disk'.serverCert # 0 /\ issued[disk'.serverCert].authority = disk.caCert
    <3>1. bundle[t].serverCert # 0 /\ issued[bundle[t].serverCert].authority = bundle[t].caCert
      BY <1>0, <1>8, IssuedRange DEF Sound
    <3>2. CASE op = "serverCert"
      <4>1. disk'.serverCert = bundle[t].serverCert /\ bundle[t].caCert = disk.caCert
        BY <1>5, <1>15, <2>1, <3>2, FileNames
      <4> QED
        BY <3>1, <4>1
    <3>3. CASE op # "serverCert"
      <4>1. disk'.serverCert = disk.serverCert
        BY <1>5, <3>3, FileNames
      <4> QED
        BY <2>2, <4>1
    <3> QED
      BY <3>2, <3>3
  <2> QED
    BY <1>1, <2>2, <2>3, <2>4 DEF RunInv, Sound
<1>21. KnownInv'
  BY <1>0, <1>1, <1>5, <1>6 DEF KnownInv
<1>22. TypeOK'
  <2>1. doubt' \subseteq Threads /\ replaced' \in BOOLEAN
    BY <1>0, <1>10 DEF TypeOK
  <2> QED
    BY <1>0, <1>1, <1>4, <1>5, <1>6, <2>1 DEF TypeOK, Steps, Operations
<1>23. ProcessInv' /\ LoneInv'
  BY <1>0, <1>1, <1>6, LoneStays DEF ProcessInv, Threads
<1> QED
  BY <1>18, <1>19, <1>20, <1>21, <1>22, <1>23 DEF IInv

\* A launch or a refresh ends with the bundle in memory.
LEMMA SwapsPreserves ==
  ASSUME IInv, NEW t \in Threads, Swaps(t)
  PROVE  IInv'
<1>0. /\ TypeOK /\ KnownInv /\ ProcessInv /\ LoneInv /\ RunInv
      /\ WriteInv(t) /\ AloneInv(t) /\ HeldInv(t)
  BY DEF IInv, ThreadInv, ThreadFacts
<1>1. /\ pc[t] = "swap" /\ memory' = bundle[t] /\ process' = "running"
      /\ Goes(t, "idle", Nothing, <<>>)
      /\ UNCHANGED <<host, now, crashes, issued, disk, marker, acceptor, failures,
                     doubt, replaced, overlapped>>
  BY DEF Swaps, ThreadUnchanged, worldVars, cacheVars, history
<1>2. /\ "idle" \in Steps /\ Nothing \in Bundles /\ <<>> \in Seq(Operations)
      /\ \A f \in Files : Nothing[f] \in 0..Len(issued)
  BY <1>0, NothingIsABundle, NothingLeft DEF Steps
<1>3. /\ pc' \in [Threads -> Steps] /\ bundle' \in [Threads -> Bundles]
      /\ todo' \in [Threads -> Seq(Operations)] /\ pc'[t] = "idle"
      /\ \A s \in Threads : s # t => pc'[s] = pc[s]
  BY <1>0, <1>1, <1>2, GoesStep
<1>4. ThreadFacts(t)'
  BY <1>3, IdleHolds
<1>5. \/ process = "starting" /\ t = "start" /\ acceptor = NoHandshake
         /\ \A s \in Refreshers : pc[s] = "idle"
      \/ t \in Refreshers /\ process = "running"
  <2>1. t = "start" => process = "starting"
    BY <1>0, <1>1 DEF ProcessInv
  <2>2. t \in Refreshers => process = "running"
    BY <1>0, <1>1 DEF ProcessInv
  <2> QED
    BY <1>0, <2>1, <2>2 DEF ProcessInv, Threads
<1>6. \A s \in Threads : s # t => pc[s] = "idle" \/ Remembers(s)
  BY <1>1, <1>5 DEF Remembers, Threads
<1>7. KnownInv' /\ ThreadInv' /\ MarkerInv'
  BY <1>1, <1>2, <1>4, <1>6, GoesPreserves
<1>8. bundle[t] \in Bundles
  BY <1>0 DEF TypeOK
<1>9. TypeOK'
  BY <1>0, <1>1, <1>3, <1>8 DEF TypeOK, Steps, Operations
<1>10. ProcessInv' /\ LoneInv'
  BY <1>0, <1>1, <1>3, <1>5, LoneStays DEF ProcessInv, Threads
<1>11. Sound(bundle[t]) /\ todo[t] = <<>> /\ Left(todo[t]) = {}
  BY <1>0, <1>1, NothingLeft DEF WriteInv
<1>12. RunInv'
  <2>1. SUFFICES ASSUME ~replaced PROVE RunInv'
    BY <1>1 DEF RunInv
  <2>2. CASE t = "start" /\ acceptor = NoHandshake
    <3>1. bundle[t].serverCert = disk.serverCert /\ bundle[t].caCert = disk.caCert
      BY <1>0, <1>1, <1>11, <2>2, FileNames DEF AloneInv
    <3>2. disk.serverCert # 0 /\ issued[disk.serverCert].authority = disk.caCert
      BY <1>0, <1>11, <3>1, IssuedRange DEF Sound
    <3>3. Sound(memory)' /\ memory'.caCert = disk'.caCert
      BY <1>1, <1>11, <3>1 DEF Sound
    <3> QED
      BY <1>1, <2>2, <3>2, <3>3 DEF RunInv, NoHandshake
  <2>3. CASE process = "running"
    <3>1. bundle[t].caCert = disk.caCert
      BY <1>0, <1>1, <2>1, <2>3 DEF HeldInv
    <3>2. Sound(memory)' /\ memory'.caCert = disk'.caCert
      BY <1>1, <1>11, <3>1 DEF Sound
    <3> QED
      BY <1>0, <1>1, <2>1, <2>3, <3>2 DEF RunInv
  <2> QED
    BY <1>5, <2>2, <2>3
<1> QED
  BY <1>7, <1>9, <1>10, <1>12 DEF IInv

\* A file cannot be written, and the refresh or the launch fails.
LEMMA FailsPreserves ==
  ASSUME IInv, NEW t \in Threads, Fails(t)
  PROVE  IInv'
<1>0. TypeOK /\ KnownInv /\ ProcessInv /\ LoneInv /\ RunInv
  BY DEF IInv
<1>1. /\ pc[t] = "write" /\ failures < Failures /\ failures' = failures + 1
      /\ process' = IF t = "start" THEN "down" ELSE process
      /\ Goes(t, "idle", Nothing, <<>>)
      /\ UNCHANGED <<host, now, crashes, issued, disk, marker, memory, acceptor,
                     doubt, replaced, overlapped>>
  BY DEF Fails, ThreadUnchanged, worldVars, cacheVars, history
<1>2. /\ "idle" \in Steps /\ Nothing \in Bundles /\ <<>> \in Seq(Operations)
      /\ \A f \in Files : Nothing[f] \in 0..Len(issued)
  BY <1>0, NothingIsABundle, NothingLeft DEF Steps
<1>3. /\ pc' \in [Threads -> Steps] /\ bundle' \in [Threads -> Bundles]
      /\ todo' \in [Threads -> Seq(Operations)] /\ pc'[t] = "idle"
      /\ \A s \in Threads : s # t => pc'[s] = pc[s]
  BY <1>0, <1>1, <1>2, GoesStep
<1>4. ThreadFacts(t)'
  BY <1>3, IdleHolds
<1>5. \A s \in Threads : Remembers(s)
  BY <1>1 DEF Remembers
<1>6. KnownInv' /\ ThreadInv' /\ MarkerInv'
  BY <1>1, <1>2, <1>4, <1>5, GoesPreserves
<1>7. failures' \in 0..Failures
  BY <1>0, <1>1, CacheBounds DEF TypeOK
<1>8. TypeOK'
  BY <1>0, <1>1, <1>3, <1>7 DEF TypeOK, Steps, Operations
<1>9. t = "start" => process = "starting"
  BY <1>0, <1>1 DEF ProcessInv
<1>10. ProcessInv' /\ LoneInv'
  BY <1>0, <1>1, <1>3, <1>9, LoneStays DEF ProcessInv, Threads
<1>11. RunInv'
  <2>1. CASE t = "start"
    BY <1>1, <2>1 DEF RunInv
  <2>2. CASE t # "start"
    BY <1>1, <2>2, WorldStays
  <2> QED
    BY <2>1, <2>2
<1> QED
  BY <1>6, <1>8, <1>10, <1>11 DEF IInv

\* A handshake reads the certificate and then the key.
LEMMA HandshakePreserves ==
  ASSUME IInv, Handshake
  PROVE  IInv'
<1>0. TypeOK /\ KnownInv /\ ProcessInv /\ LoneInv /\ ThreadInv /\ RunInv
  BY DEF IInv
<1>1. UNCHANGED <<process, host, now, crashes, issued, disk, marker, memory, pc, bundle, todo,
                  failures, doubt, replaced, overlapped>>
  BY DEF Handshake, ReadsCertificate, ReadsKey, HandshakeEnds, HandshakeUnchanged, worldVars,
     cacheVars, history
<1>2. process = "running"
  <2>1. process # "running" => acceptor = NoHandshake
    BY <1>0 DEF ProcessInv
  <2> QED
    BY <2>1 DEF Handshake, ReadsCertificate, ReadsKey, HandshakeEnds, NoHandshake
<1>3. /\ acceptor \in [step : {"idle", "key", "ready", "refused"}, cert : Contents, key : Contents]
      /\ disk.serverCert \in Contents /\ disk.serverKey \in Contents
      /\ disk.serverCert \in 0..Len(issued) /\ 0 \in Contents
  BY <1>0, FileNames, CacheBounds DEF TypeOK, KnownInv, Bundles, Contents
<1>4. /\ acceptor' \in [step : {"idle", "key", "ready", "refused"}, cert : Contents, key : Contents]
      /\ \/ acceptor'.step = "idle"
         \/ acceptor'.step = "key" /\ acceptor'.cert = disk.serverCert
         \/ /\ acceptor.step = "key" /\ acceptor'.cert = acceptor.cert
            /\ acceptor'.step = "ready" => acceptor'.key = acceptor'.cert
  <2>1. CASE ReadsCertificate
    BY <1>3, <2>1 DEF ReadsCertificate
  <2>2. CASE ReadsKey
    BY <1>3, <2>2 DEF ReadsKey
  <2>3. CASE HandshakeEnds
    BY <1>3, <2>3 DEF HandshakeEnds, NoHandshake
  <2> QED
    BY <2>1, <2>2, <2>3 DEF Handshake
<1>5. TypeOK'
  BY <1>0, <1>1, <1>4 DEF TypeOK
<1>6. KnownInv' /\ ProcessInv' /\ LoneInv'
  BY <1>0, <1>1, <1>2 DEF KnownInv, ProcessInv, LoneInv
<1>7. now' \in Nat /\ now <= now'
  BY <1>0, <1>1, IssuedRange
<1>8. ThreadInv'
  BY <1>0, <1>1, <1>7, ThreadStays DEF ThreadInv, Remembers
<1>9. RunInv'
  <2>1. SUFFICES ASSUME ~replaced PROVE RunInv'
    BY <1>1 DEF RunInv
  <2>2. /\ disk.serverCert # 0 /\ issued[disk.serverCert].authority = disk.caCert
        /\ Sound(memory) /\ memory.caCert = disk.caCert
        /\ acceptor.step # "idle" =>
             /\ acceptor.cert \in DOMAIN issued
             /\ issued[acceptor.cert].authority = disk.caCert
    BY <1>0, <1>2, <2>1 DEF RunInv
  <2>3. Sound(memory)'
    BY <1>1, <2>2 DEF Sound
  <2>4. disk.serverCert \in DOMAIN issued
    BY <1>0, <1>3, <2>2, IssuedRange
  <2>5. /\ acceptor'.step # "idle" =>
             /\ acceptor'.cert \in DOMAIN issued
             /\ issued[acceptor'.cert].authority = disk.caCert
        /\ acceptor'.step = "ready" => acceptor'.key = acceptor'.cert
    BY <1>4, <2>2, <2>4
  <2> QED
    BY <1>1, <2>2, <2>3, <2>5 DEF RunInv
<1> QED
  BY <1>1, <1>5, <1>6, <1>8, <1>9, WorldStays DEF IInv

\* The process ends, and nothing of it is left but the files.
LEMMA CrashPreserves ==
  ASSUME IInv, Crash
  PROVE  IInv'
<1>0. TypeOK /\ KnownInv
  BY DEF IInv
<1>1. /\ process' = "down" /\ crashes' = crashes + 1 /\ crashes < Restores
      /\ memory' = Nothing /\ acceptor' = NoHandshake
      /\ pc' = [t \in Threads |-> "idle"] /\ bundle' = [t \in Threads |-> Nothing]
      /\ todo' = [t \in Threads |-> <<>>]
      /\ UNCHANGED <<host, now, issued, disk, marker, failures, doubt, replaced, overlapped>>
  BY DEF Crash, cacheVars, history
<1>2. Nothing \in Bundles /\ \A f \in Files : Nothing[f] \in 0..Len(issued)
  BY <1>0, NothingIsABundle
<1>3. crashes' \in 0..Restores /\ <<>> \in Seq(Operations) /\ 0 \in Contents
  BY <1>0, <1>1, CacheBounds, NothingLeft DEF TypeOK, Contents
<1>4. TypeOK'
  BY <1>0, <1>1, <1>2, <1>3 DEF TypeOK, Operations, NoHandshake
<1>5. KnownInv' /\ ProcessInv' /\ LoneInv' /\ RunInv'
  BY <1>0, <1>1, <1>2, StartIsNoRefresher DEF KnownInv, ProcessInv, LoneInv, RunInv, Threads
<1>6. ThreadInv'
  BY <1>1, IdleHolds DEF ThreadInv
<1> QED
  BY <1>1, <1>4, <1>5, <1>6, WorldStays DEF IInv

\* Time passes.
LEMMA TickPreserves ==
  ASSUME IInv, Tick
  PROVE  IInv'
<1>0. TypeOK /\ KnownInv /\ ProcessInv /\ LoneInv /\ ThreadInv
  BY DEF IInv
<1>1. /\ now < MaxTime /\ now' = now + 1
      /\ UNCHANGED <<process, host, crashes, issued, disk, marker, memory, pc, bundle,
                     todo, acceptor, failures, doubt, replaced, overlapped>>
  BY DEF Tick, cacheVars, history
<1>2. now' \in 0..MaxTime /\ now' \in Nat /\ now <= now'
  BY <1>0, <1>1, CacheBounds DEF TypeOK
<1>3. TypeOK' /\ KnownInv' /\ ProcessInv' /\ LoneInv'
  BY <1>0, <1>1, <1>2 DEF TypeOK, KnownInv, ProcessInv, LoneInv
<1>4. ThreadInv'
  BY <1>0, <1>1, <1>2, ThreadStays DEF ThreadInv, Remembers
<1> QED
  BY <1>1, <1>3, <1>4, WorldStays DEF IInv

\* Every step preserves the invariant.
LEMMA NextPreserves ==
  ASSUME IInv, [Next]_vars
  PROVE  IInv'
<1>1. CASE Launch
  BY <1>1, StartPreserves DEF Threads
<1>2. ASSUME NEW t \in Threads, Refresh(t) PROVE IInv'
  BY <1>2, StartPreserves
<1>3. ASSUME NEW t \in Threads, ThreadStep(t) PROVE IInv'
  BY <1>3, LooksPreserves, ReadsPreserves, MisreadsPreserves, EnsuresPreserves,
     WritesPreserves, FailsPreserves, SwapsPreserves DEF ThreadStep
<1>4. CASE Handshake
  BY <1>4, HandshakePreserves
<1>5. CASE Crash
  BY <1>5, CrashPreserves
<1>6. CASE Tick
  BY <1>6, TickPreserves
<1>7. CASE UNCHANGED vars
  <2>1. UNCHANGED <<process, host, now, crashes, issued, disk, marker, memory, pc, bundle,
                    todo, acceptor, failures, doubt, replaced, overlapped>>
    BY <1>7 DEF vars, worldVars, cacheVars, history
  <2>2. TypeOK /\ KnownInv /\ ProcessInv /\ LoneInv /\ ThreadInv /\ RunInv /\ now \in Nat
    BY IssuedRange DEF IInv
  <2>3. now' \in Nat /\ now <= now'
    BY <2>1, <2>2
  <2>4. ThreadInv'
    BY <2>1, <2>2, <2>3, ThreadStays DEF ThreadInv, Remembers
  <2>5. TypeOK' /\ KnownInv' /\ ProcessInv' /\ LoneInv'
    BY <2>1, <2>2 DEF TypeOK, KnownInv, ProcessInv, LoneInv
  <2> QED
    BY <2>1, <2>4, <2>5, WorldStays DEF IInv
<1> QED
  BY <1>1, <1>2, <1>3, <1>4, <1>5, <1>6, <1>7 DEF Next

-----------------------------------------------------------------------------
(* Theorems. *)

\* The inductive invariant holds in every state.
THEOREM Invariance == Spec => []IInv
<1>1. Init => IInv
  BY InitInv
<1>2. IInv /\ [Next]_vars => IInv'
  BY NextPreserves
<1> QED
  BY <1>1, <1>2, PTL DEF Spec

\* Until two refreshes overlap, a marker on the disk is found beside files that
\* belong together (cert_generation.rs: the marker is removed first and written
\* last), whatever fails, whenever the process crashes and whatever expires.  That
\* refreshes do overlap, and what comes of it, is shown by a run.
THEOREM MarkerIsWhole == Spec => [](~overlapped => MarkerMeansWhole)
<1>1. IInv => (~overlapped => MarkerMeansWhole)
  BY SoundIsWhole DEF IInv, MarkerInv, MarkerMeansWhole
<1>2. Spec => []IInv
  BY Invariance
<1> QED
  BY <1>1, <1>2, PTL

\* A valid authority is replaced only by a thread that is in doubt: its read of the
\* authority failed, or another thread has replaced it meanwhile.
THEOREM AuthorityIsKept == Spec => AuthorityPersists
<1>1. ASSUME IInv, [Next]_vars
      PROVE  [IssuerIsCurrent(disk) /\ ~SameAuthority(disk', disk)
                => \E t \in doubt : Writes(t)]_vars
  <2>1. SUFFICES ASSUME IssuerIsCurrent(disk), ~SameAuthority(disk', disk)
                 PROVE  \E t \in doubt : Writes(t)
    OBVIOUS
  <2>2. disk' # disk
    BY <2>1 DEF SameAuthority
  <2>3. PICK t \in Threads : Writes(t)
    BY <1>1, <2>2 DEF Next, vars, Launch, Refresh, ThreadStep, Looks, Reads, Misreads, Ensures,
       Fails, Swaps, Handshake, ReadsCertificate, ReadsKey, HandshakeEnds, HandshakeUnchanged,
       Crash, Tick, cacheVars
  <2>4. SUFFICES ASSUME t \notin doubt PROVE FALSE
    BY <2>3
  <2>5. /\ disk \in Bundles /\ SameAuthority(bundle[t], disk)
    BY <1>1, <2>1, <2>3, <2>4 DEF IInv, TypeOK, ThreadInv, ThreadFacts, WriteInv, Writes
  <2>6. \A f \in Files : disk'[f] = IF f = Head(todo[t]) THEN bundle[t][f] ELSE disk[f]
    BY <2>3, <2>5 DEF Writes, Bundles
  <2> QED
    BY <2>1, <2>5, <2>6, FileNames DEF SameAuthority
<1>2. Spec => []IInv
  BY Invariance
<1> QED
  BY <1>1, <1>2, PTL DEF Spec, AuthorityPersists

\* While a running process has its first authority, every handshake of
\* tls_acceptor that is not refused serves a certificate that the shell trusts, and
\* trusts the shell's, while any number of threads replace the leaves under it.
THEOREM HandshakesAreTrusted == Spec => []HandshakeIsTrusted
<1>1. ASSUME IInv PROVE HandshakeIsTrusted
  <2>1. SUFFICES ASSUME acceptor.step = "ready", ~replaced
                 PROVE  /\ issued[acceptor.cert].authority = memory.caCert
                        /\ acceptor.key = acceptor.cert
                        /\ issued[memory.clientCert].authority = disk.caCert
    BY DEF HandshakeIsTrusted
  <2>2. process = "running"
    BY <1>1, <2>1 DEF IInv, ProcessInv, NoHandshake
  <2> QED
    BY <1>1, <2>1, <2>2 DEF IInv, RunInv, Sound
<1>2. Spec => []IInv
  BY Invariance
<1> QED
  BY <1>1, <1>2, PTL
=============================================================================
