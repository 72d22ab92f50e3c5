--------------------------- MODULE CertificateCache ---------------------------
(***************************************************************************)
(* The certificate cache of an app (tokamak/src/certificates.rs and        *)
(* cert_generation.rs): nine files and a marker in the state directory,    *)
(* written one at a time by the threads that refresh them, read one at a   *)
(* time by those threads and by every TLS handshake of the gateway         *)
(* (transport.rs), and the bundle the process holds in memory.             *)
(*                                                                         *)
(* A set of certificates is abstracted to its number: every file of the    *)
(* bundle that generate_at makes, and every leaf file that renew_leaves    *)
(* makes, holds the number of the call.  issued says what the call put     *)
(* into the certificates.  A file is replaced atomically (write_atomic     *)
(* renames over it) and survives a crash of the process.                   *)
(***************************************************************************)
EXTENDS Integers, Sequences

CONSTANTS
  Refreshers,   \* threads that call refresh: the renewal thread, resume()
  Hosts,        \* app hosts a launch may be configured with
  RenewalAge,   \* age at which a server leaf is due (LEAF_RENEWAL_DAYS)
  LeafLife,     \* age at which a leaf expires
  AuthorityLife,\* age at which an authority expires
  Restores,     \* bound: crashes, by which the process comes back
  Failures,     \* bound: file operations that fail
  MaxIssued,    \* bound: sets of certificates made
  MaxTime       \* bound: the clock

ASSUME LivesOrdered == /\ RenewalAge \in Nat \ {0}
                       /\ LeafLife \in Nat /\ RenewalAge < LeafLife
                       /\ AuthorityLife \in Nat
ASSUME CacheBounds  == {Restores, Failures, MaxIssued, MaxTime} \subseteq Nat
ASSUME StartIsNoRefresher == "start" \notin Refreshers

Threads == Refreshers \cup {"start"}

AuthorityFiles == {"caCert", "caKey", "caDer"}
LeafFiles == {"serverCert", "serverKey", "serverIdentity",
              "clientCert", "clientKey", "clientDer"}
Files == AuthorityFiles \cup LeafFiles

VARIABLES
  process,  \* "down", "starting" or "running"
  host,     \* the host of this launch
  now,      \* the clock
  issued,   \* what each call of generate_at and renew_leaves made
  disk,     \* content of each file, 0 when there is none
  marker,   \* the file .complete exists
  memory,   \* the shared bundle
  pc,       \* where each thread is
  bundle,   \* what each thread has read, or has to write
  todo,     \* what each thread has still to read or to do
  acceptor, \* a handshake of the gateway: what tls_acceptor has read
  failures, crashes,
  \* History, which no action reads:
  doubt,     \* threads that do not know the authority on disk: they could not
             \* read it, or another thread changed it since they began
  replaced,  \* the authority changed on disk since this process runs
  overlapped \* a refresh began while another one worked

cacheVars == <<disk, marker>>
worldVars == <<host, now, crashes>>
history == <<doubt, replaced, overlapped>>
vars == <<process, worldVars, issued, cacheVars, memory, pc, bundle, todo,
          acceptor, failures, history>>

Nothing == [f \in Files |-> 0]
NoHandshake == [step |-> "idle", cert |-> 0, key |-> 0]

-----------------------------------------------------------------------------
(* Bundles. *)

Generated(id) == [f \in Files |-> id]

Renewed(b, id) == [f \in Files |-> IF f \in LeafFiles THEN id ELSE b[f]]

IsLive(id, life) == id # 0 /\ now < issued[id].born + life

\* issuer_is_current: the three authority files match and are valid.
IssuerMatches(b) == b.caCert # 0 /\ b.caDer = b.caCert /\ b.caKey = b.caCert
IssuerIsCurrent(b) == IssuerMatches(b) /\ IsLive(b.caCert, AuthorityLife)

SameAuthority(b, c) == \A f \in AuthorityFiles : b[f] = c[f]

\* A leaf with its own key, signed by the authority.
LeafMatches(cert, key, b) ==
  cert # 0 /\ key = cert /\ issued[cert].authority = b.caCert

LeavesMatch(b) ==
  /\ LeafMatches(b.serverCert, b.serverKey, b)
  /\ LeafMatches(b.clientCert, b.clientKey, b)
  /\ b.clientDer = b.clientKey
  /\ b.serverIdentity = b.serverCert

\* cached_material_is_current.
MaterialIsCurrent(b) ==
  /\ IssuerIsCurrent(b) /\ LeavesMatch(b)
  /\ IsLive(b.serverCert, LeafLife) /\ IsLive(b.clientCert, LeafLife)

\* The conditions under which ensure keeps a bundle whose issuer is current.
Keeps(b) ==
  /\ MaterialIsCurrent(b)
  /\ issued[b.serverCert].host = host
  /\ IsLive(b.serverCert, RenewalAge)

-----------------------------------------------------------------------------
(* The order of the file operations. *)

LoadOrder == <<"caCert", "caKey", "serverCert", "serverKey", "serverIdentity",
               "clientCert", "clientKey", "clientDer", "caDer">>
IssuerOrder == <<"caCert", "caKey", "caDer">>

\* A bug: the marker stays while the files are written.
MarkerStays(order) == Append(order, "mark")

Committed(order) == <<"unmark">> \o order \o <<"mark">>

WriteAll == Committed(LoadOrder)
WriteLeaves == Committed(<<"serverCert", "serverKey", "clientCert",
                           "clientKey", "clientDer", "serverIdentity">>)

-----------------------------------------------------------------------------
Init ==
  /\ process = "down" /\ host \in Hosts /\ now = 0
  /\ issued = <<>>
  /\ disk = Nothing /\ marker = FALSE
  /\ memory = Nothing
  /\ pc = [t \in Threads |-> "idle"]
  /\ bundle = [t \in Threads |-> Nothing]
  /\ todo = [t \in Threads |-> <<>>]
  /\ acceptor = NoHandshake
  /\ failures = 0 /\ crashes = 0
  /\ doubt = {} /\ replaced = FALSE /\ overlapped = FALSE

\* A thread's next state, its bundle and its remaining operations.
Goes(t, step, b, operations) ==
  /\ pc' = [pc EXCEPT ![t] = step]
  /\ bundle' = [bundle EXCEPT ![t] = b]
  /\ todo' = [todo EXCEPT ![t] = operations]

\* Certificates::start, on the thread that launches the runtime.
Launch ==
  /\ process = "down"
  /\ process' = "starting" /\ host' \in Hosts
  /\ Goes("start", "look", Nothing, <<>>)
  /\ doubt' = {} /\ replaced' = FALSE
  /\ UNCHANGED <<now, crashes, issued, cacheVars, memory, acceptor, failures, overlapped>>

\* refresh: the renewal thread woke, or the shell resumes the runtime.
Refresh(t) ==
  /\ t \in Refreshers /\ process = "running" /\ pc[t] = "idle"
  /\ Goes(t, "look", Nothing, <<>>)
  /\ doubt' = doubt \ {t}
  /\ overlapped' = (overlapped \/ \E s \in Threads : pc[s] # "idle")
  /\ UNCHANGED <<process, worldVars, issued, cacheVars, memory, acceptor, failures, replaced>>

ThreadUnchanged == UNCHANGED <<worldVars, acceptor>>

\* load_cached: all_exist.  A file that exists is never removed, so what it
\* finds depends on the marker alone, which is looked up first.
Looks(t) ==
  /\ pc[t] = "look"
  /\ IF marker /\ \A f \in Files : disk[f] # 0
       THEN Goes(t, "load", Nothing, LoadOrder)
       ELSE Goes(t, "issuer", Nothing, IssuerOrder)
  /\ UNCHANGED <<process, issued, cacheVars, memory, failures, history>> /\ ThreadUnchanged

\* load_cached or load_issuer: one file is read.
Reads(t) ==
  /\ pc[t] \in {"load", "issuer"} /\ todo[t] # <<>>
  /\ Goes(t, pc[t], [bundle[t] EXCEPT ![Head(todo[t])] = disk[Head(todo[t])]],
          Tail(todo[t]))
  /\ UNCHANGED <<process, issued, cacheVars, memory, failures, history>> /\ ThreadUnchanged

Issue(authority) ==
  issued' = Append(issued, [authority |-> authority, born |-> now, host |-> host])

\* generate_and_cache: a new authority and its leaves.
Generates(t) ==
  LET id == Len(issued) + 1 IN
    Issue(id) /\ Goes(t, "write", Generated(id), WriteAll)

\* renew_leaves: new leaves of the authority that was read.
Renews(t, operations) ==
  LET id == Len(issued) + 1 IN
    Issue(bundle[t].caCert) /\ Goes(t, "write", Renewed(bundle[t], id), operations)

\* A bug: an incomplete cache is thrown away with its authority.
RegeneratesIncomplete(t) ==
  /\ pc[t] \in {"load", "issuer"} /\ todo[t] = <<>>
  /\ \/ pc[t] = "load" /\ Keeps(bundle[t])
        /\ Goes(t, "swap", bundle[t], <<>>) /\ UNCHANGED issued
     \/ /\ Len(issued) < MaxIssued
        /\ IF pc[t] = "load" /\ IssuerIsCurrent(bundle[t])
             THEN ~Keeps(bundle[t]) /\ Renews(t, WriteLeaves)
             ELSE Generates(t)
  /\ UNCHANGED <<process, cacheVars, memory, failures, history>> /\ ThreadUnchanged

\* ensure, once the cache or the issuer has been read: what is missing, does
\* not match, has expired or is due is made anew.
Ensures(t) ==
  /\ pc[t] \in {"load", "issuer"} /\ todo[t] = <<>>
  /\ \/ pc[t] = "load" /\ Keeps(bundle[t])
        /\ Goes(t, "swap", bundle[t], <<>>) /\ UNCHANGED issued
     \/ /\ Len(issued) < MaxIssued
        /\ IF IssuerIsCurrent(bundle[t])
             THEN \/ pc[t] = "issuer" /\ Renews(t, WriteAll)
                  \/ pc[t] = "load" /\ ~Keeps(bundle[t]) /\ Renews(t, WriteLeaves)
             ELSE Generates(t)
  /\ UNCHANGED <<process, cacheVars, memory, failures, history>> /\ ThreadUnchanged

\* A file cannot be looked up or read: an error in load_cached is a cache that
\* is not there, and one in load_issuer an authority that is not there, which
\* is made anew however valid the one on disk is.
Misreads(t) ==
  /\ failures < Failures /\ failures' = failures + 1
  /\ \/ /\ pc[t] = "look" \/ (pc[t] = "load" /\ todo[t] # <<>>)
        /\ Goes(t, "issuer", Nothing, IssuerOrder)
        /\ UNCHANGED <<issued, doubt>>
     \/ /\ pc[t] = "issuer" /\ todo[t] # <<>> /\ Len(issued) < MaxIssued
        /\ Generates(t)
        /\ doubt' = doubt \cup {t}
  /\ UNCHANGED <<process, cacheVars, memory, replaced, overlapped>> /\ ThreadUnchanged

\* write_all or write_leaves: the next file operation.
Writes(t) ==
  /\ pc[t] = "write" /\ todo[t] # <<>>
  /\ LET operation == Head(todo[t]) IN
       /\ marker' = IF operation \in Files THEN marker ELSE operation = "mark"
       /\ disk' = IF operation \in Files
                    THEN [disk EXCEPT ![operation] = bundle[t][operation]]
                    ELSE disk
  /\ Goes(t, IF Len(todo[t]) = 1 THEN "swap" ELSE "write", bundle[t], Tail(todo[t]))
  /\ IF SameAuthority(disk', disk)
       THEN UNCHANGED <<doubt, replaced>>
       ELSE /\ doubt' = doubt \cup (Threads \ {t})
            /\ replaced' = (replaced \/ process = "running")
  /\ UNCHANGED <<process, issued, memory, failures, overlapped>> /\ ThreadUnchanged

\* A bug: the renewal does not try again after an error.
FailsForGood(t) ==
  /\ pc[t] = "write" /\ failures < Failures
  /\ failures' = failures + 1
  /\ process' = IF t = "start" THEN "down" ELSE process
  /\ Goes(t, IF t = "start" THEN "idle" ELSE "stopped", Nothing, <<>>)
  /\ UNCHANGED <<issued, cacheVars, memory, history>> /\ ThreadUnchanged

\* A file cannot be written, and ensure fails; a launch fails too.
Fails(t) ==
  /\ pc[t] = "write" /\ failures < Failures
  /\ failures' = failures + 1
  /\ process' = IF t = "start" THEN "down" ELSE process
  /\ Goes(t, "idle", Nothing, <<>>)
  /\ UNCHANGED <<issued, cacheVars, memory, history>> /\ ThreadUnchanged

\* The bundle is what the process uses from now on.
Swaps(t) ==
  /\ pc[t] = "swap"
  /\ memory' = bundle[t]
  /\ process' = "running"
  /\ Goes(t, "idle", Nothing, <<>>)
  /\ UNCHANGED <<issued, cacheVars, failures, history>> /\ ThreadUnchanged

-----------------------------------------------------------------------------
(* tls_acceptor, on a connection's thread: the certificate and then its key *)
(* are read for this handshake, and compared.                              *)

HandshakeUnchanged == UNCHANGED <<process, worldVars, issued, cacheVars, memory,
                                  pc, bundle, todo, failures, history>>

ReadsCertificate ==
  /\ process = "running" /\ acceptor = NoHandshake
  /\ acceptor' = [acceptor EXCEPT !.step = "key", !.cert = disk.serverCert]
  /\ HandshakeUnchanged

\* A bug: the key is used as it was read.
ReadsKeyUnchecked ==
  /\ acceptor.step = "key"
  /\ acceptor' = [acceptor EXCEPT !.step = "ready", !.key = disk.serverKey]
  /\ HandshakeUnchanged

ReadsKey ==
  /\ acceptor.step = "key"
  /\ acceptor' = [acceptor EXCEPT
                    !.step = IF disk.serverKey = acceptor.cert THEN "ready" ELSE "refused",
                    !.key = disk.serverKey]
  /\ HandshakeUnchanged

\* The handshake is over, early if a file could not be read.
HandshakeEnds ==
  /\ acceptor.step # "idle"
  /\ acceptor' = NoHandshake
  /\ HandshakeUnchanged

-----------------------------------------------------------------------------
(* The process ends in the middle of anything; time passes. *)

Crash ==
  /\ process # "down" /\ crashes < Restores
  /\ process' = "down" /\ crashes' = crashes + 1
  /\ memory' = Nothing
  /\ pc' = [t \in Threads |-> "idle"]
  /\ bundle' = [t \in Threads |-> Nothing]
  /\ todo' = [t \in Threads |-> <<>>]
  /\ acceptor' = NoHandshake
  /\ UNCHANGED <<host, now, issued, cacheVars, failures, history>>

Tick ==
  /\ now < MaxTime /\ now' = now + 1
  /\ UNCHANGED <<process, host, crashes, issued, cacheVars, memory, pc, bundle,
                 todo, acceptor, failures, history>>

-----------------------------------------------------------------------------
ThreadStep(t) == \/ Looks(t) \/ Reads(t) \/ Misreads(t) \/ Ensures(t)
                 \/ Writes(t) \/ Fails(t) \/ Swaps(t)
Handshake == ReadsCertificate \/ ReadsKey \/ HandshakeEnds

Next == \/ Launch \/ \E t \in Threads : Refresh(t) \/ ThreadStep(t)
        \/ Handshake \/ Crash \/ Tick

Spec == Init /\ [][Next]_vars

(***************************************************************************)
(* The shell launches the app again, the renewal thread refreshes again and *)
(* again, and a thread that works goes on.                                 *)
(***************************************************************************)
FairSpec == /\ Spec /\ WF_vars(Launch)
            /\ \A t \in Threads : WF_vars(Refresh(t)) /\ WF_vars(ThreadStep(t))

-----------------------------------------------------------------------------
(* Correctness. *)

Contents == 0..MaxIssued
Bundles == [Files -> Contents]

\* The values of the variables.
TypeOK ==
  /\ process \in {"down", "starting", "running"} /\ host \in Hosts
  /\ now \in 0..MaxTime
  /\ issued \in Seq([authority : 1..MaxIssued, born : 0..MaxTime, host : Hosts])
  /\ Len(issued) <= MaxIssued
  /\ disk \in Bundles /\ marker \in BOOLEAN /\ memory \in Bundles
  /\ pc \in [Threads -> {"idle", "look", "load", "issuer", "write", "swap"}]
  /\ bundle \in [Threads -> Bundles]
  /\ todo \in [Threads -> Seq(Files \cup {"mark", "unmark"})]
  /\ acceptor \in [step : {"idle", "key", "ready", "refused"},
                   cert : Contents, key : Contents]
  /\ failures \in 0..Failures /\ crashes \in 0..Restores
  /\ doubt \subseteq Threads /\ replaced \in BOOLEAN /\ overlapped \in BOOLEAN

ServerFiles == {"serverCert", "serverKey", "serverIdentity"}

\* Two leaves with their keys, and the authority that signed both.
Whole(b) ==
  \E authority, server, client \in DOMAIN issued :
    /\ \A f \in AuthorityFiles : b[f] = authority
    /\ \A f \in ServerFiles : b[f] = server
    /\ \A f \in LeafFiles \ ServerFiles : b[f] = client
    /\ issued[server].authority = authority
    /\ issued[client].authority = authority

\* The marker is there only while the files belong together: "Marker written
\* after every certificate file has been committed" (cert_generation.rs).
MarkerMeansWhole == marker => Whole(disk)

\* A valid authority is replaced only by a refresh that could not know it: one
\* whose read of it failed, or that began before another one changed it (ensure
\* and renew_or_generate renew the leaves of an issuer that is current).  A
\* crash, a failed write or an interrupted rotation never costs the authority
\* that the shell pins.
AuthorityPersists ==
  [][IssuerIsCurrent(disk) /\ ~SameAuthority(disk', disk)
       => \E t \in doubt : Writes(t)]_vars

\* While the authority on disk is the one the process started with, a handshake
\* that gets its acceptor serves a certificate that chains to the authority the
\* shell pins (Challenge::ServerTrust), and the client identity the shell
\* presents chains to the authority on disk, whatever replaces the leaves.
HandshakeIsTrusted ==
  acceptor.step = "ready" /\ ~replaced =>
    /\ issued[acceptor.cert].authority = memory.caCert
    /\ acceptor.key = acceptor.cert
    /\ issued[memory.clientCert].authority = disk.caCert

\* Whatever happened, the files belong together again and again: a rotation
\* that crashed or failed is repaired by a later launch or refresh.
CacheHeals == []<>(marker /\ Whole(disk))
=============================================================================
