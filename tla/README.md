# A verification project for tokamak

tokamak (`src/tokamak`) embeds a JavaScript worker runtime in a native app. A
WebView talks through a loopback mTLS gateway to a worker that runs in QuickJS;
during development the gateway forwards to a framework's dev server instead.
This directory models the parts of it that are concurrent, persistent or bounded
in TLA+, with the file system that a worker sees and the development session
around it, checks the models with TLC, and proves with TLAPS most of their safety, for
all values of their constants.

Paths below are relative to `src/tokamak/src` unless they begin with `src/`.

## 1. Inventory

| Part | State it keeps | Operations | Correct when |
| --- | --- | --- | --- |
| Gateway (`gateway.rs`) | lifecycle (`phase`, `active`) under a mutex and condition variable; `accepting`; the connection registry; the published port and its socket | accept loop, connection thread, pool job, `suspend`, `resume`, `stop`, listener recovery | handlers are counted, suspended work is severed, sleepers are woken, `Drop` joins everything |
| Runtime facade (`server.rs`, `lifecycle_events.rs`) | gateway, certificates, renewal, event handler | `start`, `suspend`, `resume`, `Drop` | its calls may come from any thread, in any order |
| WebSocket bridge (`transport.rs`, `dispatcher.rs`, `dev_proxy.rs`, `network/websocket.mjs`) | two bounded queues, the worker's outbox, `readyState` | session thread, worker loop, proxy loop | messages arrive once and in order, a close is last, the two threads wait for each other only if one event floods a queue, and otherwise end |
| Streamed response (`transport.rs`, `dispatcher.rs`, `dev_proxy.rs`) | a bounded queue of chunks, `BodyStream.cancelled` | pump, writer with its idle poll | a terminated body is whole, the source is let go, both threads end |
| Certificate cache (`certificates.rs`, `cert_generation.rs`, `cert_validation.rs`) | nine files and a marker, the bundle in memory | `ensure` (read, repair, regenerate, rotate), the gateway's reads | files and memory belong together across crashes, failures and concurrent refreshes |
| Renewal thread (`certificates.rs`) | the sleep, retry flag, stop channel | sleep, refresh, event, stop | a leaf is replaced before it expires, if the machine is awake for long enough; `Drop` does not wait for the sleep |
| TLS challenges (`certificates.rs`) | none | `decide` | pins the authority that the gateway serves |
| HTTP framing (`transport.rs`) | none | parse a request, write a response | the next program reads the body that was meant, a part never looks whole |
| Dispatcher (`dispatcher.rs`, `quickjs.rs`, `asset_manifest.rs`) | one JavaScript runtime per request | module loading, asset lookup, dispatch, `waitUntil` | nothing is shared between requests |
| Development proxy (`dev_proxy.rs`) | endpoint, token, one connection per request | forward HTTP with retries, forward a WebSocket | only requests that change nothing are sent again, and not for ever |
| Virtual file system (`fs/vfs`) | nodes, links, descriptors | POSIX operations by path and descriptor | the tree stays a tree, descriptors stay valid |
| `node:fs` bindings (`fs/node`) | handles and streams | calls in three forms, `FileHandle`, streams, directories, globs | every descriptor has a holder, an object stays with its file |
| JavaScript layer (`streams/*.mjs`, `network/*.mjs`, ...) | queue and readers of `ReadableStream` | Web and Node API | chunks in order, one reader |
| Packaging, environment, Wrangler configuration | none | read and validate files | |
| Foreign interfaces, platform shells, plugins | the platform's | marshalling, WebView | |
| `tok dev` (`src/tokamak-cli/src/dev.rs`) | process groups, a flag for signals, relay threads, two directions per connection | wait for the server, build, launch, supervise, relay, stop | nothing outlives the session, it ends when it is to, the relay passes on what it gets |
| `tok` builds and signing, `xtask` | files | sequential tools | |

How they interact: the shell calls `Runtime`; `suspend`/`resume`/`Drop` and the
threads of the gateway share the lifecycle lock, `accepting` and the registry. A
connection thread hands a job to tokio's blocking pool through a channel of one
and waits for the answer; a WebSocket or a streamed body then goes on through
bounded queues between the connection thread and the pool thread. In development
the job forwards the request over a new connection to the relay of `tok dev`, which
checks its token, rewrites its head and copies both directions to the framework's
server; the session starts that server and stops it. A worker's calls of `node:fs`
go to a file system of its own request, through numbers that its handles and streams
hold. The renewal thread and `resume()` both run `ensure` on the same files, which the gateway
reads on every handshake.

What is hard: wake-ups through one condition variable, connections that register while
the runtime suspends, a listener replaced while `Drop` connects to wake the loop,
bounded queues in both directions, a client that leaves while nothing is written to it,
files that are rotated one by one while another thread or a crash comes between, a
server that goes away at any byte of an answer and requests that are sent again, bodies
that four programs frame anew, processes that ignore a signal or outlive their parent,
numbers that outlive what they name, two clocks. `PROJECT.json` lists each hazard at its
line.

## 2. Modules

| Module | Models | Extends / composed with |
| --- | --- | --- |
| `Gateway` | lifecycle, accept loop, connection threads, pool jobs, callers of `suspend`/`resume`, `Drop` | implements `Quiescence` |
| `Quiescence` | the promise about suspension, without threads and locks | abstract |
| `WebSocketBridge` | the two threads and two queues of one WebSocket | its `RuntimeSuspends`, `RuntimeSevers`, `RuntimeResumes` are Gateway's `Suspend`, `SuspendCloses`, `Resume`, and `RuntimeDrops` the first steps of `Drop` |
| `ResponseStream` | the pump and the writer of one streamed body | its `ConnectionSevered` is Gateway's `CloseConnections` |
| `CertificateCache` | files, memory, refreshing threads, handshakes, crashes | |
| `RenewalTimer` | the renewal thread and its two clocks | a refresh is one step here, `CertificateCache` opens it up |
| `FileTree` | the file system's data and calls as operators: nodes, links, path resolution, open files | used by the next two |
| `VirtualFileSystem` | any sequence of calls on one file system | extends `FileTree` |
| `NodeFs` | `node:fs`: calls in three forms, microtasks, handles, streams, directories, globs | extends `FileTree` |
| `HostRequest` | one request of a development session: client, gateway thread, proxy job, relay, server | the stream between the two threads is `ResponseStream`, the relay's sockets are `DevRelay` |
| `DevRelay` | the relay's accept loop, its connections' threads, their four directions | |
| `DevSession` | the main thread of `tok dev`, process groups, signals | extends `DevRelay`, whose steps interleave with its own |
| `Gateway_proofs`, `WebSocketBridge_proofs`, `ResponseStream_proofs`, `CertificateCache_proofs`, `RenewalTimer_proofs`, `VirtualFileSystem_proofs`, `HostRequest_proofs`, `DevSession_proofs` | proofs about the module of the name, for every value of its constants | that module, TLAPS |
| `MC...` | the values and views that the `.cfg` files of TLC's runs need | the module of the name |

`Gateway` takes a handler as something that answers and returns. That it does once its
connection is severed is what `SeveredEnds` of `WebSocketBridge` and `StreamEnds` of
`ResponseStream` are about, with the exception that `bridge_flood` shows, and `JobEnds`
of `HostRequest` for a job that forwards. `RuntimeSuspends` and the like of these
modules are what `Gateway` does to a connection; what an operator of `HostRequest` does
to a head (`authorized`, `rewrite_request`) is one bit and the piece 0 in `DevRelay`.

### How state and actions correspond to the code

*Gateway.* `phase` and `active` are `LifecycleStatus`, `accepting` the atomic of
the same name, `registered` the `Vec` of connections; `cancelled` stands for a
connection's flag together with its socket, which `close_connections` sets and
shuts one after the other. Every thread has a program counter: `loop`,
`conn[c]`, `job[c]`, `caller[k]`, `drop`. A step is one critical section or one
access to an atomic, so that whatever can come between two of them does. A
thread in `Condvar::wait` is `"parked"`, and only `NotifyAll` moves it; a
wake-up that the code omits is thus a wake-up that the model lacks.
`LoseListener` is the operating system closing the listening socket, which
mobile systems do; `LoopReplaceListener` and `LoopPublishPort` rebind and store
the new port. `accept` fails (`LoopAcceptError`) when the system makes it, and is not
assumed to; `Drop`'s own connection may fail, and `Drop` is then "unheard".

*WebSocketBridge.* `session` follows `websocket_session` (wait for `Ready`, flush, read
a frame, send it on); `peer` follows `websocket_loop` or, for a `kind` of "proxy",
`proxy_websocket`. `outbox` is what `drain_websocket_outbox` has taken and not sent yet,
`posted` how much that was when it was taken. Between taking an event and sending what
it made the worker post, the peer is in "handle": JavaScript runs. A send blocks (the
action is disabled) while its queue is full and fails once the receiver is gone, a
receive returns what is queued before it reports that, as `sync_channel` does.

*ResponseStream.* `producer` follows `pump_response_stream_inner` or `pump_host_body`,
`writer` the loop of `write_response_inner`. `source` records what became of the stream
that is read: it ended, failed, was cancelled, or was abandoned after a chunk that was
not bytes. A worker's pump then waits for the promises of `waitUntil` ("drain"), and
still holds the queue's sender. A client leaves in one of two ways: so that the end of
its bytes is next in the socket ("left"), or with bytes in front of it that nobody reads
("notified").

*CertificateCache.* A set of certificates is the number of the call that made it;
`issued` says which authority signed it, when, and for which host. `disk` has one entry
per file. `pc[t]` and `todo[t]` are where a thread is in `CertificateBundle::ensure`:
looking whether all files exist, reading them one by one, writing them one by one
between removing and writing the marker. `Crash` may come between any two of these;
`Fails` is a write that returns an error, `Misreads` a look or a read that does, with
which `ensure` goes on as if there were no cache or no authority. Three history
variables say what happened: `doubt` holds the threads that cannot know the authority on
disk (reading it failed, or another thread has changed it since they began), `replaced`
that it was changed while this process runs, `overlapped` that a refresh began while
another one worked. The handshake reads the certificate and the key in two steps, as
`tls_acceptor` does.

*RenewalTimer.* `now` is the wall clock, with which certificates are compared;
`remaining` is what the monotonic clock of `recv_timeout` has still to run. A `Tick`
moves both, while `MachineSleeps` moves the first alone. Both are in ticks finer than a
second, since `renewal_delay` drops the fraction. The thread may be late by any time.
`excused` counts the ticks since the last refresh of the thread that succeeded in which
it did anything but its ordinary sleep: the machine slept, it was late, or it waited to
try again.

*FileTree, VirtualFileSystem.* A `Node` of the code is shared by reference
(an `Arc` to its bytes or entries); here it is a number, `nodes` says what it is, and the
entries of directories and `open` refer to it. After each call `Drop` lets go
of what nothing refers to, as the last reference does. One request owns its file
system, so a call is one step; what can go wrong lies between the parts of a
call. Each public call is therefore an operator of its name that takes a file
system to an outcome, an error or `Ok` with what the file system has become by
then: a call that fails half-way leaves what it did. `Try` is the `?` of
Rust. `Call` makes it the next state, and keeps the call and its error in the
history variable `last`, which the properties read and no action does. A
descriptor that is closed frees its number, while the code counts on: no call
looks at how large the number is. `NodeFs` keeps the numbers as the code gives them,
since there an object may hold one that was closed.

*NodeFs.* Each `..._sync` function is an operator of its name, with the calls of
`FileTree` that it makes, in their order. `Perform` and `PerformOn` are the dispatch of
the callback and promise forms, `Ask` and `AskOn` what a promise does before it
answers. An answer is a microtask in `answers`; `Microtask` brings it, and with it a
descriptor that nobody held in between. `objects` are `FileHandle`s, write streams (read
streams have read everything when they are made), directories and
globs, with what they hold: a descriptor, or entries that were listed at once. `due` of a
write stream is what its file should hold, for the property alone. `numbers` are
descriptors that JavaScript has as numbers, `lost` those that a call
opened and forgot.

*HostRequest.* A message is a head, which is a sequence of lines, and a wire, which is a
sequence of pieces: bytes, a chunk (whole or cut off), the last chunk with its trailer.
`read_request`, `write_request`, `rewrite_request`, `read_response` and
`write_response_headers` are operators of those names from a head and a wire to the next
program's, or an error. `phase` is the lifecycle of Gateway: a job enters it, parks
there while it is "suspended", and is dropped if it is "stopping". `connection` is the
thread of `serve_connection` with the steps of reading, waiting and writing; `job` is
the pool thread in `forward_http` and its pump. One action is one exchange that can end
differently: an attempt fails before it connects (`AttemptFails`), waits for the
handshake of a TLS server ("secure"), which has no time limit, is refused by the relay,
is answered up to some byte (`AttemptIsAnswered`, where `link` is what was sent before
the server went away). `late` is the ten seconds, `served` what the server has got.

*DevRelay, DevSession.* A connection has four directions with room for a few pieces
each: client to relay, relay to server and back. A direction is open, shut (`fin`) or
broken off (`reset`). `thread` is `relay_connection`, which reads the head, connects,
sends it and copies back; `forward` is the thread that copies forth. `main` is where
`run` is, from the preparations over `wait_for_server`, the build, the launch and
`supervise` to `stop_process` for each group (`targets`), the end of the relay and of
the listener for signals. `proc` says which processes are alive; a group is a root and
its server, and `Stop` lets either heed SIGTERM or not. A round of `wait_for_server` is
one step, since a signal between two of its questions could as well come after them;
`supervise` asks for the command and for the app in two, since both may end in between.
A signal to a group may fail (`refused`), and then only the root, which is killed
through its handle, is sure to end. `failed` and `left` are history: the command's root
ended with an error, the app ended, and nobody had stopped it. Once `main` is "over" the
model stops: the process has ended, and with it its threads.

## 3. Runs

All runs but the violations pass. Model values and bounds are named constants of
the modules; a bound only limits how much the environment does.

| Run | Instance | What it shows | Distinct states |
| --- | --- | --- | --- |
| `gateway_live` | 2 connections, 1 caller, 2 ports, pool of 1, 1 lost listener | counting, registry and wake-ups are right, Gateway implements Quiescence, `Drop` completes, a suspension drains, what was dispatched is answered | 442 k |
| `bridge_live` | both kinds of peer, queues of 2, up to 2 messages, a close and `Ready` per event, 4 messages in, 3 out | nothing lost or reordered, close last, a mutual wait needs a flood, in every other case what ends one thread ends both | 159 k |
| `bridge_flood` | the same | violates `ShutdownEnds` | |
| `certificates_crash` | 1 refreshing thread, 2 hosts, 1 crash, 1 failing read or write, an expiring authority, handshakes | the marker means whole files, the authority is kept unless it cannot be read, handshakes are trusted, the cache heals | 364 k |
| `certificates_race` | renewal thread and `resume()` at once | violates `MarkerMeansWhole` | |
| `renewal_timely` | 2 ticks per second, a leaf of 6 seconds that is due after 3, an authority of 8, a retry after 1, 13 seconds | an expired leaf has its excuse, `Drop` ends the thread | 400 k |
| `stream_live` | both sources, queue of 2, 4 chunks | terminated bodies are whole, chunks conserved, source released, threads end | 9 k |
| `vfs_tree` | 6 paths, 3 nodes of the worker, 1 open file, files of at most 1 byte | well formed, read-only part kept, a call that throws has done nothing, none loses what it was not told to remove, copies are separate | 6.5 k |
| `vfs_rename` | the same | violates `RenameKeepsNode` | |
| `node_fs` | one call of each kind, 2 objects, 2 nodes and 2 descriptors of the worker, 1 answer that brings one | no descriptor is forgotten, an object stays with its file, a stream's chunks are in it, globs find what they mean | 21 k |
| `http_retry` | 11 requests, 8 answers, a server that goes away at any byte, one or no deadline passed, suspensions | nothing unsafe sent twice, bodies arrive as meant, a part never looks whole, a job ends | 42 k |
| `dev_session` | 1 connection of 2 pieces up and 1 down, 2 pieces of room, a host's app and a device's with 2 commands, 1 retry, kills that fail | nothing started is left, failures are reported, the session ends, the relay is transparent, connections end | 352 k |

Why the bounds are enough. *Two connections* let one be in any state while another
registers, is refused or ends, which is all a connection can be affected by; a *pool of
one* is the smallest that two jobs can fill. *One lost listener* and two ports give
every order of replacement and `Drop`. *One caller* suspends and resumes as often as it
likes while the accept loop, the connections and `Drop` go on; that several callers
overlap is left to the proofs, which have any set of them (section 4). The *queues of
the bridge* hold two entries, and one event may post four (two messages, a close,
`Ready`): an event can fill the queue exactly, or flood it, and one that does not flood
can find it half full. The client sends as much as fills its queue while the peer is
busy and the session holds one more. *Four chunks* fill the queue of 2, the writer and
the producer at once. The certificate lives (1, 2, 2) make a leaf due, expired and an
authority expired within two ticks; *one crash and one failure* hit every step of a
rotation and of its repair; six sets cover every regeneration that they can cause.
Handshakes are looked at with one refreshing thread; with several the proof is what
there is (section 4). In `RenewalTimer` an authority can end in the middle of a leaf's
life, a retry is shorter than what is left of a leaf that is due, and the clock goes
over two lives of a leaf.

In `vfs_tree` *three nodes* at a time are a directory, an entry in it and a
link, and the two names in `/tmp` occur again below, so that a path can be a prefix of
another, lead into it through a link, or clash with it. A link's target is
`/tmp/a` (a directory, a file, itself, nothing) or `..`. A path of four segments and
two links is enough to exceed both limits (48 and 40 in the code); a
file of one byte has a write that fits, one that starts at the limit and one
beyond it. `View` identifies states that differ in the numbers of their nodes or in
`last`. That loses nothing: no call depends on either, and every property either
looks at one state up to numbers or at one step with its own `last'`, and TLC
evaluates the latter on every step it makes, also those to a state it has seen.

In `node_fs` the calls are one of each kind, in the form that differs most from what
another kind has already, on two names in `/tmp`, the file of the bundle, the full
device and a path outside the roots. *Two objects* are a handle and a stream on one
file, or two on one number; *two descriptors* let a number be closed and another be
given out while an object still holds the first; with *one answer* on its way the worker
can act before it comes. `GlobIsExact` looks at two patterns over every tree that
occurs: `**` before a name, and braces with a `?`, a `*` and a slash in them. `View`
forgets the last call and closed numbers, and swaps the two nodes.

In `http_retry` the requests are one of each framing (none, a length, chunks with a
trailer, a body too large, a chunk that is cut off, two framings at once, too short a
body, an upgrade, no connection, no certificate), and the answers likewise.
Two bytes are a body that can be cut in its middle, and one too many for the limit. The job's
retries are not bounded but by `late`: the loop is finite because nothing but
the time tells one round from another.

In `dev_session` a client of two pieces has a head that may come with a part of the body
or before it, or a head of both; `HeaderLimit` 0 lets a head be too long. A room of 2 can
be full on each of the four ways. The two platforms are the two shapes of a launch: a
process of the host, and commands that are tried again. One connection is enough since
connections share nothing but the accept loop.

No run uses symmetry. The type invariants that no run lists state the variables' values
for the reader; that of the file system is a part of `FileSystemOK`, and that of
`Gateway` is proved.

`CHECK_DEADLOCK FALSE` in every run: the systems do end. `Drop` finishes, both threads
of a bridge or a stream return, a request is answered, a session is over, and bounded
clients, messages, failures and clocks run out. That something goes on where it must is
what the liveness properties say.

### Fairness

- Threads that are runnable run: weak fairness of each thread's steps. A blocked
  `accept` is runnable when there is a connection or the listener is closed; that the
  system makes it fail (`LoopAcceptError`) is not assumed. `DropCompletes` therefore has
  an escape: `Drop`'s own connection was refused, and nobody else ever connects.
- A thread that talks to a client goes on for sure only once its socket is shut (`c \in
  cancelled /\ ConnTalks(c)`), or the client has left (`WriterFails`, `WriterEnds`): a
  client may be silent or refuse to read for ever.
- A handler is sure to return only when the interrupt handler that `execute_request`
  installs sees that the gateway stopped accepting (`dispatcher.rs:86-89`).
  `SuspensionDrains`, `DispatchedIsAnswered` and the second half of `SeveredEnds` have
  `HandlersReturn` as their premise: that handlers return by themselves.
- A wait for `Ready` ends after 30 seconds (`SessionGivesUp`).
- `BoundedSpec` of `ResponseStream` adds that a worker's stream does not yield empty
  chunks for ever: the writer polls client and connection only when its queue stays
  empty for a tenth of a second.
- `CertificateCache`: the shell launches the app again after a crash, and the threads
  that refresh do so again.
- `RenewalTimer`: the thread runs, which is all that `DropEndsRenewal` needs; neither
  clock has to go on.
- `HostRequest`: both threads run, and the ten seconds pass. Of the server nothing is
  assumed but that a read of its answer ends, as the proxy's timeouts see to; a TLS
  handshake comes before they are set (`dev_proxy.rs:108-116`, `:153`) and may last for
  ever. `JobEnds` has as premises that a suspension does not last for ever, and neither
  does a handshake.
- `DevSession`: the main thread goes on, and with it the builds and platform tools that
  it waits for; its deadlines of 60 and 2 seconds pass; a process that was killed ends
  (that a kill succeeds is not assumed); the relay's threads run. `ConnectionEnds` needs
  that clients and servers read what they get and close at its end; `SessionEnds` does
  not look at connections at all.
- Nothing else is assumed of clients, the system, or shell calls not yet made.

### What the violations show

- `bridge_flood` (`dispatcher.rs:351`): a worker that posts more in one event than the
  outgoing queue holds, against a client that fills the incoming one, leaves both
  threads in a blocking send (`dispatcher.rs:351`, `transport.rs:595`). Shutting the
  socket reaches neither, so `Runtime::drop` hangs in its join, although
  `src/docs/plans/tokamak-quickjs-runtime.md:171-175` has WebSocket executions end at
  their next event boundary and a shutdown join. The code's queue holds 100 entries, and
  nothing limits what a handler posts. `DeadlockNeedsFlood` and `SeveredEnds` of
  `bridge_live` show that this is the only way.
- `certificates_race` (`certificates.rs:845`): `renew` runs `ensure` without a lock, and
  two of them leave the marker beside files of two rotations; TLS then refuses every
  handshake until the next refresh. What is handed out until then is trusted as long as
  the authority stays (`HandshakesAreTrusted`, section 4).
- `vfs_rename` (`fs/vfs/virtual_filesystem.rs:440`): `rename` compares paths and not
  entries. With `/tmp/b` a link to the directory `/tmp/a`, renaming `/tmp/a` to
  `/tmp/b/b` puts the directory into itself, removes its name, returns `Ok`, and the
  directory is gone. Two paths that links lead to one entry make `rename` remove what it
  has just inserted. `NothingIsLost` in `vfs_tree` excepts just these renames, and shows
  that nothing is lost otherwise.

Observed while modelling and not kept as runs:

*Bridge and streams.* `peer_closed` (`transport.rs:802`) peeks one byte, and takes the
`close_notify` record that a TLS client leaves for a client that is still there; an idle
stream of the development host is then never cancelled, which is why `StreamEnds` leaves
out a host with a "notified" client, although line 225 of the plan promises it. A
worker's stream whose chunk is not bytes is neither read on nor cancelled
(`dispatcher.rs:590-596`). The terminator of a worker's response waits for the promises
of `waitUntil`, since the pump holds the sender meanwhile (`dispatcher.rs:519-523`).

*Gateway and certificates.* `Event::Suspended` is emitted while handlers may still run
(`server.rs:129`; `Lifecycle::suspend` enters `Suspending`); the renewal thread, whose
sleep drops the fraction of a second, wakes early, keeps the bundle and emits
`CertificatesRenewed` (`certificates.rs:817`); a handshake during a rotation can get a
certificate and the key of another and is refused (`transport.rs:137-140`), though
`certificates.rs:38` speaks of one identity file that is read atomically; the sleep of
the renewal thread follows the server leaf alone, so that an authority that expires in
between stays in use until the leaf is due (`certificates.rs:222`; the authority is made
for ten years). A read that fails once makes `ensure` replace a valid authority
(`certificates.rs:75-77`), which `AuthorityPersists` excepts. The sleep of the renewal
thread stands still while the machine sleeps: one that is awake for less than a third of
the time holds an expired leaf after 90 days although no refresh has failed, unless the
shell resumes the runtime meanwhile (`ExpiryIsExcused` says that it takes this much).

*Virtual file system.* `remove_directory` on a link to a directory removes the link,
since it looks at the path with links followed and removes without; `mkdir` with
`recursive` fails with `ENOTDIR` where a link to a directory lies on the path, which
`mkdir_recursive` does not follow; renaming a path that does not exist to itself
succeeds; `copy` with `force` into the place of a directory that holds the source
replaces that directory; and `write_file` empties the file before it fails for want of
room. A copy with `dereference` through a directory with two links to itself doubles its
work at each of forty levels.

*node:fs.* `createReadStream` of a file that it cannot read leaves its descriptor open
(`fs/node/javascript_objects.rs:628-666`; `lost` in the model); the write of a stream
without a callback drops its error and answers true; `exists` throws for a path outside
the roots; `fs.promises.open` and `glob` throw where they should reject; the patterns of
`exclude` are matched without their braces being expanded.

*Forwarding.* A client's `Expect: 100-continue` is forwarded, and the server's interim
answer taken for the answer (`dev_proxy.rs:515`); a HEAD or 204 answer without a length
gets `content-length: 0` (`transport.rs:733-737`); a refused connection is not tried
again, while one that breaks is (`dev_proxy.rs:242-254`); a head that takes longer than
ten seconds is answered with 500 though the server may have acted; a job that is asking
when its runtime is suspended goes on until its ten seconds are over; a silent TLS
endpoint keeps a job for ever; and the relay splits lines at a bare LF (`dev.rs:1078`)
where the proxy splits at CRLF (`transport.rs:170`).

*Development session.* The relay ends for good at the first error of `accept` that is not a
would-block (`dev.rs:978`); `read_headers` has no timeout (`dev.rs:1022`); connections'
threads are detached, and `Drop` joins only the accept loop; a connection that is reset on one
side is ended in an orderly way on the other; a 401 can be lost when the
client's body is unread. A command that failed is stopped a second time by `run`, with
an id of a group that may be another's by then. `wait_for_server` takes whoever
listens on the port for the server. An app that ends by itself leaves its helpers, and one on a
device stays there.

## 4. Proofs

A theorem of the form `Spec => []P` holds for every value of the constants that the
`ASSUME`s of the module allow, which TLC evaluates in each of its runs; further
hypotheses stand in the theorem. `Spec` is without fairness. Each proof has the same
shape: an inductive invariant (`IInv`, `SessionInv`, `RelayInv`, `Inductive`), one lemma
for the steps of each thread or for each call, and from the invariant the properties.
The invariants were checked by TLC on small instances before they were proved.

| Module | Theorem | States | Hypotheses |
| --- | --- | --- | --- |
| `Gateway_proofs` | `TypeCorrect` | `[]TypeOK` | |
| | `CountsExecutions` | `[]ActiveCountsExecutions` | |
| | `NoSleeperForgotten` | `[]NoLostWakeup` | |
| | `SuspensionSevers` | `[]SuspendSevers` | |
| | `ShutdownSevers` | `[]DropSevers` | |
| | `ShutdownWakesLoop` | `[]LoopIsWoken` | |
| | `ShutdownLeavesNothing` | `[]NothingOutlivesDrop` | |
| | `Refinement` | `ImplementsQuiescence` | |
| `WebSocketBridge_proofs` | `TypeCorrect` | `[]TypeOK` | |
| | `NoMessageIsLost` | `[]MessagesConserved` | |
| | `NothingFollowsClose` | `[]CloseIsLast` | |
| | `DeadlockIsAFlood` | `[]DeadlockNeedsFlood` | |
| `ResponseStream_proofs` | `TypeCorrect` | `[]TypeOK` | |
| | `StreamIsReleased` | `[]SourceIsReleased` | |
| | `TerminatorIsEarned` | `[]TerminatedIsWhole` | |
| | `NoChunkIsLost` | `[]ChunksConserved` | |
| `RenewalTimer_proofs` | `TypeCorrect` | `[]TypeOK` | |
| | `ExpiryNeedsExcuse` | `[]ExpiryIsExcused` | |
| `CertificateCache_proofs` | `Invariance` | `[]IInv` | |
| | `MarkerIsWhole` | `[](~overlapped => MarkerMeansWhole)` | |
| | `AuthorityIsKept` | `AuthorityPersists` | |
| | `HandshakesAreTrusted` | `[]HandshakeIsTrusted` | |
| `VirtualFileSystem_proofs` | `InductiveHolds` | `[]Inductive` | |
| | `FileSystemIsOK` | `[]FileSystemOK` | |
| | `FailedCallsDoNothing` | `FailedCallsChangeNothing` | |
| `HostRequest_proofs` | `UnsafeIsSentOnce` | `[]UnsafeOnce` | |
| | `TheBodyIsRead` | `[]ServerReadsTheBody` | (`RequestShape`) |
| | `WholeInvariance` | `[]WholeInv` | (`RequestShape`, `ResponseShape`) |
| | `WholeAnswers` | `[]WholeIsWhole` | no response has status 500 (`RequestShape`, `ResponseShape`) |
| `DevSession_proofs` | `NothingIsLeft` | `[]NothingOutlivesSession` | |
| | `FailuresAreReported` | `[]FailureIsReported` | |
| | `RelayInvariance` | `[]RelayInv` | |
| | `RelayCarriesAll` | `[]RelayIsTransparent` | |

`TypeOK` and `LoopIsWoken` of `Gateway` are proved and not run: `gateway_live` checks
`DropCompletes`, which a loop that is not woken would violate.

The hypotheses are these.

- `RequestShape` and `ResponseShape`: what the client and the server send is framed as
  HTTP asks. Nothing stands behind the last chunk, a length is not exceeded, a client
  that announces no body sends none. They are about the two programs outside the
  repository (curl or a browser, the development server); what arrives of it is cut off
  anywhere, also within a chunk.
- No response has status 500 (`WholeAnswers`): the proxy reports a response that it
  could not read as a 500 of its own, and by its status alone `WholeIsWhole` tells the
  server's answers from the proxy's.

What holds only in some behaviours says so by history in the property, and not by a
hypothesis that would rule the others out: `MarkerIsWhole` is about the behaviours up to
the first overlap of two refreshes (`certificates_race` shows what comes then),
`AuthorityPersists` excepts threads in `doubt`, `ExpiryIsExcused` measures the excuse.

### Arguments

*Gateway.* None of the properties is inductive alone. `ThreadsInv` gathers `TypeOK`,
`NoLostWakeup`, `SuspendSevers`, `DropSevers`, `LoopIsWoken` and what ties the program
counters to the shared state: `ShutdownInv` (how far `Drop` is determines `accepting`
and `phase`), `LoopInv` (what the accept loop holds and what it left behind when it
exited), `RegistryInv` (which connections are registered) and `JobInv` (a job exists
only for a connection that was dispatched). It is kept by each action separately, with
one lemma per group of threads. `ActiveCountsExecutions` comes after it: `active` is the
cardinality of `Running`, so a job that enters adds an element and one that returns
removes one, and `phase` is `"Suspending"` only while it is not empty. `IInv` is their
conjunction; the theorems follow from it, and the refinement theorem shows that each
action under `IInv` is a step of `Quiescence` or leaves its variables alone.

*WebSocketBridge.* What the receiver got is an initial part of what was sent, and the
rest is on its way: `IncomingInv` and `OutgoingInv` say with `Carries` that the messages
of the queue and of the sending thread's hand continue, number by number, what has
arrived, as long as the receiver is there. In the direction to the client a close may
have been written instead, and then the session is over or passes on the client's own
close. `WorkerInv` and `ProxyInv` say why waiting needs a flood: while the queue to the
peer is full and the session looks at nothing else (`Waits`), the peer has taken no
event since the session last emptied the other queue, so that this one and the outbox
hold entries of one event only, and no more than `posted`; the proxy's at most one
message and the close with which it fails, which two places have room for.

*ResponseStream.* `QueueInv` places what is in the queue between the last chunk written
(`Taken`) and the last one read (`Sent`), in order and without gaps, while the writer
lives; `BodyInv` says the same of the body and that its terminator is behind the last
chunk of a stream that ended. `WriterInv` carries the reason: as long as the writer
lives, a producer that is gone has reached the end of its stream or has left a failure
in the queue.

*RenewalTimer.* `DueInv` bounds the wall clock and what is left of the ordinary sleep
(`Ahead`) by the time the leaf is due and what is excused since. A sleep begins with
`RenewalDelay`, which rounds down and never goes beyond that time; a tick of an ordinary
sleep moves from the one to the other, and every other tick is excused; a refresh that
succeeds leaves a leaf that is not due yet; `resume()` only makes it later. An expired
leaf is as far behind the time at which it was due as a leaf lives on, and so is the
excuse.

*CertificateCache.* `AuthorityInv` says that what a thread that is not in doubt has read
or written of the authority is what the disk holds, whatever other threads do in
between: a thread that writes while the disk's authority is current writes that same
one, or is in doubt. `WriteInv` says that what is about to be written is whole
(`Sound`), `AloneInv` that a thread that is alone finds on the disk every file it has
behind it, and takes the marker away before it writes; `LoneInv` that there is one such
thread until two overlap. Together they give `MarkerInv`, across crashes and failures.
`HeldInv` and `RunInv` are about a running process whose authority has not been
replaced: memory, disk, handshake and every thread that has not just made a new
authority have the same one, with any number of threads. Certificate and key of a
handshake can then be of two rotations (which is refused), but never of two authorities.

*VirtualFileSystem.* `FileSystemOK` is not inductive by itself: it does not say that
names are finite in number, that open files are neither directories nor links and have
numbers below the next one, or that `/tmp` is a directory, and a file system in the
middle of a call does not satisfy it. `Inductive` is `Good(vfs, Targets)`: the file
system is `Fine` (nodes and open files have their shapes and name nodes that are there,
the read-only nodes are the first ones), `Unique` (no directory and no link has two
entries) and nothing in it is unreferred. `TreeOK` follows: a directory or a link has an
entry, since otherwise the nodes without it would be closed under entries and hold all
that is referred to, and it has no second one.

The argument goes call by call. Within a call nodes are made before they are entered, so
that the third part fails in between and `Drop` restores it at the end (`DropIsGood`); a
call is `Lawful` if it leaves what is `Fine` and `Unique`, and if it throws, then with
at most nodes added that nothing refers to, so that `Drop` gives back what was there
(`DropUndoes`). That is what makes `FailedCallsChangeNothing` true although `mkdir`,
`rename`, `copy` and `open` work before they can fail: `RenameLawful` shows that nothing
fails after the destination is cleared, `MkdirRecursiveLawful` that only directories
that were there can be in the way, `OpenLawful` that nothing fails after a file is made.
`write_file`, the copying of a file over it, and `writev` are `Kept` only: their second
part can fail. In all of them a path is resolved first. `WalkReaches` proves of the
recursive walk, by induction along links left and names left, that it ends, and finds a
node that is there (not a link, if links are followed), whatever the tree and the links
are. `FoundAtWalks` and `EachIsNumbered` do the same for the walk of `copy_node` and the
numbers of the copies. The prover has no induction for an operator, so `Recursion`,
`CountingUp` and `FoldingOver` derive for *sets* of pairs that the functions which the
model defines by recursion and folds exist, from well-founded induction.

The theorems have any paths, link targets, names, sizes, options and limits. `MaxNodes`
and `MaxOpen`, the bounds of the run, may be as large as one likes. The initial tree has
one file in the bundle and two devices. `FileLimits` asks that a file may have a byte
(128 MiB in the code), since the bundle's file has one. `LiteralNames`, which says that
the names of the first entries are strings, is a fact of the language that the provers
are not told.

*HostRequest.* `RetryInv` ties what the server got to the request that was read
(`MethodIsKept`: neither `write_request` nor `rewrite_request` touches the method) and
to the end of the attempts: once the server has got a request that is not safe, the job
only pumps the answer or is done.

`ReadInv` adds that the job has the request that was read, and that the server got
nothing but its rewritten form, once per attempt. `RequestIsRead` says what
`read_request` makes of any framed request (all of the body or an error), and
`ServersHead` what is left of its head behind `write_request` and `rewrite_request`: the
framing of one body, as `Content-Length` if there is one, and no line of the
client that says another. `ServerReads` puts them together.

`WholeInv` follows the answer. `TurnInv` is the order of the two threads, `ReplyInv`
says that a reply fits the response (buffered: all of its body; streamed: the same
framing; or a 500), `AnswerInv` that what the client has is the first pieces of the
response's body, and all of it if the last chunk was sent. `PumpInv` carries this across
the three places a piece can be in: with `j` pieces at the client and `k` read by the
job, the stream holds the pieces from `j + 1` to `k`, then at most an error, and the
link still has those behind `k`, up to a cut. `StreamedNext`, `StreamedMore`,
`StreamedError` and `ComesNext` move a piece on; the end is passed on only when nothing
of the response is behind `k`.

The bodies are folds over pieces of any number. `FlattensOnce`, `FlattenIs` and
`FlattenAppend` get from the definition of the fold what it does with one more piece, with
`SetInduction` in place of an induction theorem: it is stated for *sets* of numbers.

*DevSession.* `StopInv` says that what is alive while the session stops is among the
groups still to be stopped, and that a root that had its SIGKILL is not alive, nor a
member of its group unless a kill failed; `AppInv` says that an app which is dead before
anything was stopped has ended by itself; `LaunchInv` says which processes there can be
at each place of the main thread, and `ResultInv` carries the reason of every success.

*DevRelay.* `RelayInv` says of each connection where the pieces are that were sent.
Piece `i` of a request is what `Piece(head, i)` says it is, since the new head is one
piece in place of the old ones, and `Numbered` says that a sequence continues at the
`n`-th. `UpInv` then is: asked, in the socket to the server, in the thread's hand
(`initial`) and in the client's socket are consecutive parts of one sequence, whose
length is what the client has sent, as long as no socket has broken off; `AskedInv`
keeps the first two when one has. `HeadInv` is the same before the head is rewritten,
`DownInv` for the answer. `EndInv` says why a copying thread ended: what it reads had
ended and was empty, or a socket broke off. Lemmas on sequences (`NumberedAppend`,
`NumberedTail`, `NumberedConcat`, `NumberedSplit`, `NumberedRewritten`) move a piece
from one part to the next; there is one lemma for every step of a connection, and
`RelayStep` puts them into the session's steps. The theorem has any number of
connections, pieces and room, and any `HeaderLimit`.

### Left to TLC

- Liveness (`DropCompletes`, `SuspensionDrains`, `DispatchedIsAnswered`, `SeveredEnds`,
  `StreamEnds`, `CacheHeals`, `DropEndsRenewal`, `JobEnds`, `SessionEnds`,
  `ConnectionEnds`), which the prover cannot do under fairness.
- `NothingIsLost` and `CopyIsSeparate` of `VirtualFileSystem`. They compare what paths
  lead to before and after a call, that is the results of whole walks through two trees,
  while the proofs need of a walk only that it ends at a node that is there.
- The properties of `NodeFs`: `GlobIsExact` compares recursive functions on patterns;
  `ObjectsKeepTheirFile`, `DescriptorsHaveHolders` and `ChunksAreInTheFile` need the
  lemmas about the calls with the numbers of open files beside them (section 6).

## 5. What is abstracted, and what is left out

- Frames, masks, fragments and pings are messages. In `HostRequest` a head has the lines
  that its readers tell apart, and limits count lines and bytes of the instance. X.509
  and keys are the number of the call that made them.
- A crash is the end of the process, not of the machine: what was renamed into place
  stays. The wall clock is not set back. A process id that is used again, and with it a
  clash of temporary file names, is left out.
- `probe_gateway` and the probe in `restore_gateway` are left out: they read.
- In `certificates_crash` a single thread refreshes, in `certificates_race` nothing
  fails. What the shell pins is the authority (`Challenge::ServerTrust`); the Windows
  shell compares the leaf with the one in memory (`certificates.rs:764-774`), which a
  rotation changes under a client that is connecting.
- In `VirtualFileSystem` a name is a string of the instance and a byte is 0 or 1; a
  path's length in characters, times, and the devices `zero` and `random` (which act
  like `full` and `null`) are left out. `access`, `stat`, `lstat`, `read_dir`, `walk`
  and `read_link` change nothing and are left out there; `NodeFs` has them. Errors of
  reading the bundle from the disk (`fs/vfs/bundle.rs:11-38`) and the overflow of the
  descriptor counter (`fs/vfs/virtual_filesystem.rs:594-597`) do not happen. With three
  nodes a copy of a directory with a file of the worker's in it never fits, so that
  `CopyIsSeparate` sees files, links and empty directories copied.
- In `NodeFs` arguments have the right types; encodings, views on buffers, statistics,
  times and modes are left out, as are file watchers, which the bindings do not have.
  Reads and writes go on where the last one ended: position arguments are left out. A
  file has at most one byte, so that a second chunk is one that does not fit. Nested
  braces and `**` at the end of a pattern are in the operators and not among the
  patterns of the run.
- In `HostRequest` a line contains no line feed, on which the relay and the proxy
  disagree; the codings in front of `chunked` in a list are part of what is in the
  chunks, as for the code.
- In `DevRelay` a client does not shut one direction alone (the proxy never does); in
  `DevSession` `try_wait` does not fail, `taskkill` of Windows and helpers that an app
  starts are left out. A client without the token has a head of one piece.
- Packaging, configuration, foreign interfaces, shells, plugins, the command-line tool's
  builds and `xtask` keep no concurrent or persistent state of the runtime; they are
  listed in `PROJECT.json` with reasons.

## 6. Plan

1. Proofs about `NodeFs` on top of those about `FileTree`'s calls: `DescriptorsHaveHolders`
   and `ObjectsKeepTheirFile`.
2. `WebStreams`: the queue, readers, pull and cancel of `streams/web.mjs`;
   chunks in order, no read forgotten, composed with `ResponseStream` as its source.
3. An abstract bounded channel that `WebSocketBridge` and `ResponseStream` both
   implement.

Each question keeps one run: where a new module asks a question that an older run
asks too, the new run takes its place.
