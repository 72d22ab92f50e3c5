--------------------------------- MODULE NodeFs --------------------------------
(***************************************************************************)
(* node:fs as a worker of one request sees it (tokamak/src/fs/node): the   *)
(* calls on paths and descriptors, each in three forms (the Sync one, the  *)
(* one with a callback and the one that returns a promise); file handles,  *)
(* streams and directories, which hold descriptors or entries; and the     *)
(* microtasks that bring the answers.                                      *)
(*                                                                         *)
(* Arguments are well-typed.  Encodings, the views on a buffer and the     *)
(* wording of errors are left out.                                         *)
(***************************************************************************)
EXTENDS FileTree

CONSTANTS
  Inputs,     \* paths as a worker writes them: [absolute, parts]
  OpenFlags,  \* flags: [first, plus, exclusive]
  Spelling,   \* the characters of a name
  Meaning,    \* globs, and the flat patterns that each stands for
  PathCalls,  \* calls on paths: [op, form, input, ...]
  FileCalls,  \* calls on descriptors and of FileHandles: [op, ...]
  MaxObjects, \* bound: handles and streams; a directory or a glob counts twice
  MaxNodes,   \* bound: nodes that a worker has made
  MaxGiven,   \* bound: descriptors given out
  MaxAnswers  \* bound: answers on their way that bring a descriptor

ASSUME NodeFsBounds == {MaxNodes, MaxGiven, MaxAnswers, MaxObjects} \subseteq Nat

VARIABLES
  vfs,      \* the request's file system
  objects,  \* the JavaScript objects that were made
  answers,  \* microtasks: for each the descriptor it brings to the worker
  numbers,  \* descriptors that the worker was given as numbers
  lost,     \* descriptors that nobody was given (for the properties)
  last      \* the last call: [by, error] (for the properties)

vars == <<vfs, objects, answers, numbers, lost, last>>

-----------------------------------------------------------------------------
(* Arguments. *)

\* A relative path is one of the bundle; what is left must be below a root.
path(input) ==
  LET parts == absolute_components(IF input.absolute THEN input.parts
                                   ELSE <<"bundle">> \o input.parts)
  IN IF parts.error # Ok THEN Missing("RangeError")
     ELSE IF parts.value = <<>> \/ parts.value[1] \in {"bundle", "tmp", "dev"} THEN parts
     ELSE Missing("ENOENT")

\* "r", "w" or "a", with "+" and "x".
open_options(flags) ==
  (IF flags.first = "r" \/ flags.plus THEN {"read"} ELSE {})
  \cup (IF flags.first # "r" \/ flags.plus THEN {"write"} ELSE {})
  \cup (IF flags.first = "a" THEN {"append"} ELSE {})
  \cup (IF flags.first # "r" \/ flags.exclusive THEN {"create"} ELSE {})
  \cup (IF flags.exclusive THEN {"exclusive"} ELSE {})
  \cup (IF flags.first = "w" THEN {"truncate"} ELSE {})

\* A number is a descriptor, also where it is not one that was given out.
descriptor_value(d) == IF d >= 0 THEN Found(d) ELSE Missing("RangeError")

\* The part of a buffer of some size that a read or a write is about.
Whole == -1  \* no length given: to the end
window(size, w) ==
  LET length == IF w.length = Whole THEN size - w.offset ELSE w.length
  IN IF w.offset > size \/ length > size - w.offset THEN Missing("RangeError")
     ELSE Found([first |-> w.offset + 1, last |-> w.offset + length])

\* -1 is the file's own position.
position_value(position) ==
  IF position < Here THEN Missing("RangeError") ELSE Found(position)

write_arguments(data, w) ==
  LET range == window(Len(data), w)
  IN IF range.error # Ok THEN range
     ELSE Found(SubSeq(data, range.value.first, range.value.last))

-----------------------------------------------------------------------------
(* Calls on what is open. *)

IsOpen(fs, d)   == d \in DOMAIN fs.open
NodeOf(fs, d)   == fs.nodes[fs.open[d].node]
fstat_sync(fs, d) == IF IsOpen(fs, d) THEN Return(fs, 0) ELSE Throw(fs, "EBADF")

\* From the start, whatever the position.
read_descriptor(fs, d) ==
  IF IsOpen(fs, d) THEN read(fs, d, Size(NodeOf(fs, d)), 0) ELSE Throw(fs, "EBADF")

write_descriptor(fs, d, data, append) ==
  LET cut == ftruncate(fs, d, 0)
  IN IF append
     THEN IF IsOpen(fs, d) THEN write(fs, d, data, Size(NodeOf(fs, d))) ELSE Throw(fs, "EBADF")
     ELSE Then(cut, write(cut.fs, d, data, 0))

read_sync(fs, d, size, w, position) ==
  LET range == window(size, w)
  IN Try(fs, range, Try(fs, position_value(position),
       read(fs, d, range.value.last + 1 - range.value.first, position)))

write_sync(fs, d, data, w, position) ==
  LET bytes == write_arguments(data, w)
  IN Try(fs, bytes, Try(fs, position_value(position), write(fs, d, bytes.value, position)))

readv_sync(fs, d, sizes, position) ==
  Try(fs, position_value(position), readv(fs, d, sizes, position))
writev_sync(fs, d, buffers, position) ==
  Try(fs, position_value(position), writev(fs, d, buffers, position))

-----------------------------------------------------------------------------
(* Calls on paths.  Each first makes a path of its input. *)

open_sync(fs, input, flags) ==
  Try(fs, path(input), open(fs, path(input).value, open_options(flags)))

stat_sync(fs, input, follow) ==
  Try(fs, path(input),
      LET n == resolve(fs.nodes, path(input).value, follow) IN Try(fs, n, Return(fs, n.value)))

\* chmod, chown and utimes, and lchmod and so on: modes, owners and times are
\* not kept.
touch_sync(fs, input, follow) == Then(stat_sync(fs, input, follow), Return(fs, 0))

\* All that is wrong is FALSE, but for an input that is no path.
exists_sync(fs, input) ==
  Try(fs, path(input), Return(fs, stat_sync(fs, input, TRUE).error = Ok))

\* Nothing can be executed; links and the bundle cannot be written.
access_sync(fs, input, mode) ==
  LET n == stat_sync(fs, input, TRUE)
      Writable(node) == IF node.kind = "directory" THEN node.writable ELSE node.kind # "bundled"
  IN Try(fs, path(input),
         IF "execute" \in mode THEN Throw(fs, "ENOENT")
         ELSE Then(n, IF "write" \in mode /\ ~Writable(fs.nodes[n.value])
                      THEN Throw(fs, "ENOENT") ELSE Return(fs, 0)))

read_file_sync(fs, input) ==
  LET n == stat_sync(fs, input, TRUE)
  IN Then(n, IF IsDirectory(fs.nodes, n.value) THEN Throw(fs, "EISDIR")
             ELSE Return(fs, ReadNode(fs.nodes[n.value], 0, Size(fs.nodes[n.value]))))
open_as_blob(fs, input) == read_file_sync(fs, input)

\* A bug: an error of the write leaves the file open.
write_file_sync_leaking(fs, input, data, flags) ==
  LET opened == open_sync(fs, input, flags)
      wrote  == write(opened.fs, opened.value, data, Here)
  IN Then(opened, Then(wrote, close(wrote.fs, opened.value)))

\* Opened, written and closed, whether or not the write fails.
write_file_sync(fs, input, data, flags) ==
  LET opened == open_sync(fs, input, flags)
      wrote  == write(opened.fs, opened.value, data, Here)
  IN Then(opened, [wrote EXCEPT !.fs = close(wrote.fs, opened.value).fs])

append_file_sync(fs, input, data) ==
  Try(fs, path(input), write_file(fs, path(input).value, data, TRUE))
truncate_sync(fs, input, size) ==
  Try(fs, path(input), truncate(fs, path(input).value, size))
unlink_sync(fs, input) == Try(fs, path(input), remove_file(fs, path(input).value))
rm_sync(fs, input, options) ==
  Try(fs, path(input),
      remove(fs, path(input).value, "recursive" \in options, "force" \in options))
rmdir_sync(fs, input, options) ==
  Try(fs, path(input), remove_directory(fs, path(input).value, "recursive" \in options))
mkdir_sync(fs, input, options) ==
  Try(fs, path(input), mkdir(fs, path(input).value, "recursive" \in options))
mkdtemp_sync(fs, input, name) ==
  Try(fs, path(input), make_temp_dir(fs, path(input).value, name))
symlink_sync(fs, target, input) ==
  Try(fs, path(input), symlink(fs, target, path(input).value))
read_link_sync(fs, input) ==
  LET n == stat_sync(fs, input, FALSE)
  IN Then(n, IF fs.nodes[n.value].kind = "symlink" THEN n ELSE Throw(fs, "EINVAL"))
realpath_sync(fs, input) ==
  LET real == realpath(fs.nodes, path(input).value)
  IN Try(fs, path(input), Try(fs, real, Return(fs, real.value)))

\* Calls on two paths look at both before they do anything.
Both(fs, from, to, outcome) == Try(fs, path(from), Try(fs, path(to), outcome))
rename_sync(fs, from, to) == Both(fs, from, to, rename(fs, path(from).value, path(to).value))
link_sync(fs, from, to)   == Both(fs, from, to, link(fs, path(from).value, path(to).value))
copy_file_sync(fs, from, to, exclusive) ==
  Both(fs, from, to, copy_file_with_options(fs, path(from).value, path(to).value, exclusive))
\* cp forces unless it is told not to.
cp_sync(fs, from, to, options, forced) ==
  Both(fs, from, to, copy(fs, path(from).value, path(to).value,
                          options \cup IF forced THEN {"force"} ELSE {}))

-----------------------------------------------------------------------------
(* Directories and globs.  The order of entries is left out. *)

\* The paths below a directory, from there; links are not followed.
walk(fs, dir) ==
  LET below[N \in SUBSET (Seq(STRING) \X Int)] ==
        LET next == UNION {{<<Append(e[1], name), fs.nodes[e[2]].entries[name]>> :
                              name \in DOMAIN fs.nodes[e[2]].entries} :
                            e \in {x \in N : IsDirectory(fs.nodes, x[2])}}
        IN IF next = {} THEN {} ELSE {e[1] : e \in next} \cup below[next]
  IN below[{<<<<>>, dir>>}]

\* The entries of a directory, as paths from there; a link at the end of the
\* path is followed.
readdir_sync(fs, input, options) ==
  LET n == stat_sync(fs, input, TRUE)
  IN Then(n, IF ~IsDirectory(fs.nodes, n.value) THEN Throw(fs, "ENOTDIR")
             ELSE Return(fs, IF "recursive" \in options THEN walk(fs, n.value)
                             ELSE {<<name>> : name \in DOMAIN fs.nodes[n.value].entries}))

opendir_sync(fs, input, options) == readdir_sync(fs, input, options)

Split(text, separator) ==
  LET from[i \in 1 .. Len(text) + 1] ==
        IF i > Len(text) THEN <<<<>>>>
        ELSE IF text[i] = separator THEN <<<<>>>> \o from[i + 1]
        ELSE <<<<text[i]>> \o Head(from[i + 1])>> \o Tail(from[i + 1])
  IN from[1]

\* The first group, up to the first brace that closes, and then what is left.
expand_braces(pattern) ==
  LET expand[s \in Seq(STRING)] ==
        LET opening == {i \in DOMAIN s : s[i] = "{"}
            closing == {i \in DOMAIN s : s[i] = "}" /\ i > Min(opening)}
            parts   == Split(SubSeq(s, Min(opening) + 1, Min(closing) - 1), ",")
        IN IF opening = {} \/ closing = {} THEN {s}
           ELSE UNION {expand[SubSeq(s, 1, Min(opening) - 1) \o part
                              \o SubSeq(s, Min(closing) + 1, Len(s))] : part \in Range(parts)}
  IN expand[pattern]

\* The ends of the prefixes of value that what was read of the pattern matches.
segment_match(pattern, value) ==
  LET Step(states, c) ==
        IF c = "*" THEN {j \in 0 .. Len(value) : \E i \in states : i <= j}
        ELSE {j \in 1 .. Len(value) : j - 1 \in states /\ c \in {"?", value[j]}}
  IN Len(value) \in FoldLeft(Step, {0}, pattern)

\* A bug: ** stands for one part at least.
glob_segments_some(pattern, parts) ==
  LET match[i \in 1 .. Len(pattern) + 1, j \in 1 .. Len(parts) + 1] ==
        IF i > Len(pattern) THEN j > Len(parts)
        ELSE IF j > Len(parts) THEN FALSE
        ELSE IF pattern[i] = <<"*", "*">> THEN match[i + 1, j + 1] \/ match[i, j + 1]
        ELSE segment_match(pattern[i], parts[j]) /\ match[i + 1, j + 1]
  IN match[1, 1]

glob_segments(pattern, parts) ==
  LET match[i \in 1 .. Len(pattern) + 1, j \in 1 .. Len(parts) + 1] ==
        IF i > Len(pattern) THEN j > Len(parts)
        ELSE IF pattern[i] = <<"*", "*">>
        THEN match[i + 1, j] \/ (j <= Len(parts) /\ match[i, j + 1])
        ELSE /\ j <= Len(parts)
             /\ segment_match(pattern[i], parts[j])
             /\ match[i + 1, j + 1]
  IN match[1, 1]

Segments(pattern) == SelectSeq(Split(pattern, "/"), LAMBDA segment : segment # <<>>)
Spelled(rel)      == [i \in DOMAIN rel |-> Spelling[rel[i]]]

glob_match(pattern, rel) == glob_segments(Segments(pattern), Spelled(rel))

\* What a pattern matches below a directory.
glob_matches(fs, dir, pattern) ==
  {rel \in walk(fs, dir) : \E expanded \in expand_braces(pattern) : glob_match(expanded, rel)}

\* exclude is a set of patterns, whose braces mean themselves.
glob_excluded(exclude, rel) == \E pattern \in exclude : glob_match(pattern, rel)

glob_sync(fs, input, pattern, exclude) ==
  LET n == stat_sync(fs, input, TRUE)
  IN Then(n, IF ~IsDirectory(fs.nodes, n.value) THEN Throw(fs, "ENOTDIR")
             ELSE Return(fs, {rel \in glob_matches(fs, n.value, pattern) :
                                ~glob_excluded(exclude, rel)}))

-----------------------------------------------------------------------------
(* A call does its work at once, in each of its forms.                     *)

\* The *Sync functions that the others call: what is only looked up ...
Look(fs, c) ==
  CASE c.op = "access"   -> access_sync(fs, c.input, c.mode)
    [] c.op = "exists"   -> exists_sync(fs, c.input)
    [] c.op = "touch"    -> touch_sync(fs, c.input, c.follow)
    [] c.op = "stat"     -> stat_sync(fs, c.input, c.follow)
    [] c.op = "readlink" -> read_link_sync(fs, c.input)
    [] c.op = "realpath" -> realpath_sync(fs, c.input)
    [] c.op = "readdir"  -> readdir_sync(fs, c.input, c.options)
    [] c.op = "glob"     -> glob_sync(fs, c.input, c.pattern, c.exclude)
    [] c.op = "readFile" -> read_file_sync(fs, c.input)
    [] c.op = "blob"     -> open_as_blob(fs, c.input)

\* ... and what is changed.
Change(fs, c) ==
  CASE c.op = "open"       -> open_sync(fs, c.input, c.flags)
    [] c.op = "writeFile"  -> write_file_sync(fs, c.input, c.data, c.flags)
    [] c.op = "appendFile" -> append_file_sync(fs, c.input, c.data)
    [] c.op = "truncate"   -> truncate_sync(fs, c.input, c.size)
    [] c.op = "unlink"     -> unlink_sync(fs, c.input)
    [] c.op = "rm"         -> rm_sync(fs, c.input, c.options)
    [] c.op = "rmdir"      -> rmdir_sync(fs, c.input, c.options)
    [] c.op = "mkdir"      -> mkdir_sync(fs, c.input, c.options)
    [] c.op = "mkdtemp"    -> mkdtemp_sync(fs, c.input, c.name)
    [] c.op = "symlink"    -> symlink_sync(fs, c.target, c.input)
    [] c.op = "rename"     -> rename_sync(fs, c.input, c.to)
    [] c.op = "link"       -> link_sync(fs, c.input, c.to)
    [] c.op = "copyFile"   -> copy_file_sync(fs, c.input, c.to, c.exclusive)
    [] c.op = "cp"         -> cp_sync(fs, c.input, c.to, c.options, c.forced)

Looks == {"access", "exists", "touch", "stat", "readlink", "realpath", "readdir", "glob",
          "readFile", "blob"}
Perform(fs, c) == IF c.op \in Looks THEN Look(fs, c) ELSE Change(fs, c)

\* The same for calls on a descriptor, also those of a FileHandle; fchmod,
\* fsync and so on are fstat.
PerformOn(fs, d, c) ==
  CASE c.op = "close"     -> close(fs, d)
    [] c.op = "fstat"     -> fstat_sync(fs, d)
    [] c.op = "ftruncate" -> ftruncate(fs, d, c.size)
    [] c.op = "read"      -> read_sync(fs, d, c.size, c.window, c.position)
    [] c.op = "readv"     -> readv_sync(fs, d, c.sizes, c.position)
    [] c.op = "readFile"  -> read_descriptor(fs, d)
    [] c.op = "write"     -> write_sync(fs, d, c.data, c.window, c.position)
    [] c.op = "writev"    -> writev_sync(fs, d, c.buffers, c.position)
    [] c.op = "writeFile" -> write_descriptor(fs, d, c.data, c.append)

-----------------------------------------------------------------------------
(* What a call does to the worker's world.  "by" is the object that was    *)
(* called, or Nobody.                                                      *)

Nobody == 0
NoFd   == 0  \* a descriptor that was taken
NoNode == 1000000

\* Bounds, also on how far a device is read.
Fits(fs) == /\ Cardinality(DOMAIN fs.nodes \ DOMAIN NewFileSystem.nodes) <= MaxNodes
            /\ fs.next <= 3 + MaxGiven
            /\ \A d \in DOMAIN fs.open : fs.open[d].position <= MaxSize

\* Somebody else changed a writer's file or moved its position, or it is gone.
Disturbed(by, o, w, fs) ==
  \/ w.node \notin DOMAIN fs.nodes
  \/ /\ o # by
     /\ \/ fs.nodes[w.node] # vfs.nodes[w.node]
        \/ w.fd \in DOMAIN vfs.open /\ (w.fd \notin DOMAIN fs.open \/ fs.open[w.fd] # vfs.open[w.fd])

Watched(by, objs, fs) ==
  [o \in DOMAIN objs |->
     IF objs[o].kind = "writer" /\ objs[o].alone /\ Disturbed(by, o, objs[o], fs)
     THEN [objs[o] EXCEPT !.alone = FALSE, !.due = <<>>] ELSE objs[o]]

\* vfs_call: the change, and an error as an exception.
Effect(by, outcome, objs) ==
  LET After(fs) == /\ Fits(fs)
                   /\ vfs' = fs
                   /\ objects' = Watched(by, objs, fs)
                   /\ last' = [by |-> by, error |-> outcome.error]
  IN After(IF outcome.fs = vfs THEN vfs ELSE Drop(outcome.fs))

\* The answer, with the descriptors it brings: returned ...
Returned(brought) == /\ numbers' = numbers \cup brought
                     /\ UNCHANGED answers

\* ... or handed to a microtask, which waits for its turn (callback_values).
\* One that brings no descriptor changes nothing when it comes, and is left out.
CalledBack(brought) ==
  IF brought = {} THEN UNCHANGED <<numbers, answers>>
  ELSE /\ Len(answers) < MaxAnswers
       /\ answers' = Append(answers, brought)
       /\ UNCHANGED numbers

\* ... or a settled promise.  None of these brings a number.
Promised == UNCHANGED <<numbers, answers>>

\* The first microtask of the queue.
Microtask == /\ answers # <<>>
             /\ answers' = Tail(answers)
             /\ numbers' = numbers \cup Head(answers)
             /\ last' = [by |-> Nobody, error |-> Ok]
             /\ UNCHANGED <<vfs, objects, lost>>

\* Descriptors that the worker can name: numbers, and the fd of a stream.  What
\* it does with that of a handle is what the handle's methods do.
Known == numbers \cup {objects[o].fd : o \in {x \in DOMAIN objects : objects[x].kind = "writer"}}

\* fs.f(path ...), in the form of the call (for fs.promises.open and the glob
\* of fs.promises see below).
Ask(c) ==
  LET Answer(brought) == CASE c.form = "sync"     -> Returned(brought)
                           [] c.form = "callback" -> CalledBack(brought)
                           [] c.form = "promise"  -> Promised
      Do(outcome) ==
        /\ Effect(Nobody, outcome, objects)
        /\ Answer(IF c.op = "open" /\ outcome.error = Ok THEN {outcome.value} ELSE {})
  IN /\ Do(Perform(vfs, c))
     /\ UNCHANGED lost

\* fs.f(fd ...).
AskOn(d, c) ==
  LET number == descriptor_value(d)
  IN /\ Effect(Nobody, Try(vfs, number, PerformOn(vfs, number.value, c)), objects)
     /\ UNCHANGED <<numbers, answers, lost>>

-----------------------------------------------------------------------------
(* FileHandle. *)

New == Len(objects) + 1
Room(size) ==
  size + Len(objects) + Cardinality({o \in DOMAIN objects : objects[o].kind \in {"dir", "glob"}})
    <= MaxObjects

\* fs.promises.open: an error is thrown, not a rejection.
OpenHandle(input, flags) ==
  LET Handle(opened) == [kind |-> "handle", fd |-> opened.value,
                         node |-> opened.fs.open[opened.value].node]
      Do(opened) ==
        IF opened.error = Ok
        THEN Effect(New, opened, Append(objects, Handle(opened)))
        ELSE Effect(Nobody, opened, objects)
  IN /\ Room(1)
     /\ Do(open_sync(vfs, input, flags))
     /\ UNCHANGED <<numbers, answers, lost>>

\* A method that works on the file: closed, or an error, is thrown.
HandleCall(o, c) ==
  /\ objects[o].kind = "handle"
  /\ Effect(o, IF objects[o].fd = NoFd THEN Throw(vfs, "EBADF")
               ELSE PerformOn(vfs, objects[o].fd, c), objects)
  /\ UNCHANGED <<numbers, answers, lost>>

\* close: the descriptor is taken first, so that a second close does nothing.
HandleClose(o) ==
  /\ objects[o].kind = "handle"
  /\ Effect(o, IF objects[o].fd = NoFd THEN Return(vfs, 0) ELSE close(vfs, objects[o].fd),
            [objects EXCEPT ![o].fd = NoFd])
  /\ UNCHANGED <<numbers, answers, lost>>

-----------------------------------------------------------------------------
(* Streams. *)

\* createReadStream(path): all is read at once.  A file that cannot be read
\* stays open.
ReadStreamOf(input, flags) ==
  LET opened == open_sync(vfs, input, flags)
      got    == read_descriptor(opened.fs, opened.value)
  IN /\ IF opened.error # Ok \/ got.error # Ok
        THEN Effect(Nobody, Then(opened, got), objects)
        ELSE Effect(Nobody, close(got.fs, opened.value), objects)
     /\ lost' = lost \cup IF opened.error = Ok /\ got.error # Ok THEN {opened.value} ELSE {}
     /\ UNCHANGED <<numbers, answers>>

\* createReadStream with a descriptor, which is not the stream's own.
ReadStreamOn(d) ==
  /\ Effect(Nobody, read_descriptor(vfs, d), objects)
  /\ UNCHANGED <<numbers, answers, lost>>

Writer(fs, d, owns, alone) ==
  [kind |-> "writer", fd |-> d, owns |-> owns,
   node |-> IF IsOpen(fs, d) THEN fs.open[d].node ELSE NoNode, alone |-> alone,
   due |-> IF alone THEN NodeOf(fs, d).data ELSE <<>>]

\* createWriteStream(path), with "w" unless flags are given.
WriteStreamOf(input, flags) ==
  LET Alone(opened) == flags.first # "r" /\ NodeOf(opened.fs, opened.value).kind = "file"
      Do(opened) ==
        IF opened.error = Ok
        THEN Effect(New, opened, Append(objects,
               Writer(opened.fs, opened.value, TRUE, Alone(opened))))
        ELSE Effect(Nobody, opened, objects)
  IN /\ Room(1)
     /\ Do(open_sync(vfs, input, flags))
     /\ UNCHANGED <<numbers, answers, lost>>

\* createWriteStream with a descriptor.
WriteStreamOn(d) ==
  /\ Room(1)
  /\ Effect(New, Return(vfs, 0), Append(objects, Writer(vfs, d, FALSE, FALSE)))
  /\ UNCHANGED <<numbers, answers, lost>>

\* handle.createReadStream, createWriteStream and readableWebStream.
HandleStream(o) ==
  /\ objects[o].kind = "handle"
  /\ IF objects[o].fd = NoFd
     THEN /\ Effect(o, Throw(vfs, "EBADF"), objects)
          /\ UNCHANGED <<numbers, answers, lost>>
     ELSE ReadStreamOn(objects[o].fd) \/ WriteStreamOn(objects[o].fd)

\* A bug: every chunk is written where the stream began.
written_at_start(fs, w, chunk) == write(fs, w.fd, chunk, 0)

written(fs, w, chunk) == write(fs, w.fd, chunk, Here)

\* The chunks of a stream differ, so that their order shows.
Chunk(w) == <<(Len(w.due) + 1) % 2>>

\* stream.write.  The error of the write goes to the callback, or nowhere.
StreamWrite(o) ==
  LET w == objects[o]
      Do(outcome) ==
        Effect(o, outcome,
               IF outcome.error = Ok
               THEN [objects EXCEPT ![o].due = IF w.alone THEN @ \o Chunk(w) ELSE @]
               ELSE objects)
  IN /\ w.kind = "writer"
     /\ IF w.fd = NoFd THEN Do(Throw(vfs, "EBADF")) ELSE Do(written(vfs, w, Chunk(w)))
     /\ UNCHANGED <<numbers, answers, lost>>

\* What is the stream's own is taken and closed.
Finish(o, closed) ==
  LET w == objects[o]
  IN /\ w.kind = "writer"
     /\ IF w.owns /\ w.fd # NoFd
        THEN Effect(o, closed, [objects EXCEPT ![o].fd = NoFd])
        ELSE Effect(o, Return(vfs, 0), objects)
     /\ UNCHANGED <<numbers, answers, lost>>

\* end without a chunk (with one it is a write before).
StreamEnd(o) == Finish(o, close(vfs, objects[o].fd))

\* destroy: an error is nobody's.
StreamDestroy(o) == Finish(o, Return(close(vfs, objects[o].fd).fs, 0))

-----------------------------------------------------------------------------
(* Dir, and the iterator of fs.promises.glob: a snapshot of the entries,   *)
(* read one after the other.                                               *)

\* opendir, in each of its forms.
OpenDir(input, options) ==
  LET Do(listed) ==
        Effect(New, listed,
               IF listed.error # Ok THEN objects
               ELSE Append(objects, [kind |-> "dir", open |-> TRUE, entries |-> listed.value]))
  IN /\ Room(2)
     /\ Do(opendir_sync(vfs, input, options))
     /\ UNCHANGED <<numbers, answers, lost>>

\* fs.promises.glob.  An error is thrown, not a rejection.
GlobIterator(c) ==
  LET Do(found) ==
        Effect(New, found, IF found.error # Ok THEN objects
                           ELSE Append(objects, [kind |-> "glob", entries |-> found.value]))
  IN /\ Room(2)
     /\ Do(glob_sync(vfs, c.input, c.pattern, c.exclude))
     /\ UNCHANGED <<numbers, answers, lost>>

\* read, in each of its forms, and next of the iterator of a Dir.
DirRead(o) ==
  LET dir == objects[o]
  IN /\ dir.kind = "dir"
     /\ \/ ~dir.open /\ Effect(o, Throw(vfs, "ERR_DIR_CLOSED"), objects)
        \/ dir.open /\ dir.entries = {} /\ Effect(o, Return(vfs, 0), objects)
        \/ /\ dir.open
           /\ \E name \in dir.entries :
                Effect(o, Return(vfs, name), [objects EXCEPT ![o].entries = @ \ {name}])
     /\ UNCHANGED <<numbers, answers, lost>>

GlobNext(o) ==
  LET found == objects[o]
  IN /\ found.kind = "glob"
     /\ \/ found.entries = {} /\ Effect(o, Return(vfs, 0), objects)
        \/ \E name \in found.entries :
             Effect(o, Return(vfs, name), [objects EXCEPT ![o].entries = @ \ {name}])
     /\ UNCHANGED <<numbers, answers, lost>>

DirClose(o) ==
  /\ objects[o].kind = "dir"
  /\ Effect(o, IF objects[o].open THEN Return(vfs, 0) ELSE Throw(vfs, "ERR_DIR_CLOSED"),
            [objects EXCEPT ![o].open = FALSE, ![o].entries = {}])
  /\ UNCHANGED <<numbers, answers, lost>>

-----------------------------------------------------------------------------
Init == /\ vfs = NewFileSystem
        /\ objects = <<>>
        /\ answers = <<>>
        /\ numbers = {}
        /\ lost = {}
        /\ last = [by |-> Nobody, error |-> Ok]

OnPaths ==
  \/ \E c \in PathCalls :
       \/ c.op # "opendir" /\ (c.op = "glob" => c.form # "promise") /\ Ask(c)
       \/ c.op = "opendir" /\ OpenDir(c.input, c.options)
       \/ c.op = "glob" /\ c.form = "promise" /\ GlobIterator(c)
  \/ \E input \in Inputs :
       \E flags \in OpenFlags :
         \/ OpenHandle(input, flags)
         \/ ReadStreamOf(input, flags)
         \/ WriteStreamOf(input, flags)

OnDescriptors ==
  \E d \in Known :
    \/ \E c \in FileCalls : AskOn(d, c)
    \/ ReadStreamOn(d)
    \/ WriteStreamOn(d)

OnObjects ==
  \E o \in DOMAIN objects :
    \/ \E c \in FileCalls : c.op # "close" /\ HandleCall(o, c)
    \/ HandleClose(o)
    \/ HandleStream(o)
    \/ StreamWrite(o)
    \/ StreamEnd(o)
    \/ StreamDestroy(o)
    \/ DirRead(o)
    \/ DirClose(o)
    \/ GlobNext(o)

Next == Microtask \/ OnPaths \/ OnDescriptors \/ OnObjects
Spec == Init /\ [][Next]_vars

-----------------------------------------------------------------------------
(* Properties. *)

\* Every open descriptor is somebody's: the worker was given the number, an
\* object will close it, or an answer on its way brings it.  Calls that open a
\* file for themselves leave nothing open, also when they fail half-way
\* (write_file_sync, append_file_sync, copy_file_sync, create_read_stream);
\* only createReadStream of a file that it cannot read does (lost).
DescriptorsHaveHolders ==
  \A d \in DOMAIN vfs.open \ lost :
    \/ d \in numbers
    \/ \E i \in DOMAIN answers : d \in answers[i]
    \/ \E o \in DOMAIN objects : /\ objects[o].kind \in {"handle", "writer"}
                                 /\ objects[o].fd = d
                                 /\ objects[o].kind = "writer" => objects[o].owns

\* A stream or a handle works on the file it was made for and on no other,
\* though what it holds is a number that the worker may close behind its back
\* and have given to another file (file_handle_object, stream_write).
ObjectsKeepTheirFile ==
  [][last'.by \in DOMAIN objects /\ objects[last'.by].kind \notin {"dir", "glob"} =>
       \A n \in DOMAIN vfs.nodes \cap DOMAIN vfs'.nodes :
         n # objects[last'.by].node => vfs'.nodes[n] = vfs.nodes[n]]_vars

\* As long as nobody else touches the file of a write stream, the file holds
\* what it held when the stream was made ("w" has cut it by then) and every
\* chunk whose write did not fail, in order, also after the stream has ended
\* (create_write_stream, stream_write, stream_end).
ChunksAreInTheFile ==
  \A o \in DOMAIN objects :
    objects[o].kind = "writer" /\ objects[o].alone =>
      vfs.nodes[objects[o].node].data = objects[o].due

\* What a pattern of segments means: a number of parts for each **, one part
\* for each other segment, and for a segment a number of characters for each *.
Cuts(m, n) == {cut \in [0 .. m -> 0 .. n] :
                 cut[0] = 0 /\ cut[m] = n /\ \A i \in 1 .. m : cut[i - 1] <= cut[i]}
Takes(pattern, text, cut, Many, Fits1(_, _)) ==
  \A i \in DOMAIN pattern :
    pattern[i] # Many => /\ cut[i] = cut[i - 1] + 1
                         /\ Fits1(pattern[i], text[cut[i]])
MeansPart(segment, part) ==
  \E cut \in Cuts(Len(segment), Len(part)) :
    Takes(segment, part, cut, "*", LAMBDA c, d : c \in {"?", d})
Means(pattern, parts) ==
  \E cut \in Cuts(Len(pattern), Len(parts)) :
    Takes(pattern, parts, cut, <<"*", "*">>, MeansPart)

\* glob finds what its pattern means, for each of Meaning's patterns with the
\* patterns without braces that it stands for (glob_matches, expand_braces,
\* glob_segments, segment_match).
GlobIsExact ==
  \A pattern \in DOMAIN Meaning :
    glob_matches(vfs, -1, pattern) =
      {rel \in walk(vfs, -1) : \E flat \in Meaning[pattern] : Means(flat, Spelled(rel))}
================================================================================
