--------------------------------- MODULE FileTree -------------------------------
(***************************************************************************)
(* The file system that a request owns (tokamak/src/fs/vfs), as a value: a *)
(* tree below a root that nobody may write, with the app's bundle and the  *)
(* devices read-only and /tmp empty at first; hard links to files,         *)
(* symbolic links, and open files.                                         *)
(*                                                                         *)
(* A Node of the code is shared by reference: here it has a number, and    *)
(* entries and open files refer to it.  What nothing refers to is dropped. *)
(*                                                                         *)
(* The calls of the public interface bear the names they have in the code. *)
(* Each takes a file system to an outcome, which is an error or Ok, what   *)
(* the file system has become by then, and a value.  A path is the         *)
(* sequence of its parts; a byte is 0 or 1.                                *)
(***************************************************************************)
EXTENDS Integers, FiniteSets, SequencesExt, FiniteSetsExt

CONSTANTS
  MaxSize,     \* MAX_FILE_SIZE
  MaxSegments, \* MAX_PATH_SEGMENTS
  MaxLinks     \* symbolic links that are followed on a path

ASSUME FileLimits == /\ {MaxSize, MaxSegments, MaxLinks} \subseteq Nat
                     /\ MaxSize > 0

\* A function with one more element, or another value for it, and without one.
With(f, x, value) == [y \in DOMAIN f \cup {x} |-> IF y = x THEN value ELSE f[y]]
Without(f, x)     == [y \in DOMAIN f \ {x} |-> f[y]]
Empty             == [x \in {} |-> x]

-----------------------------------------------------------------------------
(* Outcomes. *)

Ok == "ok"

\* What is found out without a change: Result<T>.
Found(value)  == [error |-> Ok, value |-> value]
Missing(code) == [error |-> code, value |-> 0]

\* What a call has done.
Return(fs, value) == [error |-> Ok, fs |-> fs, value |-> value]
Throw(fs, code)   == [error |-> code, fs |-> fs, value |-> 0]

\* The ? operator of Rust: an error is handed on, and the rest is not looked at.
Try(fs, found, rest) == IF found.error = Ok THEN rest ELSE Throw(fs, found.error)
Then(outcome, rest)  == IF outcome.error = Ok THEN rest ELSE outcome

-----------------------------------------------------------------------------
(* Nodes. *)

Directory(writable, entries) ==
  [kind |-> "directory", writable |-> writable, entries |-> entries]
MemoryFile(data) == [kind |-> "file", data |-> data]
Symlink(target)  == [kind |-> "symlink", target |-> target]

\* A new filesystem.  Root, the bundle with one file, and two of the devices:
\* zero reads like full and writes like null, random refuses like full.
Root == 0
NewFileSystem ==
  [nodes |-> [n \in -6 .. 0 |->
     CASE n = 0  -> Directory(FALSE, [name \in {"tmp", "bundle", "dev"} |->
                      CASE name = "tmp" -> -1 [] name = "bundle" -> -2 [] name = "dev" -> -3])
       [] n = -1 -> Directory(TRUE, Empty)
       [] n = -2 -> Directory(FALSE, [name \in {"x"} |-> -4])
       [] n = -3 -> Directory(FALSE, [name \in {"null", "full"} |->
                      IF name = "null" THEN -5 ELSE -6])
       [] n = -4 -> [kind |-> "bundled", data |-> <<1>>]
       [] n = -5 -> [kind |-> "null"]
       [] n = -6 -> [kind |-> "full"]],
   open |-> Empty,
   next |-> 3]
Fixed == {0, -2, -3, -4, -5, -6}

\* Literals are strings: the provers are not told so by the language.
ASSUME LiteralNames == {"tmp", "bundle", "dev", "x", "null", "full"} \subseteq STRING

IsDirectory(nodes, n) == nodes[n].kind = "directory"
IsDevice(nodes, n)    == nodes[n].kind \in {"null", "full"}
Has(nodes, dir, name) == name \in DOMAIN nodes[dir].entries
IsEmpty(nodes, dir)   == DOMAIN nodes[dir].entries = {}

insert(fs, dir, name, n) ==
  IF ~fs.nodes[dir].writable THEN Throw(fs, "EROFS")
  ELSE IF Has(fs.nodes, dir, name) THEN Throw(fs, "EEXIST")
  ELSE Return([fs EXCEPT !.nodes[dir].entries = With(@, name, n)], n)

\* Directory::remove, which drops what the entry referred to.
unlink(fs, dir, name) ==
  IF ~fs.nodes[dir].writable THEN Throw(fs, "EROFS")
  ELSE Return([fs EXCEPT !.nodes[dir].entries = Without(@, name)], 0)

\* A number that is free, for a node.
Fresh(used)   == Min(1 .. Cardinality(used) + 1 \ used)
Add(fs, node) == [fs EXCEPT !.nodes = With(@, Fresh(DOMAIN @), node)]
create(fs, dir, name, node) ==
  insert(Add(fs, node), dir, name, Fresh(DOMAIN fs.nodes))

\* The nodes that something refers to.
Referred(fs) ==
  LET Children(N) ==
        UNION {Range(fs.nodes[n].entries) : n \in {m \in N : IsDirectory(fs.nodes, m)}}
      below[N \in SUBSET DOMAIN fs.nodes] ==
        IF Children(N) \subseteq N THEN N ELSE below[N \cup Children(N)]
  IN below[{Root} \cup {fs.open[d].node : d \in DOMAIN fs.open}]
Drop(fs) == [fs EXCEPT !.nodes = Restrict(@, Referred(fs))]

-----------------------------------------------------------------------------
(* Paths. *)

apply_components(base, parts) ==
  LET Apply(r, part) ==
        IF r.error # Ok \/ part = "." THEN r
        ELSE IF part = ".."
             THEN IF r.value = <<>> THEN Missing("EINVAL") ELSE Found(Front(r.value))
        ELSE IF Len(r.value) >= MaxSegments THEN Missing("EINVAL")
        ELSE Found(Append(r.value, part))
      upto[k \in 0 .. Len(parts)] == IF k = 0 THEN Found(base) ELSE Apply(upto[k - 1], parts[k])
  IN upto[Len(parts)]

absolute_components(path) == apply_components(<<>>, path)
target_components(base, target) ==
  apply_components(IF target.absolute THEN <<>> ELSE base, target.parts)

\* Where a path leads, and that place's path without links.  A link starts
\* the walk again at the root.
resolve_components(nodes, components, follow) ==
  LET Cursor == [at : DOMAIN nodes, resolved : Seq(STRING), pending : Seq(STRING),
                 links : 0 .. MaxLinks]
      walk[c \in Cursor] ==
        IF c.pending = <<>> THEN Found([node |-> c.at, path |-> c.resolved])
        ELSE IF ~IsDirectory(nodes, c.at) THEN Missing("ENOTDIR")
        ELSE IF ~Has(nodes, c.at, Head(c.pending)) THEN Missing("ENOENT")
        ELSE
          LET child == nodes[c.at].entries[Head(c.pending)]
          IN IF nodes[child].kind # "symlink" \/ (~follow /\ Len(c.pending) = 1)
             THEN walk[[at |-> child, resolved |-> Append(c.resolved, Head(c.pending)),
                        pending |-> Tail(c.pending), links |-> c.links]]
             ELSE IF c.links = MaxLinks THEN Missing("ELOOP")
             ELSE LET target == target_components(c.resolved, nodes[child].target)
                  IN IF target.error # Ok THEN target
                     ELSE walk[[at |-> Root, resolved |-> <<>>,
                                pending |-> target.value \o Tail(c.pending),
                                links |-> c.links + 1]]
  IN walk[[at |-> Root, resolved |-> <<>>, pending |-> components, links |-> 0]]

resolve_with_path(nodes, path, follow) ==
  LET components == absolute_components(path)
  IN IF components.error # Ok THEN components
     ELSE resolve_components(nodes, components.value, follow)

resolve(nodes, path, follow) ==
  LET Node(r) == IF r.error # Ok THEN r ELSE Found(r.value.node)
  IN Node(resolve_with_path(nodes, path, follow))

realpath(nodes, path) ==
  LET r == resolve_with_path(nodes, path, TRUE)
  IN IF r.error # Ok THEN r ELSE Found(r.value.path)

\* The directory that holds the last part of a path, and that part.
parent(nodes, path) ==
  LET Above(components, dir) ==
        IF components.error # Ok THEN components
        ELSE IF components.value = <<>> THEN Missing("EINVAL")
        ELSE IF dir.error # Ok THEN dir
        ELSE IF ~IsDirectory(nodes, dir.value.node) THEN Missing("ENOTDIR")
        ELSE Found([dir |-> dir.value.node, name |-> Last(components.value)])
      Of(components) ==
        Above(components, resolve_components(nodes, Front(components.value), TRUE))
  IN Of(absolute_components(path))

-----------------------------------------------------------------------------
(* Bytes of a file. *)

Size(node) == IF node.kind \in {"file", "bundled"} THEN Len(node.data) ELSE 0

ReadNode(node, offset, length) ==
  CASE node.kind = "null" -> <<>>
    [] node.kind = "full" -> [i \in 1 .. length |-> 0]
    [] OTHER -> SubSeq(node.data, offset + 1, Min({offset + length, Len(node.data)}))

Resized(data, size) == [i \in 1 .. size |-> IF i <= Len(data) THEN data[i] ELSE 0]

\* resize and write give the node as it is afterwards.
resize(node, size) ==
  CASE node.kind = "directory" -> Missing("EISDIR")
    [] node.kind = "bundled"   -> Missing("EROFS")
    [] node.kind = "null"      -> Found(node)
    [] node.kind = "full"      -> Missing("EPERM")
    [] node.kind = "file" -> IF size > MaxSize THEN Missing("EFBIG")
                             ELSE Found([node EXCEPT !.data = Resized(@, size)])

write_memory(node, offset, input, append) ==
  LET start == IF append THEN Len(node.data) ELSE offset
      end   == start + Len(input)
      long  == Resized(node.data, Max({end, Len(node.data)}))
  IN IF end > MaxSize THEN Missing("EFBIG")
     ELSE Found([node EXCEPT !.data =
            [i \in DOMAIN long |-> IF i \in start + 1 .. end THEN input[i - start] ELSE long[i]]])

WriteNode(node, offset, input, append) ==
  CASE node.kind = "bundled" -> Missing("EROFS")
    [] node.kind = "null"    -> Found(node)
    [] node.kind = "full"    -> Missing("ENOSPC")
    [] node.kind = "file"    -> write_memory(node, offset, input, append)

SetNode(fs, n, changed) ==
  Try(fs, changed, Return([fs EXCEPT !.nodes[n] = changed.value], 0))

-----------------------------------------------------------------------------
(* Calls that work on names. *)

mkdir_recursive(fs, components) ==
  LET Step(f, at, name) ==
        IF ~Has(f.nodes, at, name) THEN create(f, at, name, Directory(TRUE, Empty))
        ELSE IF IsDirectory(f.nodes, f.nodes[at].entries[name])
             THEN Return(f, f.nodes[at].entries[name])
        ELSE Throw(f, "ENOTDIR")
      Descend(outcome, name) == Then(outcome, Step(outcome.fs, outcome.value, name))
  IN FoldLeft(Descend, Return(fs, Root), components)

mkdir(fs, path, recursive) ==
  LET Make(components, there, p) ==
        IF components.error # Ok THEN Throw(fs, components.error)
        ELSE IF components.value = <<>>
        THEN IF recursive THEN Return(fs, 0) ELSE Throw(fs, "EEXIST")
        ELSE IF there.error = Ok
        THEN IF recursive /\ IsDirectory(fs.nodes, there.value)
             THEN Return(fs, 0) ELSE Throw(fs, "EEXIST")
        ELSE IF there.error # "ENOENT" THEN Throw(fs, there.error)
        ELSE IF recursive THEN mkdir_recursive(fs, components.value)
        ELSE Try(fs, p, create(fs, p.value.dir, p.value.name, Directory(TRUE, Empty)))
  IN Make(absolute_components(path), resolve(fs.nodes, path, TRUE), parent(fs.nodes, path))

remove(fs, path, recursive, force) ==
  LET From(p) ==
        LET node == fs.nodes[p.value.dir].entries[p.value.name]
        IN IF force /\ p.error = "ENOENT" THEN Return(fs, 0)
           ELSE IF p.error # Ok THEN Throw(fs, p.error)
           ELSE IF ~Has(fs.nodes, p.value.dir, p.value.name)
           THEN IF force THEN Return(fs, 0) ELSE Throw(fs, "ENOENT")
           ELSE IF IsDirectory(fs.nodes, node) /\ ~recursive /\ ~IsEmpty(fs.nodes, node)
           THEN Throw(fs, "ENOTEMPTY")
           ELSE unlink(fs, p.value.dir, p.value.name)
  IN From(parent(fs.nodes, path))

remove_directory(fs, path, recursive) ==
  LET n == resolve(fs.nodes, path, TRUE)
  IN Try(fs, n, IF ~IsDirectory(fs.nodes, n.value) THEN Throw(fs, "ENOTDIR")
                ELSE remove(fs, path, recursive, FALSE))

remove_file(fs, path) ==
  LET n == resolve(fs.nodes, path, FALSE)
  IN Try(fs, n, IF IsDirectory(fs.nodes, n.value) THEN Throw(fs, "EISDIR")
                ELSE remove(fs, path, FALSE, FALSE))

\* A bug: the source stays where it is.
MoveKeepsSource(fs, source, destination) ==
  LET node == fs.nodes[source.dir].entries[source.name]
  IN insert(fs, destination.dir, destination.name, node)

\* A bug: the source is removed before the destination is looked at.
MoveRemovesFirst(fs, source, destination) ==
  LET node    == fs.nodes[source.dir].entries[source.name]
      removed == unlink(fs, source.dir, source.name)
  IN Then(removed, insert(removed.fs, destination.dir, destination.name, node))

\* A bug: a directory at the destination is replaced with all that it holds.
MoveOverAnything(fs, source, destination) ==
  LET node     == fs.nodes[source.dir].entries[source.name]
      cleared  == unlink(fs, destination.dir, destination.name)
      inserted == insert(cleared.fs, destination.dir, destination.name, node)
  IN Then(cleared, Then(inserted, unlink(inserted.fs, source.dir, source.name)))

\* The part of rename after it has found both parents: clear the destination,
\* insert, remove the source.
Move(fs, source, destination) ==
  LET node == fs.nodes[source.dir].entries[source.name]
      old  == fs.nodes[destination.dir].entries[destination.name]
      cleared ==
        IF ~Has(fs.nodes, destination.dir, destination.name) THEN Return(fs, 0)
        ELSE IF IsDirectory(fs.nodes, old) /\ ~IsEmpty(fs.nodes, old)
        THEN Throw(fs, "ENOTEMPTY")
        ELSE unlink(fs, destination.dir, destination.name)
      inserted == insert(cleared.fs, destination.dir, destination.name, node)
  IN Then(cleared, Then(inserted, unlink(inserted.fs, source.dir, source.name)))

rename(fs, from, to) ==
  LET Between(f, t, source, destination) ==
        IF f.error # Ok THEN Throw(fs, f.error)
        ELSE IF t.error # Ok THEN Throw(fs, t.error)
        ELSE IF f.value = t.value THEN Return(fs, 0)
        ELSE IF IsPrefix(f.value, t.value) THEN Throw(fs, "EINVAL")
        ELSE IF source.error # Ok THEN Throw(fs, source.error)
        ELSE IF ~Has(fs.nodes, source.value.dir, source.value.name) THEN Throw(fs, "ENOENT")
        ELSE IF destination.error # Ok THEN Throw(fs, destination.error)
        ELSE IF ~fs.nodes[source.value.dir].writable \/ ~fs.nodes[destination.value.dir].writable
        THEN Throw(fs, "EROFS")
        ELSE Move(fs, source.value, destination.value)
  IN Between(absolute_components(from), absolute_components(to),
             parent(fs.nodes, from), parent(fs.nodes, to))

link(fs, existing, new) ==
  LET Give(source, p) ==
        IF source.error # Ok THEN Throw(fs, source.error)
        ELSE IF fs.nodes[source.value].kind \notin {"file", "bundled"} THEN Throw(fs, "ENOSYS")
        ELSE IF p.error # Ok THEN Throw(fs, p.error)
        ELSE IF Has(fs.nodes, p.value.dir, p.value.name) THEN Throw(fs, "EEXIST")
        ELSE insert(fs, p.value.dir, p.value.name, source.value)
  IN Give(resolve(fs.nodes, existing, TRUE), parent(fs.nodes, new))

symlink(fs, target, path) ==
  LET In(p) == IF p.error # Ok THEN Throw(fs, p.error)
               ELSE IF Has(fs.nodes, p.value.dir, p.value.name) THEN Throw(fs, "EEXIST")
               ELSE create(fs, p.value.dir, p.value.name, Symlink(target))
  IN In(parent(fs.nodes, path))

\* With a name that is not taken: the code tries until it has one.
make_temp_dir(fs, prefix, candidate) ==
  LET In(p) == IF p.error # Ok THEN Throw(fs, p.error)
               ELSE IF Has(fs.nodes, p.value.dir, candidate) THEN Throw(fs, "EEXIST")
               ELSE create(fs, p.value.dir, candidate, Directory(TRUE, Empty))
  IN In(parent(fs.nodes, prefix))

-----------------------------------------------------------------------------
(* copy. *)

\* The places of the tree that copy_node goes through, as paths below source,
\* and what it finds at each: these and those one level below.  A link that is
\* followed may lead up again.
further(nodes, at, path, dereference) ==
  LET dirs == {rel \in DOMAIN at : at[rel].error = Ok /\ IsDirectory(nodes, at[rel].value)}
      Entries(rel) == nodes[at[rel].value].entries
      Child(rel, child) ==
        IF nodes[child].kind = "symlink" /\ dereference
        THEN resolve(nodes, path \o rel, TRUE) ELSE Found(child)
      inside == UNION {{Append(dir, name) : name \in DOMAIN Entries(dir)} : dir \in dirs}
  IN [rel \in DOMAIN at \cup inside |->
        IF rel \in DOMAIN at THEN at[rel] ELSE Child(rel, Entries(Front(rel))[Last(rel)])]

\* All of them: a walk that goes on for longer has met a path with too many
\* links or segments.
found_at(nodes, source, path, dereference) ==
  LET below[k \in Nat] == IF k = 0 THEN [rel \in {<<>>} |-> Found(source)]
                          ELSE further(nodes, below[k - 1], path, dereference)
  IN below[MaxSegments + Cardinality(DOMAIN nodes)]

\* A bug: of a file, the reference is cloned and not the bytes.
copy_node_shared(fs, source, path, dereference) ==
  IF fs.nodes[source].kind = "file" THEN Return(fs, source) ELSE Throw(fs, "ENOSYS")

\* A copy of the whole tree, not yet inserted.
copy_node(fs, source, path, dereference) ==
  LET nodes == fs.nodes
      Number(rel, ids) == With(ids, rel, Fresh(DOMAIN nodes \cup Range(ids)))
      Copied(node, rel, id) ==
        CASE node.kind = "directory" ->
               Directory(TRUE, [name \in DOMAIN node.entries |-> id[Append(rel, name)]])
          [] node.kind = "symlink" -> node
          [] OTHER -> MemoryFile(node.data)
      Made(at, id) ==
        [fs EXCEPT !.nodes = [n \in DOMAIN @ \cup Range(id) |->
           IF n \in DOMAIN @ THEN @[n]
           ELSE LET rel == CHOOSE r \in DOMAIN id : id[r] = n
                IN Copied(nodes[at[rel].value], rel, id)]]
      Ready(at, id) == Return(Made(at, id), id[<<>>])
      From(at) ==
        IF \/ \E rel \in DOMAIN at : at[rel].error # Ok \/ IsDevice(nodes, at[rel].value)
           \/ DOMAIN further(nodes, at, path, dereference) # DOMAIN at
        THEN Throw(fs, "EFAULT")
        ELSE Ready(at, FoldSet(Number, Empty, DOMAIN at))
  IN From(found_at(nodes, source, path, dereference))

\* Into a directory that exists, or in the place of what has the name.
copy_target(nodes, from, to, source) ==
  LET destination == resolve(nodes, to, TRUE)
      components  == absolute_components(from)
      above       == parent(nodes, to)
  IN IF destination.error = Ok /\ IsDirectory(nodes, destination.value)
     THEN IF components.error # Ok THEN components
          ELSE IF components.value = <<>> THEN Missing("EINVAL")
          ELSE Found(Append(to, Last(components.value)))
     ELSE IF IsDirectory(nodes, source) /\ destination.error # Ok /\ above.error # Ok
     THEN above
     ELSE Found(to)

copy(fs, from, to, options) ==
  LET Replace(copied, p, exists) ==
        LET cleared == IF exists THEN unlink(copied.fs, p.value.dir, p.value.name)
                       ELSE Return(copied.fs, 0)
        IN Then(copied, Try(copied.fs, p,
             Then(cleared, insert(cleared.fs, p.value.dir, p.value.name, copied.value))))
      To(source, target, exists) ==
        IF target.error # Ok THEN Throw(fs, target.error)
        ELSE IF exists /\ "error_on_exist" \in options THEN Throw(fs, "EEXIST")
        ELSE IF exists /\ "force" \notin options THEN Return(fs, 0)
        ELSE IF IsDirectory(fs.nodes, source.value) /\ "recursive" \notin options
        THEN Throw(fs, "EISDIR")
        ELSE Replace(copy_node(fs, source.value, from, "dereference" \in options),
                     parent(fs.nodes, target.value), exists)
      At(source, target) ==
        Try(fs, source, To(source, target, resolve(fs.nodes, target.value, FALSE).error = Ok))
      From(source) == At(source, copy_target(fs.nodes, from, to, source.value))
  IN From(resolve(fs.nodes, from, "dereference" \in options))

-----------------------------------------------------------------------------
(* Calls that work on open files.  A number that is closed does not come   *)
(* again.                                                                  *)

Here == -1  \* no position given: the file's own

OpenFile(n, options) ==
  [node |-> n, position |-> 0, options |-> options \cap {"read", "write", "append"}]

\* A bug: a number that is closed is given out again.
NumberedAgain(fs, n, options) ==
  LET d == Min(3 .. 3 + Cardinality(DOMAIN fs.open) \ DOMAIN fs.open)
  IN Return([fs EXCEPT !.next = Max({@, d + 1}), !.open = With(@, d, OpenFile(n, options))], d)

Numbered(fs, n, options) ==
  Return([fs EXCEPT !.next = @ + 1, !.open = With(@, fs.next, OpenFile(n, options))], fs.next)

open(fs, path, options) ==
  LET Find(there, p) ==
        IF there.error = Ok THEN Return(fs, there.value)
        ELSE IF there.error # "ENOENT" \/ "create" \notin options THEN Throw(fs, there.error)
        ELSE IF p.error # Ok THEN Throw(fs, p.error)
        ELSE IF Has(fs.nodes, p.value.dir, p.value.name) THEN Throw(fs, "ENOENT")
        ELSE create(fs, p.value.dir, p.value.name, MemoryFile(<<>>))
      Truncated(f, n) == IF {"truncate", "write"} \subseteq options
                         THEN SetNode(f, n, resize(f.nodes[n], 0)) ELSE Return(f, 0)
      Check(f, n, cut, existed) ==
        IF existed /\ "exclusive" \in options THEN Throw(f, "EEXIST")
        ELSE IF IsDirectory(f.nodes, n) THEN Throw(f, "EISDIR")
        ELSE IF "write" \in options /\ f.nodes[n].kind = "bundled" THEN Throw(f, "EROFS")
        ELSE Then(cut, Numbered(cut.fs, n, options))
      At(there, found) ==
        Then(found, Check(found.fs, found.value, Truncated(found.fs, found.value),
                          there.error = Ok))
      From(there) == At(there, Find(there, parent(fs.nodes, path)))
  IN IF options \cap {"read", "write"} = {} THEN Throw(fs, "EINVAL")
     ELSE From(resolve(fs.nodes, path, TRUE))

close(fs, d) ==
  IF d \notin DOMAIN fs.open THEN Throw(fs, "EBADF")
  ELSE Return([fs EXCEPT !.open = Without(@, d)], 0)

read(fs, d, length, position) ==
  LET file   == fs.open[d]
      offset == IF position = Here THEN file.position ELSE position
      bytes  == ReadNode(fs.nodes[file.node], offset, length)
  IN IF d \notin DOMAIN fs.open THEN Throw(fs, "EBADF")
     ELSE IF "read" \notin file.options THEN Throw(fs, "EPERM")
     ELSE Return(IF position # Here THEN fs
                 ELSE [fs EXCEPT !.open[d].position = offset + Len(bytes)], bytes)

write(fs, d, input, position) ==
  LET file    == fs.open[d]
      append  == "append" \in file.options
      offset  == IF position = Here THEN file.position ELSE position
      Advance(f) ==
        IF position # Here THEN f
        ELSE [f EXCEPT !.open[d].position =
                IF append THEN Size(f.nodes[file.node]) ELSE offset + Len(input)]
      Written(outcome) == Then(outcome, Return(Advance(outcome.fs), Len(input)))
  IN IF d \notin DOMAIN fs.open THEN Throw(fs, "EBADF")
     ELSE IF "write" \notin file.options THEN Throw(fs, "EPERM")
     ELSE Written(SetNode(fs, file.node,
                          WriteNode(fs.nodes[file.node], offset, input, append)))

\* Buffer after buffer; an error ends it, and what was written stays.
writev(fs, d, inputs, position) ==
  LET Plus(done, wrote) == Then(wrote, Return(wrote.fs, done + wrote.value))
      Each(outcome, input) ==
        Then(outcome, Plus(outcome.value,
          write(outcome.fs, d, input, IF position = Here THEN Here ELSE position + outcome.value)))
  IN IF d \notin DOMAIN fs.open THEN Throw(fs, "EBADF")
     ELSE FoldLeft(Each, Return(fs, 0), inputs)

readv(fs, d, lengths, position) ==
  LET Plus(done, got) == Then(got, Return(got.fs, done \o got.value))
      Each(outcome, length) ==
        Then(outcome, Plus(outcome.value,
          read(outcome.fs, d, length,
               IF position = Here THEN Here ELSE position + Len(outcome.value))))
  IN IF d \notin DOMAIN fs.open THEN Throw(fs, "EBADF")
     ELSE FoldLeft(Each, Return(fs, <<>>), lengths)

truncate(fs, path, size) ==
  LET n == resolve(fs.nodes, path, TRUE)
  IN Try(fs, n, SetNode(fs, n.value, resize(fs.nodes[n.value], size)))

ftruncate(fs, d, size) ==
  IF d \notin DOMAIN fs.open THEN Throw(fs, "EBADF")
  ELSE IF "write" \notin fs.open[d].options THEN Throw(fs, "EPERM")
  ELSE SetNode(fs, fs.open[d].node, resize(fs.nodes[fs.open[d].node], size))

\* write_file: the file is truncated, or made, before it is written, and the
\* descriptor is closed in either case.
write_file(fs, path, input, append) ==
  LET Closed(written, d) == [written EXCEPT !.fs = close(written.fs, d).fs]
      Into(opened) ==
        Then(opened, Closed(write(opened.fs, opened.value, input, Here), opened.value))
  IN Into(open(fs, path, {"write", "create"}
                             \cup IF append THEN {"append"} ELSE {"truncate"}))

copy_file_with_options(fs, from, to, exclusive) ==
  LET From(n) ==
        IF n.error # Ok THEN Throw(fs, n.error)
        ELSE IF IsDirectory(fs.nodes, n.value) THEN Throw(fs, "EISDIR")
        ELSE IF exclusive /\ resolve(fs.nodes, to, TRUE).error = Ok THEN Throw(fs, "EEXIST")
        ELSE write_file(fs, to, ReadNode(fs.nodes[n.value], 0, Size(fs.nodes[n.value])), FALSE)
  IN From(resolve(fs.nodes, from, TRUE))

================================================================================
