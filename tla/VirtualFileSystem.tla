--------------------------- MODULE VirtualFileSystem ---------------------------
(***************************************************************************)
(* Every sequence of calls of a worker on its file system.                 *)
(***************************************************************************)
EXTENDS FileTree

CONSTANTS
  Paths,       \* paths that a worker uses
  Targets,     \* targets of symbolic links: [absolute, parts]
  TempNames,   \* names that make_temp_dir may come up with
  Sizes,       \* sizes that files are cut or extended to
  Flags,       \* ways to open a file: sets of options
  CopyOptions, \* ways to copy: sets of options
  MaxNodes,    \* bound: nodes that a worker has made
  MaxOpen      \* bound: files open at once

ASSUME SizesNat    == Sizes \subseteq Nat
ASSUME FileBounds  == {MaxNodes, MaxOpen} \subseteq Nat
ASSUME PathShape   == Paths \subseteq Seq(STRING) /\ TempNames \subseteq STRING
ASSUME TargetShape == Targets \subseteq [absolute : BOOLEAN, parts : Seq(STRING)]
ASSUME OptionNames ==
  /\ \A f \in Flags : f \subseteq {"read", "write", "append", "create", "exclusive", "truncate"}
  /\ \A o \in CopyOptions : o \subseteq {"recursive", "force", "error_on_exist", "dereference"}

VARIABLES
  vfs,  \* [nodes, open, next]
  last  \* the last call and its error, for the properties

vars == <<vfs, last>>

-----------------------------------------------------------------------------
(* The calls of a worker, one after the other.  An error is thrown to it,  *)
(* and what the call did by then stays.                                    *)

\* Bounds: nodes that were made, open files, and how far a device is read.
Fits(fs) == /\ Cardinality(DOMAIN fs.nodes \ DOMAIN NewFileSystem.nodes) <= MaxNodes
            /\ Cardinality(DOMAIN fs.open) <= MaxOpen
            /\ \A d \in DOMAIN fs.open : fs.open[d].position <= MaxSize

Call(call, outcome) ==
  LET after == IF outcome.fs = vfs THEN vfs ELSE Drop(outcome.fs)
  IN /\ Fits(after)
     /\ vfs' = after
     /\ last' = [call |-> call, error |-> outcome.error]

Init == /\ vfs = NewFileSystem
        /\ last = [call |-> <<"new">>, error |-> Ok]

Mkdir(p, recursive) == Call(<<"mkdir", p>>, mkdir(vfs, p, recursive))
RemoveEntry(p, recursive, force) == Call(<<"remove", p>>, remove(vfs, p, recursive, force))
RemoveDirectory(p, recursive) == Call(<<"remove", p>>, remove_directory(vfs, p, recursive))
RemoveFile(p) == Call(<<"remove", p>>, remove_file(vfs, p))
Rename(from, to) == Call(<<"rename", from, to>>, rename(vfs, from, to))
Link(existing, new) == Call(<<"link", existing, new>>, link(vfs, existing, new))
MakeSymlink(target, p) == Call(<<"symlink", p>>, symlink(vfs, target, p))
MakeTempDir(p, candidate) == Call(<<"mkdir", p>>, make_temp_dir(vfs, p, candidate))
Copy(from, to, options) == Call(<<"copy", from, to, options>>, copy(vfs, from, to, options))
CopyFile(from, to, exclusive) ==
  Call(<<"write_file", to>>, copy_file_with_options(vfs, from, to, exclusive))
WriteFile(p, append) == Call(<<"write_file", p>>, write_file(vfs, p, <<1>>, append))
Truncate(p, size) == Call(<<"truncate", p>>, truncate(vfs, p, size))
Open(p, options) == Call(<<"open", p>>, open(vfs, p, options))
Close(d) == Call(<<"close">>, close(vfs, d))
Read(d, position) == Call(<<"read">>, read(vfs, d, 1, position))
Readv(d, position) == Call(<<"readv">>, readv(vfs, d, <<1, 1>>, position))
Write(d, position) == Call(<<"write">>, write(vfs, d, <<1>>, position))
Writev(d, position) == Call(<<"writev">>, writev(vfs, d, <<<<1>>, <<1>>>>, position))
Ftruncate(d, size) == Call(<<"truncate">>, ftruncate(vfs, d, size))

ByName ==
  \E p \in Paths :
    \/ \E recursive \in BOOLEAN :
         \/ Mkdir(p, recursive)
         \/ RemoveDirectory(p, recursive)
         \/ \E force \in BOOLEAN : RemoveEntry(p, recursive, force)
    \/ RemoveFile(p)
    \/ \E target \in Targets : MakeSymlink(target, p)
    \/ \E candidate \in TempNames : MakeTempDir(p, candidate)
    \/ \E append \in BOOLEAN : WriteFile(p, append)
    \/ \E size \in Sizes : Truncate(p, size)
    \/ \E options \in Flags : Open(p, options)
    \/ \E to \in Paths :
         \/ Rename(p, to)
         \/ Link(p, to)
         \/ \E exclusive \in BOOLEAN : CopyFile(p, to, exclusive)
         \/ \E options \in CopyOptions : Copy(p, to, options)

NoFile == 0  \* a number that no open file has
ByDescriptor ==
  \E d \in IF vfs.open = <<>> THEN {NoFile} ELSE DOMAIN vfs.open :
    \/ Close(d)
    \/ \E size \in Sizes : Ftruncate(d, size)
    \/ \E position \in {Here} \cup 0 .. MaxSize :
         \/ Read(d, position)
         \/ Readv(d, position)
         \/ Write(d, position)
         \/ Writev(d, position)

Next == ByName \/ ByDescriptor
Spec == Init /\ [][Next]_vars

-----------------------------------------------------------------------------
(* Properties. *)

EntriesTo(nodes, n) ==
  UNION {{<<dir, name>> : name \in {m \in DOMAIN nodes[dir].entries : nodes[dir].entries[m] = n}} :
           dir \in {m \in DOMAIN nodes : IsDirectory(nodes, m)}}

\* Every node has the shape of its kind, entries and open files refer to nodes
\* that are there, and what is open for writing is not the bundle's.
TypeOK ==
  /\ \A n \in DOMAIN vfs.nodes :
       LET node == vfs.nodes[n]
       IN \/ /\ node.kind = "directory"
             /\ node.writable \in BOOLEAN
             /\ Range(node.entries) \subseteq DOMAIN vfs.nodes
          \/ /\ node.kind \in {"file", "bundled"}
             /\ node.data \in Seq({0, 1})
             /\ Len(node.data) <= MaxSize
          \/ node.kind = "symlink" /\ node.target \in Targets
          \/ node.kind \in {"null", "full"}
  /\ \A d \in DOMAIN vfs.open :
       /\ vfs.open[d].node \in DOMAIN vfs.nodes
       /\ vfs.open[d].position \in Nat
       /\ "write" \in vfs.open[d].options => vfs.nodes[vfs.open[d].node].kind # "bundled"

\* The names form a tree: whatever was made, renamed, copied and removed, a
\* directory or a symbolic link is in one directory under one name, and the
\* root in none.  (Directory::insert and remove are called in pairs by rename,
\* copy and link; nothing in the code looks at the tree as a whole.)
TreeOK ==
  \A n \in DOMAIN vfs.nodes :
    vfs.nodes[n].kind \in {"directory", "symlink"} =>
      Cardinality(EntriesTo(vfs.nodes, n)) = IF n = Root THEN 0 ELSE 1

\* The root, the bundle and the devices are what they were at first, through
\* links and open files too ("keeps_tmp_mutable_and_bundle_readonly", vfs/tests.rs).
ReadOnlyKept == \A n \in Fixed : vfs.nodes[n] = NewFileSystem.nodes[n]

\* After any calls the file system is well formed: no node that can be reached
\* has the wrong shape, is larger than it may be or is twice in the tree, and what
\* is read-only is as it was.  (What can no longer be reached is gone from vfs:
\* whether a call may lose it is NothingIsLost.)
FileSystemOK == TypeOK /\ TreeOK /\ ReadOnlyKept

\* A call that throws has done nothing, though it may insert and remove before
\* it throws.  write_file and writev are left out: they keep what they did.
FailedCallsChangeNothing ==
  [][last'.error # Ok /\ last'.call[1] \notin {"write_file", "writev"} => vfs' = vfs]_vars

\* A rename that succeeds: the node is at the new path and no longer at the
\* old entry, and nothing but what was at the new path is gone.
Moved(from, to) ==
  LET source == parent(vfs.nodes, from).value
      target == parent(vfs.nodes, to).value
      node   == vfs.nodes[source.dir].entries[source.name]
      old    == resolve(vfs.nodes, to, FALSE)
  IN /\ <<target.dir, target.name>> \in EntriesTo(vfs'.nodes, node)
     /\ <<source.dir, source.name>> \notin EntriesTo(vfs'.nodes, node)
     /\ DOMAIN vfs.nodes \ DOMAIN vfs'.nodes \subseteq IF old.error = Ok THEN {old.value} ELSE {}

Renamed == /\ last'.call[1] = "rename" /\ last'.error = Ok
           /\ absolute_components(last'.call[2]) # absolute_components(last'.call[3])

\* rename compares paths, not entries: links can lead two paths to the same
\* entry, or into what is renamed.
Beneath(nodes, n) ==
  LET below[k \in Nat] ==
        IF k = 0 THEN {n}
        ELSE LET N == below[k - 1]
             IN N \cup UNION {Range(nodes[m].entries) : m \in {x \in N : IsDirectory(nodes, x)}}
  IN below[MaxNodes]
Aliased(from, to) ==
  LET destination == parent(vfs.nodes, to)
  IN \/ parent(vfs.nodes, from) = destination
     \/ destination.value.dir \in Beneath(vfs.nodes, resolve(vfs.nodes, from, FALSE).value)

\* "Rename a node within the virtual filesystem." (virtual_filesystem.rs):
\* every rename that succeeds does so.
RenameKeepsNode == [][Renamed => Moved(last'.call[2], last'.call[3])]_vars

\* What a call that succeeds gives up: the tree it removes, the entry it replaces,
\* the tree it copies over, the file that is no longer open.  A rename whose paths
\* links make one gives up what it renames, too: see RenameKeepsNode.
NodeAt(path) ==
  LET found == resolve(vfs.nodes, path, FALSE)
  IN IF found.error = Ok THEN {found.value} ELSE {}
NodesBelow(path) == UNION {Beneath(vfs.nodes, n) : n \in NodeAt(path)}
CopyTarget(from, to, options) ==
  copy_target(vfs.nodes, from, to,
              resolve(vfs.nodes, from, "dereference" \in options).value).value
GivenUp(call) ==
  CASE call[1] = "remove" -> NodesBelow(call[2])
    [] call[1] = "rename" -> NodeAt(call[3]) \cup
         IF Aliased(call[2], call[3]) THEN NodesBelow(call[2]) ELSE {}
    [] call[1] = "copy"   -> NodesBelow(CopyTarget(call[2], call[3], call[4]))
    [] call[1] = "close"  -> {vfs.open[d].node : d \in DOMAIN vfs.open \ DOMAIN vfs'.open}
    [] OTHER -> {}

\* Whatever can be reached can be reached after any call, until a call is told to
\* remove or replace it: none loses a file or a tree on the way, though rename and
\* copy clear the destination before they insert, and rename removes the source
\* after it has inserted.
NothingIsLost ==
  [][LET lost == DOMAIN vfs.nodes \ DOMAIN vfs'.nodes
     IN lost # {} => last'.error = Ok /\ lost \subseteq GivenUp(last'.call)]_vars

\* What is below a node: for each path the kind, and the bytes or the target.
Tree(nodes, n) ==
  LET below[k \in Nat] ==
        IF k = 0 THEN {<<<<>>, n>>}
        ELSE LET N == below[k - 1]
             IN N \cup UNION {{<<Append(e[1], name), nodes[e[2]].entries[name]>> :
                                 name \in DOMAIN nodes[e[2]].entries} :
                               e \in {x \in N : IsDirectory(nodes, x[2])}}
      Content(node) == CASE node.kind = "directory" -> "directory"
                         [] node.kind = "symlink" -> node.target
                         [] OTHER -> node.data
  IN {<<e[1], Content(nodes[e[2]])>> : e \in below[MaxNodes + 2]}

Copied == last'.call[1] = "copy" /\ last'.error = Ok /\ vfs' # vfs
SameTree(from, to, options) ==
  LET source == resolve(vfs.nodes, from, "dereference" \in options).value
      target == copy_target(vfs.nodes, from, to, source).value
      entry  == parent(vfs.nodes, target).value
  IN Tree(vfs'.nodes, vfs'.nodes[entry.dir].entries[entry.name]) = Tree(vfs.nodes, source)

\* A copy that does something leaves a tree equal to the source's (if links are
\* kept as links), and no old node has got another name: the copy shares no
\* bytes with its source, though entries hold nodes by reference.
CopyIsSeparate ==
  [][Copied =>
       /\ \A n \in DOMAIN vfs.nodes \cap DOMAIN vfs'.nodes :
            EntriesTo(vfs'.nodes, n) \subseteq EntriesTo(vfs.nodes, n)
       /\ "dereference" \notin last'.call[4] =>
            SameTree(last'.call[2], last'.call[3], last'.call[4])]_vars

================================================================================
