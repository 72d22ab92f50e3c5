----------------------- MODULE VirtualFileSystem_proofs -----------------------
(***************************************************************************)
(* Proofs about VirtualFileSystem: after any calls of a worker its file    *)
(* system is well-formed and a tree with the read-only part it began with  *)
(* (FileSystemOK), and a call that throws has done nothing, but for the    *)
(* two that keep what they did (FailedCallsChangeNothing).                 *)
(*                                                                         *)
(* The invariant, Good, has three parts.  Fine: nodes and open files have  *)
(* their shapes and refer to nodes that are there.  Unique: no two entries *)
(* refer to the same directory or link.  And all nodes are referred to.    *)
(* Within a call the last does not hold, since nodes are made before they  *)
(* are entered and removed before they are dropped; Drop, at the end of    *)
(* each call, brings it back (DropIsGood).                                 *)
(*                                                                         *)
(* A call is Lawful if it leaves what is Fine and Unique and, where it     *)
(* throws, added at most nodes that nothing refers to (Extends): Drop then *)
(* gives back what was there (DropUndoes).  There is one lemma for each    *)
(* call, named after it.  They rest on what path resolution finds          *)
(* (WalkReaches, ParentIsThere), by induction on the links left and the    *)
(* names left, and on the walk of copy_node (FoundAtWalks, CopiedIsMade).  *)
(***************************************************************************)
EXTENDS VirtualFileSystem, FiniteSetTheorems, SequenceTheorems, WellFoundedInduction, TLAPS

-----------------------------------------------------------------------------
(* Induction and recursion over sets.  (The library's theorems take an     *)
(* operator, which the provers cannot instantiate.)                        *)

\* Induction over the natural numbers, for a set.

LEMMA SetInduction ==
  ASSUME NEW T, 0 \in T, \A n \in Nat : n \in T => n + 1 \in T
  PROVE \A n \in Nat : n \in T
<1> SUFFICES ASSUME NEW n \in Nat, n \notin T PROVE FALSE
  OBVIOUS
<1> DEFINE S == {k \in 0 .. n : k \in T}
           f == [k \in S |-> k + 1]
<1>1. IsFiniteSet(S) /\ IsFiniteSet(S \ {0}) /\ Cardinality(S) \in Nat /\ Cardinality(S \ {0}) = Cardinality(S) - 1
  <2>1. IsFiniteSet(0 .. n) BY FS_Interval
  <2>2. IsFiniteSet(S) BY <2>1, FS_Subset
  <2> HIDE DEF S
  <2>3. 0 \in S BY DEF S
  <2> QED BY <2>2, <2>3, FS_RemoveElement, FS_CardinalityType
<1>2. f \in [S -> S \ {0}]
  <2>1. ASSUME NEW k \in S PROVE k + 1 \in S \ {0}
    <3>1. k # n /\ k \in 0 .. n OBVIOUS
    <3> QED BY <3>1
  <2> QED BY <2>1 
<1>3. \E x, y \in S : x # y /\ f[x] = f[y]
  <2> HIDE DEF S, f
  <2>1. Cardinality(S \ {0}) < Cardinality(S) BY <1>1
  <2> QED BY <1>1, <1>2, <2>1, FS_PigeonHole
<1> QED BY <1>3

\* A set of natural numbers has a least one.
LEMMA LeastNat ==
  ASSUME NEW T, T \subseteq Nat, T # {}
  PROVE \E n \in T : \A m \in T : n <= m
<1> SUFFICES ASSUME \A n \in T : \E m \in T : m < n PROVE FALSE
  OBVIOUS
<1> DEFINE Below == {n \in Nat : \A m \in 0 .. n : m \notin T}
<1>1. 0 \in Below
  OBVIOUS
<1>2. ASSUME NEW n \in Nat, n \in Below PROVE n + 1 \in Below
  <2>1. ASSUME n + 1 \in T PROVE FALSE
    <3>1. PICK m \in T : m < n + 1 BY <2>1
    <3>2. m \in 0 .. n BY <3>1
    <3> QED BY <3>2, <1>2
  <2>2. ASSUME NEW m \in 0 .. n + 1 PROVE m \notin T
    <3>1. m \in 0 .. n \/ m = n + 1 OBVIOUS
    <3> QED BY <3>1, <2>1, <1>2
  <2> QED BY <2>2
<1>3. \A n \in Nat : n \in Below
  <2> HIDE DEF Below
  <2> QED BY <1>1, <1>2, SetInduction
<1>4. PICK n \in T : TRUE OBVIOUS
<1>5. n \in Below BY <1>3
<1> QED BY <1>5

-----------------------------------------------------------------------------
(* Recursion. *)

\* A function is defined where it stops, and elsewhere from its value at the
\* next place, which comes before in a well-founded relation.
RecursiveOn(S, R, V, stop, base, next, step) ==
  /\ IsWellFoundedOn(R, S)
  /\ stop \in SUBSET S /\ base \in [stop -> V]
  /\ next \in [S \ stop -> S] /\ \A x \in S \ stop : <<next[x], x>> \in R
  /\ step \in [(S \ stop) \X V -> V]

Solves(g, S, stop, base, next, step) ==
  \A x \in S : g[x] = IF x \in stop THEN base[x] ELSE step[<<x, g[next[x]]>>]

\* A function defined by recursion along a well-founded relation exists.
LEMMA Recursion ==
  ASSUME NEW S, NEW R, NEW V, NEW stop, NEW base, NEW next, NEW step,
         RecursiveOn(S, R, V, stop, base, next, step)
  PROVE  \E g \in [S -> V] : Solves(g, S, stop, base, next, step)
<1> DEFINE Eqn(h, x) == h[x] = IF x \in stop THEN base[x] ELSE step[<<x, h[next[x]]>>]
           Part(A, h) == /\ A \in SUBSET S
                         /\ \A x \in A \ stop : next[x] \in A
                         /\ h \in [A -> V]
                         /\ \A x \in A : Eqn(h, x)
<1>1. /\ IsWellFoundedOn(R, S)
      /\ stop \in SUBSET S /\ base \in [stop -> V]
      /\ \A x \in S \ stop : next[x] \in S /\ <<next[x], x>> \in R
  BY DEF RecursiveOn
<1>2. ASSUME NEW x \in S \ stop, NEW v \in V PROVE step[<<x, v>>] \in V
  <2>1. step \in [(S \ stop) \X V -> V] /\ <<x, v>> \in (S \ stop) \X V
    BY DEF RecursiveOn
  <2> QED BY <2>1
<1>3. ASSUME NEW A, NEW h, Part(A, h), NEW B, NEW k, Part(B, k), NEW z \in A \cap B
      PROVE h[z] = k[z]
  <2> DEFINE T == {x \in A \cap B : h[x] # k[x]}
  <2>1. SUFFICES ASSUME T # {} PROVE FALSE
    OBVIOUS
  <2>2. T \subseteq S BY <1>3
  <2>3. PICK x \in T : \A y \in T : ~(<<y, x>> \in R)
    <3> HIDE DEF T, Part
    <3> QED BY <1>1, <2>1, <2>2, WFMin
  <2>4. CASE x \in stop BY <1>3, <2>3, <2>4
  <2>5. CASE x \notin stop
    <3>1. next[x] \in A \cap B /\ <<next[x], x>> \in R BY <1>1, <1>3, <2>3, <2>5
    <3>2. next[x] \notin T BY <2>3, <3>1
    <3>3. h[next[x]] = k[next[x]] BY <3>1, <3>2
    <3> QED BY <1>3, <2>3, <2>5, <3>3
  <2> QED BY <2>4, <2>5
<1>4. ASSUME NEW x \in S \ stop, NEW A, NEW h, Part(A, h), next[x] \in A, x \notin A
      PROVE  \E B, k : x \in B /\ Part(B, k)
  <2> DEFINE B == A \cup {x}
             k == [y \in B |-> IF y \in A THEN h[y] ELSE step[<<x, h[next[x]]>>]]
  <2>1. step[<<x, h[next[x]]>>] \in V
    <3>1. h[next[x]] \in V BY <1>4
    <3> QED BY <1>2, <3>1
  <2>2. k \in [B -> V] BY <1>4, <2>1
  <2>3. B \in SUBSET S BY <1>4
  <2>4. \A y \in B \ stop : next[y] \in B BY <1>4
  <2>5. ASSUME NEW y \in B PROVE Eqn(k, y)
    <3>1. CASE y \in A
      <4>1. k[y] = h[y] BY <3>1
      <4>2. y \notin stop => next[y] \in A /\ k[next[y]] = h[next[y]] BY <1>4, <3>1
      <4> QED BY <1>4, <3>1, <4>1, <4>2
    <3>2. CASE y = x
      <4>1. k[x] = step[<<x, h[next[x]]>>] BY <1>4
      <4>2. k[next[x]] = h[next[x]] BY <1>4
      <4> QED BY <1>4, <3>2, <4>1, <4>2
    <3> QED BY <3>1, <3>2
  <2>6. Part(B, k)
    <3> HIDE DEF B, k, Eqn
    <3> QED BY <2>2, <2>3, <2>4, <2>5
  <2>7. x \in B
    OBVIOUS
  <2> HIDE DEF B, k, Part
  <2> QED BY <2>6, <2>7
<1>5. ASSUME NEW x \in S PROVE \E A, h : x \in A /\ Part(A, h)
  <2> DEFINE T == {y \in S : ~ \E A, h : y \in A /\ Part(A, h)}
  <2>1. SUFFICES ASSUME T # {} PROVE FALSE
    <3>1. T = {} BY <2>1
    <3> HIDE DEF Part
    <3> QED BY <3>1
  <2>2. T \subseteq S OBVIOUS
  <2>3. PICK z \in T : \A y \in T : ~(<<y, z>> \in R)
    <3> HIDE DEF T
    <3> QED BY <1>1, <2>1, <2>2, WFMin
  <2>4. z \in S /\ ~ \E A, h : z \in A /\ Part(A, h)
    <3> HIDE DEF Part
    <3> QED BY <2>3
  <2>5. CASE z \in stop
    <3>1. Part({z}, [y \in {z} |-> base[z]]) BY <1>1, <2>4, <2>5
    <3> HIDE DEF Part
    <3> QED BY <2>4, <3>1
  <2>6. CASE z \notin stop
    <3> HIDE DEF Part
    <3>1. next[z] \in S /\ next[z] \notin T
      <4> HIDE DEF T
      <4> QED BY <1>1, <2>3, <2>4, <2>6
    <3>2. PICK A, h : next[z] \in A /\ Part(A, h) BY <3>1
    <3>3. z \notin A BY <2>4, <3>2
    <3>4. \E B, k : z \in B /\ Part(B, k)
      <4> HIDE DEF T
      <4> QED BY <1>4, <2>4, <2>6, <3>2, <3>3
    <3> QED BY <2>4, <3>4
  <2> QED BY <2>5, <2>6
<1> DEFINE At(x) == CHOOSE p : x \in p[1] /\ Part(p[1], p[2])
           g == [x \in S |-> At(x)[2][x]]
<1>6. ASSUME NEW x \in S PROVE x \in At(x)[1] /\ Part(At(x)[1], At(x)[2])
  <2> HIDE DEF Part
  <2>1. PICK A, h : x \in A /\ Part(A, h) BY <1>5
  <2> DEFINE p == <<A, h>>
  <2>2. x \in p[1] /\ Part(p[1], p[2]) BY <2>1
  <2> HIDE DEF p
  <2> QED BY <2>2
<1>7. ASSUME NEW A, NEW h, Part(A, h), NEW x \in A PROVE g[x] = h[x]
  <2>1. x \in S BY <1>7
  <2> HIDE DEF Part
  <2>2. x \in At(x)[1] /\ Part(At(x)[1], At(x)[2])
    <3> HIDE DEF At
    <3> QED BY <1>6, <2>1
  <2>3. g[x] = At(x)[2][x]
    <3> HIDE DEF At
    <3> QED BY <2>1
  <2> HIDE DEF At, g
  <2> QED BY <1>3, <1>7, <2>2, <2>3
<1> HIDE DEF At, g
<1>8. ASSUME NEW x \in S PROVE g[x] \in V /\ Eqn(g, x)
  <2>1. PICK A, h : x \in A /\ Part(A, h)
    <3> HIDE DEF Part
    <3> QED BY <1>5
  <2>2. g[x] = h[x]
    <3> HIDE DEF Part
    <3> QED BY <1>7, <2>1
  <2>3. x \notin stop => next[x] \in A /\ g[next[x]] = h[next[x]]
    <3>1. x \notin stop => next[x] \in A BY <2>1
    <3> HIDE DEF Part
    <3> QED BY <1>7, <2>1, <3>1
  <2>4. Eqn(h, x) /\ h[x] \in V BY <2>1
  <2> QED BY <2>2, <2>3, <2>4
<1>9. g = [x \in S |-> g[x]]
  BY DEF g
<1>10. \A x \in S : g[x] \in V
  BY <1>8
<1>11. g \in [S -> V]
  BY <1>9, <1>10
<1>12. Solves(g, S, stop, base, next, step)
  BY <1>8 DEF Solves
<1> QED BY <1>11, <1>12

\* Every family of finite sets has a member that is least in it.
LEMMA LeastSubset ==
  ASSUME NEW S, IsFiniteSet(S), NEW T, T \subseteq SUBSET S, T # {}
  PROVE  \E X \in T : \A Y \in T : Y \subseteq X => Y = X
<1> DEFINE C == {Cardinality(X) : X \in T}
<1>1. \A X \in T : IsFiniteSet(X) /\ Cardinality(X) \in Nat
  BY FS_Subset, FS_CardinalityType
<1>2. C \subseteq Nat /\ C # {}
  BY <1>1
<1>3. PICK c \in C : \A e \in C : c <= e
  <2> HIDE DEF C
  <2> QED BY <1>2, LeastNat
<1>4. PICK X \in T : Cardinality(X) = c
  BY <1>3
<1>5. ASSUME NEW Y \in T, Y \subseteq X PROVE Y = X
  <2>1. Cardinality(Y) <= Cardinality(X)
    BY <1>1, <1>5, FS_Subset
  <2>2. Cardinality(X) <= Cardinality(Y)
    BY <1>3, <1>4
  <2>3. Cardinality(X) = Cardinality(Y)
    BY <1>1, <2>1, <2>2
  <2> QED BY <1>1, <1>5, <2>3, FS_Subset
<1> QED BY <1>5

\* A smaller set comes before a larger one.
LEMMA SmallerFirst ==
  ASSUME NEW S, IsFiniteSet(S)
  PROVE  IsWellFoundedOn({p \in (SUBSET S) \X (SUBSET S) : p[1] \subseteq p[2] /\ p[1] # p[2]}, SUBSET S)
<1> DEFINE R == {p \in (SUBSET S) \X (SUBSET S) : p[1] \subseteq p[2] /\ p[1] # p[2]}
<1>1. ASSUME NEW T \in SUBSET SUBSET S, T # {}
      PROVE \E X \in T : \A Y \in T : ~(<<Y, X>> \in R)
  <2>1. PICK X \in T : \A Y \in T : Y \subseteq X => Y = X
    BY <1>1, LeastSubset
  <2> QED BY <2>1
<1> HIDE DEF R
<1>2. IsWellFoundedOn(R, SUBSET S)
  BY <1>1, MinWF
<1> QED BY <1>2 DEF R

-----------------------------------------------------------------------------
(* Numbers that are free. *)

\* A fresh number is not in use, and not one of the first nodes'.
LEMMA FreshIsFree ==
  ASSUME NEW used, IsFiniteSet(used)
  PROVE  Fresh(used) \in Nat \ {0} /\ Fresh(used) \notin used
<1> DEFINE c == Cardinality(used)
           F == 1 .. c + 1 \ used
<1>1. c \in Nat
  BY FS_CardinalityType
<1>2. F # {}
  <2>1. SUFFICES ASSUME 1 .. c + 1 \subseteq used PROVE FALSE
    OBVIOUS
  <2>2. Cardinality(1 .. c + 1) = c + 1
    <3> HIDE DEF c
    <3> QED BY <1>1, FS_Interval
  <2>3. Cardinality(1 .. c + 1) <= c
    BY <2>1, FS_Subset
  <2> QED BY <1>1, <2>2, <2>3
<1>3. PICK n \in F : \A m \in F : n <= m
  <2>1. F \subseteq Nat BY <1>1
  <2> HIDE DEF F
  <2> QED BY <1>2, <2>1, LeastNat
<1>4. Min(F) \in F
  <2> HIDE DEF F
  <2> QED BY <1>3 DEF Min
<1>5. Fresh(used) = Min(F)
  BY DEF Fresh
<1> QED BY <1>1, <1>4, <1>5

-----------------------------------------------------------------------------
(* What a file system is made of, for links with targets from a set T.     *)

TargetSet  == [absolute : BOOLEAN, parts : Seq(STRING)]
EntryMaps  == UNION {[N -> Int] : N \in SUBSET STRING}
DirSet     == [kind : {"directory"}, writable : BOOLEAN, entries : EntryMaps]
FileSet    == [kind : {"file", "bundled"}, data : Seq({0, 1})]
NodeSet(T) == DirSet \cup FileSet \cup [kind : {"symlink"}, target : T]
              \cup [kind : {"null", "full"}]
OpenSet    == [node : Int, position : Nat, options : SUBSET {"read", "write", "append"}]
FileSystems(T) ==
  [nodes : UNION {[D -> NodeSet(T)] : D \in SUBSET Int},
   open  : UNION {[D -> OpenSet] : D \in SUBSET Nat},
   next  : Nat]

\* A node is well-formed among others: its entries, finitely many, refer to
\* some of these but not to the root, and a file is not too large.
NodeOK(node, among) ==
  /\ node.kind = "directory" =>
       /\ IsFiniteSet(DOMAIN node.entries)
       /\ \A name \in DOMAIN node.entries : node.entries[name] \in among \ {Root}
  /\ node.kind \in {"file", "bundled"} => Len(node.data) <= MaxSize

\* What is open is no directory and no link, what is open for writing is not
\* the bundle's, and its number is not one of the next.
OpenOK(fs, d) ==
  /\ d < fs.next
  /\ fs.open[d].node \in DOMAIN fs.nodes
  /\ fs.nodes[fs.open[d].node].kind \notin {"directory", "symlink"}
  /\ "write" \in fs.open[d].options => fs.nodes[fs.open[d].node].kind # "bundled"

FixedOK(nodes) ==
  /\ Fixed \cup {-1} \subseteq DOMAIN nodes
  /\ nodes[-1].kind = "directory"
  /\ \A n \in Fixed : nodes[n] = NewFileSystem.nodes[n]

Fine(fs, T) ==
  /\ fs \in FileSystems(T)
  /\ IsFiniteSet(DOMAIN fs.nodes)
  /\ FixedOK(fs.nodes)
  /\ \A n \in DOMAIN fs.nodes : NodeOK(fs.nodes[n], DOMAIN fs.nodes)
  /\ \A d \in DOMAIN fs.open : OpenOK(fs, d)

\* A directory or a link has one place at most.
Entry(nodes, dir, name) ==
  dir \in DOMAIN nodes /\ IsDirectory(nodes, dir) /\ name \in DOMAIN nodes[dir].entries
Twice(nodes, d1, n1, d2, n2) ==
  /\ Entry(nodes, d1, n1) /\ Entry(nodes, d2, n2)
  /\ nodes[d1].entries[n1] = nodes[d2].entries[n2]
  /\ nodes[nodes[d1].entries[n1]].kind \in {"directory", "symlink"}
Unique(nodes) ==
  \A d1, d2, n1, n2 : Twice(nodes, d1, n1, d2, n2) => d1 = d2 /\ n1 = n2

\* More nodes, and nothing else.
Extends(fs, more) ==
  /\ more.open = fs.open /\ more.next = fs.next
  /\ DOMAIN fs.nodes \subseteq DOMAIN more.nodes
  /\ \A n \in DOMAIN fs.nodes : more.nodes[n] = fs.nodes[n]

\* A node more, which nothing refers to yet.
OneMore(fs, more, n, node) ==
  /\ Extends(fs, more)
  /\ n \notin DOMAIN fs.nodes /\ n # Root
  /\ DOMAIN more.nodes = DOMAIN fs.nodes \cup {n}
  /\ more.nodes[n] = node

\* After is fs with an entry more, or one less, in a directory.
Entered(fs, after, dir, name, n) ==
  /\ fs.nodes[dir].writable = TRUE /\ ~Has(fs.nodes, dir, name)
  /\ after.open = fs.open /\ after.next = fs.next
  /\ DOMAIN after.nodes = DOMAIN fs.nodes \cup {n}
  /\ \A m \in DOMAIN fs.nodes : after.nodes[m].kind = fs.nodes[m].kind
  /\ \A m \in DOMAIN fs.nodes \ {dir} : after.nodes[m] = fs.nodes[m]
  /\ after.nodes[dir] = Directory(TRUE, With(fs.nodes[dir].entries, name, n))
Left(fs, after, dir, name) ==
  /\ fs.nodes[dir].writable = TRUE
  /\ after.open = fs.open /\ after.next = fs.next
  /\ DOMAIN after.nodes = DOMAIN fs.nodes
  /\ \A m \in DOMAIN fs.nodes : after.nodes[m].kind = fs.nodes[m].kind
  /\ \A m \in DOMAIN fs.nodes \ {dir} : after.nodes[m] = fs.nodes[m]
  /\ after.nodes[dir] = Directory(TRUE, Without(fs.nodes[dir].entries, name))
Refused(fs, dir, name) == fs.nodes[dir].writable = FALSE \/ Has(fs.nodes, dir, name)

\* What insert, create and Directory::remove do.
InsertDoes(T, fs, dir, name, n, o) ==
  /\ Fine(o.fs, T)
  /\ o.error # Ok => o.fs = fs /\ Refused(fs, dir, name)
  /\ o.error = Ok => o.value = n /\ Entered(fs, o.fs, dir, name, n)
CreateDoes(T, fs, dir, name, node, o) ==
  /\ Fine(o.fs, T)
  /\ o.error # Ok => Extends(fs, o.fs) /\ Refused(fs, dir, name)
  /\ o.error = Ok => /\ o.value \notin DOMAIN fs.nodes /\ o.value # Root
                     /\ o.fs.nodes[o.value] = node
                     /\ Entered(fs, o.fs, dir, name, o.value)
UnlinkDoes(T, fs, dir, name, o) ==
  /\ Fine(o.fs, T)
  /\ o.error # Ok => o.fs = fs /\ fs.nodes[dir].writable = FALSE
  /\ o.error = Ok => o.value = 0 /\ Left(fs, o.fs, dir, name)

\* The parts of a file system.
LEMMA Systems ==
  ASSUME NEW T, NEW fs \in FileSystems(T)
  PROVE  /\ fs = [nodes |-> fs.nodes, open |-> fs.open, next |-> fs.next]
         /\ DOMAIN fs.nodes \subseteq Int /\ fs.nodes \in [DOMAIN fs.nodes -> NodeSet(T)]
         /\ DOMAIN fs.open \subseteq Nat /\ fs.open \in [DOMAIN fs.open -> OpenSet]
         /\ fs.next \in Nat
<1>1. PICK D \in SUBSET Int : fs.nodes \in [D -> NodeSet(T)]
  BY DEF FileSystems
<1>2. PICK E \in SUBSET Nat : fs.open \in [E -> OpenSet]
  BY DEF FileSystems
<1> QED BY <1>1, <1>2 DEF FileSystems

\* What the kind of a node says about it.
LEMMA NodeKinds ==
  ASSUME NEW T, NEW fs, Fine(fs, T), NEW n \in DOMAIN fs.nodes
  PROVE  /\ fs.nodes[n] \in NodeSet(T)
         /\ n \in Int
         /\ fs.nodes[n].kind = "directory" <=> fs.nodes[n] \in DirSet
         /\ fs.nodes[n].kind \in {"file", "bundled"} <=> fs.nodes[n] \in FileSet
         /\ fs.nodes[n].kind = "symlink" => fs.nodes[n].target \in T
<1>1. fs.nodes[n] \in NodeSet(T) /\ n \in Int
  BY Systems DEF Fine
<1> QED BY <1>1 DEF NodeSet, DirSet, FileSet

\* An entry refers to a node that is there.
LEMMA EntryThere ==
  ASSUME NEW T, NEW fs, Fine(fs, T), NEW dir \in DOMAIN fs.nodes, IsDirectory(fs.nodes, dir),
         NEW name \in DOMAIN fs.nodes[dir].entries
  PROVE  /\ fs.nodes[dir].entries[name] \in DOMAIN fs.nodes \ {Root}
         /\ name \in STRING
<1>1. fs.nodes[dir] \in DirSet BY NodeKinds DEF IsDirectory
<1>2. fs.nodes[dir].entries[name] \in DOMAIN fs.nodes \ {Root} BY DEF Fine, NodeOK, IsDirectory
<1>3. PICK N \in SUBSET STRING : fs.nodes[dir].entries \in [N -> Int]
  BY <1>1 DEF DirSet, EntryMaps
<1> QED BY <1>2, <1>3

\* Another node in the place of one, or a node more.
LEMMA SystemWith ==
  ASSUME NEW T, NEW fs \in FileSystems(T), NEW n \in Int, NEW node \in NodeSet(T)
  PROVE  [fs EXCEPT !.nodes = With(@, n, node)] \in FileSystems(T)
<1> DEFINE D == DOMAIN fs.nodes
<1>1. D \subseteq Int /\ fs.nodes \in [D -> NodeSet(T)]
  BY Systems
<1>2. With(fs.nodes, n, node) \in [D \cup {n} -> NodeSet(T)]
  BY <1>1 DEF With
<1>3. D \cup {n} \in SUBSET Int
  BY <1>1
<1> QED BY <1>2, <1>3, Systems DEF FileSystems

-----------------------------------------------------------------------------
(* Entries. *)

\* A directory with other entries, of nodes that are there.
LEMMA EntriesChange ==
  ASSUME NEW T, NEW fs, Fine(fs, T), NEW dir \in DOMAIN fs.nodes, fs.nodes[dir].kind = "directory",
         dir \notin Fixed, NEW entries \in EntryMaps, IsFiniteSet(DOMAIN entries),
         \A name \in DOMAIN entries : entries[name] \in DOMAIN fs.nodes \ {Root}
  PROVE  LET changed == [fs EXCEPT !.nodes[dir].entries = entries]
         IN /\ Fine(changed, T)
            /\ changed.open = fs.open /\ changed.next = fs.next
            /\ DOMAIN changed.nodes = DOMAIN fs.nodes
            /\ \A n \in DOMAIN fs.nodes : changed.nodes[n].kind = fs.nodes[n].kind
            /\ \A n \in DOMAIN fs.nodes \ {dir} : changed.nodes[n] = fs.nodes[n]
            /\ changed.nodes[dir] = Directory(fs.nodes[dir].writable, entries)
<1> DEFINE changed == [fs EXCEPT !.nodes[dir].entries = entries]
<1>1. fs.nodes[dir] \in DirSet /\ dir \in Int
  BY NodeKinds
<1>2. Directory(fs.nodes[dir].writable, entries) \in DirSet
  BY <1>1 DEF Directory, DirSet
<1>3. [fs.nodes[dir] EXCEPT !.entries = entries] = Directory(fs.nodes[dir].writable, entries)
  BY <1>1 DEF Directory, DirSet
<1>4. changed = [fs EXCEPT !.nodes = With(fs.nodes, dir, Directory(fs.nodes[dir].writable, entries))]
  <2>1. fs.nodes \in [DOMAIN fs.nodes -> NodeSet(T)] BY Systems DEF Fine
  <2>2. [fs.nodes EXCEPT ![dir].entries = entries]
          = With(fs.nodes, dir, Directory(fs.nodes[dir].writable, entries))
    BY <1>3, <2>1 DEF With
  <2> QED BY <2>2
<1>5. changed \in FileSystems(T)
  BY <1>1, <1>2, <1>4, SystemWith DEF Fine, NodeSet
<1>6. /\ changed.open = fs.open /\ changed.next = fs.next
      /\ DOMAIN changed.nodes = DOMAIN fs.nodes
      /\ \A n \in DOMAIN fs.nodes \ {dir} : changed.nodes[n] = fs.nodes[n]
      /\ changed.nodes[dir] = Directory(fs.nodes[dir].writable, entries)
  BY <1>4, Systems DEF Fine, With
<1> HIDE DEF changed
<1>7. \A n \in DOMAIN fs.nodes : changed.nodes[n].kind = fs.nodes[n].kind
  BY <1>6 DEF Directory
<1>8. FixedOK(changed.nodes)
  BY <1>6, <1>7 DEF Fine, FixedOK
<1>9. \A n \in DOMAIN changed.nodes : NodeOK(changed.nodes[n], DOMAIN changed.nodes)
  <2>1. NodeOK(changed.nodes[dir], DOMAIN fs.nodes)
    BY <1>6 DEF NodeOK, Directory
  <2> QED BY <1>6, <2>1 DEF Fine
<1>10. \A d \in DOMAIN changed.open : OpenOK(changed, d)
  BY <1>6, <1>7 DEF Fine, OpenOK
<1>11. Fine(changed, T)
  BY <1>5, <1>6, <1>8, <1>9, <1>10 DEF Fine
<1> QED BY <1>6, <1>7, <1>11 DEF changed

\* insert either changes nothing or adds the entry.
LEMMA Inserted ==
  ASSUME NEW T, NEW fs, Fine(fs, T), NEW dir \in DOMAIN fs.nodes, IsDirectory(fs.nodes, dir),
         NEW name \in STRING, NEW n \in DOMAIN fs.nodes \ {Root}
  PROVE  InsertDoes(T, fs, dir, name, n, insert(fs, dir, name, n))
<1> DEFINE o == insert(fs, dir, name, n)
<1>1. fs.nodes[dir] \in DirSet /\ n \in Int
  BY NodeKinds DEF IsDirectory
<1>2. CASE ~fs.nodes[dir].writable
  BY <1>1, <1>2 DEF insert, Throw, Ok, Refused, InsertDoes, DirSet
<1>3. CASE Has(fs.nodes, dir, name)
  BY <1>3 DEF insert, Throw, Ok, Refused, InsertDoes
<1>4. CASE fs.nodes[dir].writable /\ ~Has(fs.nodes, dir, name)
  <2> DEFINE entries == With(fs.nodes[dir].entries, name, n)
  <2>1. o = Return([fs EXCEPT !.nodes[dir].entries = entries], n)
    BY <1>4 DEF insert
  <2>2. PICK N \in SUBSET STRING : fs.nodes[dir].entries \in [N -> Int]
    BY <1>1 DEF DirSet, EntryMaps
  <2>3. entries \in [N \cup {name} -> Int] /\ N \cup {name} \in SUBSET STRING
    BY <1>1, <2>2 DEF With
  <2>4. entries \in EntryMaps
    BY <2>3 DEF EntryMaps
  <2>5. IsFiniteSet(DOMAIN entries)
    <3>1. IsFiniteSet(DOMAIN fs.nodes[dir].entries) BY DEF Fine, NodeOK, IsDirectory
    <3>2. DOMAIN entries = DOMAIN fs.nodes[dir].entries \cup {name} BY DEF With
    <3> QED BY <3>1, <3>2, FS_AddElement
  <2>6. \A other \in DOMAIN entries : entries[other] \in DOMAIN fs.nodes \ {Root}
    BY EntryThere DEF With
  <2>7. dir \notin Fixed
    BY <1>4 DEF Fine, FixedOK, Fixed, NewFileSystem, Directory, IsDirectory
  <2>8. fs.nodes[dir].writable = TRUE
    BY <1>1, <1>4 DEF DirSet
  <2> HIDE DEF entries
  <2>9. o.error = Ok /\ o.value = n /\ o.fs = [fs EXCEPT !.nodes[dir].entries = entries]
    BY <2>1 DEF Return
  <2>10. fs.nodes[dir].kind = "directory" BY DEF IsDirectory
  <2> DEFINE changed == [fs EXCEPT !.nodes[dir].entries = entries]
  <2>11. /\ Fine(changed, T)
         /\ changed.open = fs.open /\ changed.next = fs.next
         /\ DOMAIN changed.nodes = DOMAIN fs.nodes
         /\ \A m \in DOMAIN fs.nodes : changed.nodes[m].kind = fs.nodes[m].kind
         /\ \A m \in DOMAIN fs.nodes \ {dir} : changed.nodes[m] = fs.nodes[m]
         /\ changed.nodes[dir] = Directory(fs.nodes[dir].writable, entries)
    BY <2>4, <2>5, <2>6, <2>7, <2>10, EntriesChange
  <2> HIDE DEF changed
  <2>12. o.fs = changed BY <2>9 DEF changed
  <2> QED BY <1>4, <2>8, <2>9, <2>11, <2>12 DEF entries, Entered, InsertDoes
<1> QED BY <1>2, <1>3, <1>4

\* Directory::remove either changes nothing or takes the entry away.
LEMMA Unlinked ==
  ASSUME NEW T, NEW fs, Fine(fs, T), NEW dir \in DOMAIN fs.nodes, IsDirectory(fs.nodes, dir),
         NEW name
  PROVE  UnlinkDoes(T, fs, dir, name, unlink(fs, dir, name))
<1> DEFINE o == unlink(fs, dir, name)
<1>1. fs.nodes[dir] \in DirSet
  BY NodeKinds DEF IsDirectory
<1>2. CASE ~fs.nodes[dir].writable
  BY <1>1, <1>2 DEF unlink, Throw, Ok, DirSet, UnlinkDoes
<1>3. CASE fs.nodes[dir].writable
  <2> DEFINE entries == Without(fs.nodes[dir].entries, name)
  <2>1. o = Return([fs EXCEPT !.nodes[dir].entries = entries], 0)
    BY <1>3 DEF unlink
  <2>2. PICK N \in SUBSET STRING : fs.nodes[dir].entries \in [N -> Int]
    BY <1>1 DEF DirSet, EntryMaps
  <2>3. entries \in [N \ {name} -> Int] /\ N \ {name} \in SUBSET STRING
    BY <2>2 DEF Without
  <2>4. entries \in EntryMaps
    BY <2>3 DEF EntryMaps
  <2>5. IsFiniteSet(DOMAIN entries)
    <3>1. IsFiniteSet(DOMAIN fs.nodes[dir].entries) BY DEF Fine, NodeOK, IsDirectory
    <3>2. DOMAIN entries = DOMAIN fs.nodes[dir].entries \ {name} BY DEF Without
    <3> QED BY <3>1, <3>2, FS_RemoveElement
  <2>6. \A other \in DOMAIN entries : entries[other] \in DOMAIN fs.nodes \ {Root}
    BY EntryThere DEF Without
  <2>7. dir \notin Fixed
    BY <1>3 DEF Fine, FixedOK, Fixed, NewFileSystem, Directory, IsDirectory
  <2>8. fs.nodes[dir].writable = TRUE
    BY <1>1, <1>3 DEF DirSet
  <2> HIDE DEF entries
  <2>9. o.error = Ok /\ o.value = 0 /\ o.fs = [fs EXCEPT !.nodes[dir].entries = entries]
    BY <2>1 DEF Return
  <2>10. fs.nodes[dir].kind = "directory" BY DEF IsDirectory
  <2> DEFINE changed == [fs EXCEPT !.nodes[dir].entries = entries]
  <2>11. /\ Fine(changed, T)
         /\ changed.open = fs.open /\ changed.next = fs.next
         /\ DOMAIN changed.nodes = DOMAIN fs.nodes
         /\ \A m \in DOMAIN fs.nodes : changed.nodes[m].kind = fs.nodes[m].kind
         /\ \A m \in DOMAIN fs.nodes \ {dir} : changed.nodes[m] = fs.nodes[m]
         /\ changed.nodes[dir] = Directory(fs.nodes[dir].writable, entries)
    BY <2>4, <2>5, <2>6, <2>7, <2>10, EntriesChange
  <2> HIDE DEF changed
  <2>12. o.fs = changed BY <2>9 DEF changed
  <2> QED BY <1>3, <2>8, <2>9, <2>11, <2>12 DEF entries, Left, UnlinkDoes
<1> QED BY <1>2, <1>3

-----------------------------------------------------------------------------
(* New nodes. *)

\* A node keeps its shape when there are more nodes.
LEMMA FewerNodes ==
  ASSUME NEW node, NEW among, NEW more, among \subseteq more, NodeOK(node, among)
  PROVE  NodeOK(node, more)
BY DEF NodeOK

\* Add makes one more node and leaves the others.
LEMMA Added ==
  ASSUME NEW T, NEW fs, Fine(fs, T), NEW node \in NodeSet(T), NodeOK(node, DOMAIN fs.nodes),
         NEW n, n = Fresh(DOMAIN fs.nodes), NEW f, f = Add(fs, node)
  PROVE  Fine(f, T) /\ OneMore(fs, f, n, node)
<1>1. n \in Nat \ {0} /\ n \notin DOMAIN fs.nodes
  BY FreshIsFree DEF Fine
<1>2. f = [fs EXCEPT !.nodes = With(@, n, node)]
  BY DEF Add
<1>3. f \in FileSystems(T)
  <2>1. n \in Int BY <1>1
  <2> QED BY <1>2, <2>1, SystemWith DEF Fine
<1>4. f.nodes = With(fs.nodes, n, node) /\ f.open = fs.open /\ f.next = fs.next
  BY <1>2, Systems DEF Fine
<1>5. /\ DOMAIN f.nodes = DOMAIN fs.nodes \cup {n}
      /\ f.nodes[n] = node
      /\ \A m \in DOMAIN fs.nodes : f.nodes[m] = fs.nodes[m]
  BY <1>1, <1>4 DEF With
<1>6. IsFiniteSet(DOMAIN f.nodes)
  BY <1>5, FS_AddElement DEF Fine
<1>7. \A m \in DOMAIN f.nodes : NodeOK(f.nodes[m], DOMAIN f.nodes)
  <2>1. \A m \in DOMAIN f.nodes : NodeOK(f.nodes[m], DOMAIN fs.nodes)
    BY <1>5 DEF Fine
  <2> QED BY <1>5, <2>1, FewerNodes
<1>8. FixedOK(f.nodes) /\ \A d \in DOMAIN f.open : OpenOK(f, d)
  BY <1>1, <1>4, <1>5 DEF Fine, FixedOK, OpenOK
<1> QED BY <1>1, <1>3, <1>4, <1>5, <1>6, <1>7, <1>8 DEF Fine, Extends, OneMore, Root

\* insert of a node that was added before.
LEMMA InsertedNew ==
  ASSUME NEW T, NEW fs, Fine(fs, T), NEW node,
         NEW dir \in DOMAIN fs.nodes, IsDirectory(fs.nodes, dir), NEW name \in STRING,
         NEW n, NEW f, Fine(f, T), OneMore(fs, f, n, node),
         NEW o, o = insert(f, dir, name, n)
  PROVE  /\ Fine(o.fs, T)
         /\ o.error # Ok => Extends(fs, o.fs) /\ Refused(fs, dir, name)
         /\ o.error = Ok => /\ o.value = n /\ o.fs.nodes[n] = node
                            /\ Entered(fs, o.fs, dir, name, n)
<1>1. dir \in DOMAIN f.nodes /\ f.nodes[dir] = fs.nodes[dir] /\ dir # n
  BY DEF OneMore, Extends
<1>2. IsDirectory(f.nodes, dir) /\ n \in DOMAIN f.nodes \ {Root}
      /\ (Has(f.nodes, dir, name) <=> Has(fs.nodes, dir, name))
  BY <1>1 DEF OneMore, IsDirectory, Has
<1>3. /\ Fine(o.fs, T)
      /\ o.error # Ok => o.fs = f /\ Refused(f, dir, name)
      /\ o.error = Ok => o.value = n /\ Entered(f, o.fs, dir, name, n)
  <2>1. InsertDoes(T, f, dir, name, n, o) BY <1>1, <1>2, Inserted
  <2> QED BY <2>1 DEF InsertDoes
<1>4. \A m \in DOMAIN fs.nodes : m \in DOMAIN f.nodes /\ f.nodes[m] = fs.nodes[m]
  BY DEF OneMore, Extends
<1>5. ASSUME Entered(f, o.fs, dir, name, n)
      PROVE  Entered(fs, o.fs, dir, name, n) /\ o.fs.nodes[n] = node
  BY <1>1, <1>2, <1>4, <1>5 DEF OneMore, Extends, Entered
<1>6. Refused(f, dir, name) => Refused(fs, dir, name)
  BY <1>1, <1>2 DEF Refused, Has
<1> QED BY <1>3, <1>5, <1>6 DEF OneMore

\* create makes one more node and enters it, or refuses before it does.
LEMMA Created ==
  ASSUME NEW T, NEW fs, Fine(fs, T), NEW node \in NodeSet(T), NodeOK(node, DOMAIN fs.nodes),
         NEW dir \in DOMAIN fs.nodes, IsDirectory(fs.nodes, dir), NEW name \in STRING
  PROVE  CreateDoes(T, fs, dir, name, node, create(fs, dir, name, node))
<1>1. PICK n : n = Fresh(DOMAIN fs.nodes)
  OBVIOUS
<1>2. PICK f : f = Add(fs, node)
  OBVIOUS
<1>3. Fine(f, T) /\ OneMore(fs, f, n, node)
  BY <1>1, <1>2, Added
<1>4. PICK o : o = insert(f, dir, name, n)
  OBVIOUS
<1>5. /\ Fine(o.fs, T)
      /\ o.error # Ok => Extends(fs, o.fs) /\ Refused(fs, dir, name)
      /\ o.error = Ok => /\ o.value = n /\ o.fs.nodes[n] = node
                         /\ Entered(fs, o.fs, dir, name, n)
  BY <1>3, <1>4, InsertedNew
<1>6. create(fs, dir, name, node) = o
  BY <1>1, <1>2, <1>4 DEF create
<1> QED BY <1>3, <1>5, <1>6 DEF OneMore, CreateDoes

-----------------------------------------------------------------------------
(* Drop. *)

\* A set of nodes that holds what its directories refer to.
Closed(nodes, N) ==
  \A dir, name : Entry(nodes, dir, name) /\ dir \in N => nodes[dir].entries[name] \in N

Roots(fs) == {Root} \cup {fs.open[d].node : d \in DOMAIN fs.open}

\* Referred is the least closed set with the roots.
LEMMA ReferredIsLeast ==
  ASSUME NEW T, NEW fs, Fine(fs, T)
  PROVE  /\ Roots(fs) \subseteq Referred(fs) /\ Referred(fs) \subseteq DOMAIN fs.nodes
         /\ Closed(fs.nodes, Referred(fs))
         /\ \A N \in SUBSET DOMAIN fs.nodes :
              Roots(fs) \subseteq N /\ Closed(fs.nodes, N) => Referred(fs) \subseteq N
<1> DEFINE D == DOMAIN fs.nodes
           Children(N) ==
             UNION {Range(fs.nodes[n].entries) : n \in {m \in N : IsDirectory(fs.nodes, m)}}
           Grow(g) == [N \in SUBSET D |->
                         IF Children(N) \subseteq N THEN N ELSE g[N \cup Children(N)]]
           below == CHOOSE g : g = Grow(g)
           Above(N) == {X \in SUBSET D : N \subseteq X /\ Children(X) \subseteq X}
           closure == [N \in SUBSET D |-> {n \in D : \A X \in Above(N) : n \in X}]
<1>1. Referred(fs) = below[Roots(fs)]
  BY DEF Referred, Roots
<1>2. \A N \in SUBSET D : Children(N) \in SUBSET D
  <2> SUFFICES ASSUME NEW N \in SUBSET D, NEW n \in N, IsDirectory(fs.nodes, n),
                      NEW m \in Range(fs.nodes[n].entries)
               PROVE  m \in D
    OBVIOUS
  <2>1. PICK name \in DOMAIN fs.nodes[n].entries : m = fs.nodes[n].entries[name]
    BY DEF Range
  <2> QED BY <2>1, EntryThere
<1>3. \A N, X \in SUBSET D : N \subseteq X => Children(N) \subseteq Children(X)
  OBVIOUS
<1>4. \A N \in SUBSET D : Children(N) \subseteq N <=> Closed(fs.nodes, N)
  BY DEF Closed, Entry, Range
<1>5. Roots(fs) \in SUBSET D
  BY DEF Fine, OpenOK, FixedOK, Fixed, Root, Roots
<1> HIDE DEF D, Children
<1>6. closure = Grow(closure)
  <2> SUFFICES ASSUME NEW N \in SUBSET D PROVE closure[N] = Grow(closure)[N]
    OBVIOUS
  <2>1. CASE Children(N) \subseteq N
    <3>1. N \in Above(N) BY <2>1
    <3>2. closure[N] = N BY <3>1
    <3> QED BY <2>1, <3>2
  <2>2. CASE ~(Children(N) \subseteq N)
    <3> DEFINE M == N \cup Children(N)
    <3>1. M \in SUBSET D BY <1>2
    <3>2. Above(N) = Above(M)
      <4>1. ASSUME NEW X \in Above(N) PROVE X \in Above(M)
        <5>1. Children(N) \subseteq X BY <1>3, <4>1
        <5> QED BY <5>1
      <4> QED BY <4>1
    <3>3. closure[N] = closure[M] BY <3>1, <3>2
    <3> QED BY <2>2, <3>3
  <2> QED BY <2>1, <2>2
<1>7. below = Grow(below)
  <2> HIDE DEF Grow, closure
  <2> QED BY <1>6
<1>8. \A N \in SUBSET D : below[N] = closure[N]
  <2> HIDE DEF below, closure
  <2> DEFINE W == {N \in SUBSET D : below[N] # closure[N]}
             C == {D \ N : N \in W}
  <2>1. SUFFICES ASSUME W # {} PROVE FALSE
    OBVIOUS
  <2>2. C \subseteq SUBSET D /\ C # {} /\ IsFiniteSet(D)
    BY <2>1 DEF Fine, D
  <2>3. PICK X \in C : \A Y \in C : Y \subseteq X => Y = X
    <3> HIDE DEF C
    <3> QED BY <2>2, LeastSubset
  <2>4. PICK N \in W : X = D \ N
    BY <2>3
  <2>5. CASE Children(N) \subseteq N
    <3>1. below[N] = N BY <1>7, <2>5
    <3>2. closure[N] = N BY <1>6, <2>5
    <3> QED BY <2>4, <3>1, <3>2
  <2>6. CASE ~(Children(N) \subseteq N)
    <3> DEFINE M == N \cup Children(N)
    <3>1. M \in SUBSET D BY <1>2
    <3>2. below[N] = below[M] BY <1>7, <2>6
    <3>3. closure[N] = closure[M] BY <1>6, <2>6
    <3>4. M \in W BY <2>4, <3>1, <3>2, <3>3
    <3>5. D \ M \in C BY <3>4
    <3>6. D \ M = X BY <2>3, <2>4, <3>5
    <3> QED BY <1>2, <2>4, <2>6, <3>6
  <2> QED BY <2>5, <2>6
<1> HIDE DEF below
<1>9. Referred(fs) = closure[Roots(fs)]
  BY <1>1, <1>5, <1>8
<1>10. Referred(fs) = {n \in D : \A X \in Above(Roots(fs)) : n \in X}
  BY <1>5, <1>9
<1>11. Children(Referred(fs)) \subseteq Referred(fs)
  <2>1. Referred(fs) \in SUBSET D BY <1>10
  <2>2. ASSUME NEW n \in Children(Referred(fs)), NEW X \in Above(Roots(fs)) PROVE n \in X
    <3>1. Referred(fs) \subseteq X BY <1>10
    <3>2. Children(Referred(fs)) \subseteq Children(X) BY <1>3, <2>1, <3>1
    <3> QED BY <3>2
  <2>3. Children(Referred(fs)) \subseteq D BY <1>2, <2>1
  <2> QED BY <1>10, <2>2, <2>3
<1>12. ASSUME NEW N \in SUBSET D, Roots(fs) \subseteq N, Closed(fs.nodes, N)
       PROVE  Referred(fs) \subseteq N
  <2>1. N \in Above(Roots(fs)) BY <1>4, <1>12
  <2> QED BY <1>10, <2>1
<1>13. Roots(fs) \subseteq Referred(fs) /\ Referred(fs) \subseteq D
  BY <1>5, <1>10
<1> QED BY <1>4, <1>11, <1>12, <1>13 DEF D

-----------------------------------------------------------------------------
(* What a call leaves. *)

\* Nothing is kept that nothing refers to.
Good(fs, T) == /\ Fine(fs, T)
               /\ Unique(fs.nodes)
               /\ Referred(fs) = DOMAIN fs.nodes

\* Drop keeps what is referred to, as it is.
LEMMA Dropped ==
  ASSUME NEW T, NEW fs, Fine(fs, T)
  PROVE  /\ Drop(fs).nodes = [n \in Referred(fs) |-> fs.nodes[n]]
         /\ Drop(fs).open = fs.open /\ Drop(fs).next = fs.next
         /\ Fine(Drop(fs), T)
<1> DEFINE R == Referred(fs)
           d == Drop(fs)
<1>1. d = [fs EXCEPT !.nodes = [n \in R |-> fs.nodes[n]]]
  BY Systems DEF Fine, Drop, Restrict
<1>2. d.nodes = [n \in R |-> fs.nodes[n]] /\ d.open = fs.open /\ d.next = fs.next
  BY <1>1, Systems DEF Fine
<1>3. /\ Roots(fs) \subseteq R /\ R \subseteq DOMAIN fs.nodes
      /\ Closed(fs.nodes, R)
  BY ReferredIsLeast
<1> HIDE DEF R
<1>4. d \in FileSystems(T)
  <2>1. DOMAIN fs.nodes \subseteq Int /\ fs.nodes \in [DOMAIN fs.nodes -> NodeSet(T)]
    BY Systems DEF Fine
  <2>2. R \in SUBSET Int /\ [n \in R |-> fs.nodes[n]] \in [R -> NodeSet(T)]
    BY <2>1, <1>3
  <2>3. [n \in R |-> fs.nodes[n]] \in UNION {[D -> NodeSet(T)] : D \in SUBSET Int}
    BY <2>2
  <2> QED BY <1>1, <2>3 DEF Fine, FileSystems
<1> HIDE DEF d
<1>5. IsFiniteSet(DOMAIN d.nodes)
  BY <1>2, <1>3, FS_Subset DEF Fine
<1>6. FixedOK(d.nodes)
  <2> DEFINE N == NewFileSystem.nodes
  <2>1. /\ IsDirectory(fs.nodes, 0) /\ IsDirectory(fs.nodes, -2) /\ IsDirectory(fs.nodes, -3)
        /\ {"tmp", "bundle", "dev"} \subseteq DOMAIN fs.nodes[0].entries
        /\ fs.nodes[0].entries["tmp"] = -1 /\ fs.nodes[0].entries["bundle"] = -2
        /\ fs.nodes[0].entries["dev"] = -3
        /\ "x" \in DOMAIN fs.nodes[-2].entries /\ fs.nodes[-2].entries["x"] = -4
        /\ {"null", "full"} \subseteq DOMAIN fs.nodes[-3].entries
        /\ fs.nodes[-3].entries["null"] = -5 /\ fs.nodes[-3].entries["full"] = -6
    BY DEF Fine, FixedOK, Fixed, NewFileSystem, Directory, IsDirectory
  <2>2. 0 \in R BY <1>3 DEF Roots, Root
  <2>3. -1 \in R /\ -2 \in R /\ -3 \in R
    BY <1>3, <2>1, <2>2 DEF Closed, Entry
  <2>4. -4 \in R /\ -5 \in R /\ -6 \in R
    BY <1>3, <2>1, <2>3 DEF Closed, Entry
  <2> QED BY <1>2, <2>2, <2>3, <2>4 DEF Fine, FixedOK, Fixed
<1>7. \A n \in DOMAIN d.nodes : NodeOK(d.nodes[n], DOMAIN d.nodes)
  <2> SUFFICES ASSUME NEW n \in R PROVE NodeOK(fs.nodes[n], R)
    BY <1>2
  <2>1. NodeOK(fs.nodes[n], DOMAIN fs.nodes) BY <1>3 DEF Fine
  <2> QED BY <1>3, <2>1 DEF NodeOK, Closed, Entry, IsDirectory
<1>8. \A x \in DOMAIN d.open : OpenOK(d, x)
  BY <1>2, <1>3 DEF Fine, OpenOK, Roots
<1> QED BY <1>2, <1>4, <1>5, <1>6, <1>7, <1>8 DEF Fine, d, R

\* After Drop nothing is left that is not referred to.
LEMMA DropIsGood ==
  ASSUME NEW T, NEW fs, Fine(fs, T), Unique(fs.nodes)
  PROVE  Good(Drop(fs), T)
<1>1. PICK d : d = Drop(fs)
  OBVIOUS
<1>2. PICK R : R = Referred(fs)
  OBVIOUS
<1>3. d.nodes = [n \in R |-> fs.nodes[n]] /\ d.open = fs.open /\ Fine(d, T)
  BY <1>1, <1>2, Dropped
<1>4. /\ Roots(fs) \subseteq R /\ R \subseteq DOMAIN fs.nodes
      /\ \A N \in SUBSET DOMAIN fs.nodes :
           Roots(fs) \subseteq N /\ Closed(fs.nodes, N) => R \subseteq N
  BY <1>2, ReferredIsLeast
<1>5. /\ Roots(d) \subseteq Referred(d) /\ Referred(d) \subseteq DOMAIN d.nodes
      /\ Closed(d.nodes, Referred(d))
  BY <1>3, ReferredIsLeast
<1>6. Roots(d) = Roots(fs)
  BY <1>3 DEF Roots
<1>7. Closed(fs.nodes, Referred(d))
  BY <1>3, <1>4, <1>5 DEF Closed, Entry, IsDirectory
<1>8. Referred(d) = DOMAIN d.nodes
  BY <1>3, <1>4, <1>5, <1>6, <1>7
<1>9. Unique(d.nodes)
  <2>1. \A dir, name : Entry(d.nodes, dir, name) =>
          /\ Entry(fs.nodes, dir, name) /\ dir \in R
          /\ d.nodes[dir].entries[name] = fs.nodes[dir].entries[name]
          /\ d.nodes[dir].entries[name] \in R
    <3>1. \A dir \in R : \A name : Entry(d.nodes, dir, name) =>
            d.nodes[dir].entries[name] \in DOMAIN d.nodes
      BY <1>3, EntryThere DEF Entry
    <3> QED BY <1>3, <1>4, <3>1 DEF Entry, IsDirectory
  <2>2. \A n \in R : d.nodes[n] = fs.nodes[n] BY <1>3
  <2> SUFFICES ASSUME NEW d1, NEW d2, NEW n1, NEW n2, Twice(d.nodes, d1, n1, d2, n2)
               PROVE  d1 = d2 /\ n1 = n2
    BY DEF Unique
  <2> SUFFICES ASSUME Entry(d.nodes, d1, n1), Entry(d.nodes, d2, n2),
                      d.nodes[d1].entries[n1] = d.nodes[d2].entries[n2],
                      d.nodes[d.nodes[d1].entries[n1]].kind \in {"directory", "symlink"}
               PROVE  d1 = d2 /\ n1 = n2
    BY DEF Twice
  <2>3. /\ Entry(fs.nodes, d1, n1) /\ Entry(fs.nodes, d2, n2)
        /\ fs.nodes[d1].entries[n1] = fs.nodes[d2].entries[n2]
    BY <2>1
  <2>4. d.nodes[d.nodes[d1].entries[n1]] = fs.nodes[fs.nodes[d1].entries[n1]]
    BY <2>1, <2>2
  <2>5. Twice(fs.nodes, d1, n1, d2, n2)
    BY <2>3, <2>4 DEF Twice
  <2> QED BY <2>5 DEF Unique
<1> QED BY <1>1, <1>3, <1>8, <1>9 DEF Good

\* What was only added is gone.
LEMMA DropUndoes ==
  ASSUME NEW T, NEW fs, Good(fs, T), NEW more, Fine(more, T), Extends(fs, more)
  PROVE  Drop(more) = fs
<1>1. PICK R : R = Referred(more)
  OBVIOUS
<1>2. /\ Roots(more) \subseteq R /\ R \subseteq DOMAIN more.nodes /\ Closed(more.nodes, R)
      /\ \A N \in SUBSET DOMAIN more.nodes :
           Roots(more) \subseteq N /\ Closed(more.nodes, N) => R \subseteq N
  BY <1>1, ReferredIsLeast
<1>3. PICK D : D = DOMAIN fs.nodes
  OBVIOUS
<1>4. /\ Roots(fs) \subseteq D
      /\ \A N \in SUBSET D : Roots(fs) \subseteq N /\ Closed(fs.nodes, N) => D \subseteq N
  BY <1>3, ReferredIsLeast DEF Good
<1>5. Roots(more) = Roots(fs)
  BY DEF Extends, Roots
<1>6. D \subseteq DOMAIN more.nodes /\ \A n \in D : more.nodes[n] = fs.nodes[n]
  BY <1>3 DEF Extends
<1>7. Closed(more.nodes, D)
  <2>1. \A dir \in D : \A name : Entry(fs.nodes, dir, name) => fs.nodes[dir].entries[name] \in D
    BY <1>3, EntryThere DEF Good, Entry
  <2> QED BY <1>3, <1>6, <2>1 DEF Closed, Entry, IsDirectory
<1>8. R \subseteq D
  BY <1>2, <1>4, <1>5, <1>6, <1>7
<1>9. Closed(fs.nodes, R)
  BY <1>2, <1>3, <1>6, <1>8 DEF Closed, Entry, IsDirectory
<1>10. R = D
  BY <1>2, <1>4, <1>5, <1>8, <1>9
<1>11. Drop(more).nodes = [n \in D |-> more.nodes[n]] /\ Drop(more).open = more.open
       /\ Drop(more).next = more.next /\ Fine(Drop(more), T)
  BY <1>1, <1>10, Dropped
<1>12. fs.nodes = [n \in D |-> fs.nodes[n]]
  BY <1>3, Systems DEF Good, Fine
<1>13. Drop(more).nodes = fs.nodes /\ Drop(more).open = fs.open /\ Drop(more).next = fs.next
  BY <1>6, <1>11, <1>12 DEF Extends
<1>14. fs \in FileSystems(T) /\ Drop(more) \in FileSystems(T)
  BY <1>11 DEF Good, Fine
<1> QED BY <1>13, <1>14, Systems

-----------------------------------------------------------------------------
(* One place for each directory and link. *)

\* The entries after one was put in, or taken away.
LEMMA EntriesEntered ==
  ASSUME NEW fs, NEW dir \in DOMAIN fs.nodes, IsDirectory(fs.nodes, dir), NEW name, NEW n,
         NEW after, Entered(fs, after, dir, name, n),
         n \notin DOMAIN fs.nodes /\ after.nodes[n].kind = "directory" =>
           DOMAIN after.nodes[n].entries = {},
         NEW d, NEW m, Entry(after.nodes, d, m)
  PROVE  \/ /\ Entry(fs.nodes, d, m)
            /\ after.nodes[d].entries[m] = fs.nodes[d].entries[m]
         \/ d = dir /\ m = name /\ after.nodes[d].entries[m] = n
<1>1. CASE d = dir
  BY <1>1 DEF Entry, Entered, Directory, With, IsDirectory
<1>2. CASE d # dir /\ d \in DOMAIN fs.nodes
  BY <1>2 DEF Entry, Entered, IsDirectory
<1>3. CASE d # dir /\ d \notin DOMAIN fs.nodes
  BY <1>3 DEF Entry, Entered, IsDirectory
<1> QED BY <1>1, <1>2, <1>3

\* Once an entry is removed, the others are as before.
LEMMA EntriesLeft ==
  ASSUME NEW fs, NEW dir \in DOMAIN fs.nodes, IsDirectory(fs.nodes, dir), NEW name,
         NEW after, Left(fs, after, dir, name),
         NEW d, NEW m, Entry(after.nodes, d, m)
  PROVE  /\ Entry(fs.nodes, d, m) /\ ~(d = dir /\ m = name)
         /\ after.nodes[d].entries[m] = fs.nodes[d].entries[m]
<1>1. CASE d = dir
  BY <1>1 DEF Entry, Left, Directory, Without, IsDirectory
<1>2. CASE d # dir
  BY <1>2 DEF Entry, Left, IsDirectory
<1> QED BY <1>1, <1>2

\* A node without entries of its own is entered, which had no place if it is
\* a directory or a link.
LEMMA EnteredUnique ==
  ASSUME NEW T, NEW fs, Fine(fs, T), Unique(fs.nodes),
         NEW dir \in DOMAIN fs.nodes, IsDirectory(fs.nodes, dir), NEW name, NEW n,
         NEW after, Entered(fs, after, dir, name, n),
         n \notin DOMAIN fs.nodes /\ after.nodes[n].kind = "directory" =>
           DOMAIN after.nodes[n].entries = {},
         after.nodes[n].kind \in {"directory", "symlink"} =>
           \A d, m : Entry(fs.nodes, d, m) => fs.nodes[d].entries[m] # n
  PROVE  Unique(after.nodes)
<1>1. \A d, m : Entry(after.nodes, d, m) =>
        \/ /\ Entry(fs.nodes, d, m)
           /\ after.nodes[d].entries[m] = fs.nodes[d].entries[m]
        \/ d = dir /\ m = name /\ after.nodes[d].entries[m] = n
  BY EntriesEntered
<1>2. \A d, m : Entry(fs.nodes, d, m) =>
        /\ fs.nodes[d].entries[m] \in DOMAIN fs.nodes
        /\ after.nodes[fs.nodes[d].entries[m]].kind = fs.nodes[fs.nodes[d].entries[m]].kind
  <2> SUFFICES ASSUME NEW d, NEW m, Entry(fs.nodes, d, m)
               PROVE  fs.nodes[d].entries[m] \in DOMAIN fs.nodes
    BY DEF Entered
  <2> QED BY EntryThere DEF Entry
<1> SUFFICES ASSUME NEW d1, NEW d2, NEW n1, NEW n2, Twice(after.nodes, d1, n1, d2, n2)
             PROVE  d1 = d2 /\ n1 = n2
  BY DEF Unique
<1> SUFFICES ASSUME Entry(after.nodes, d1, n1), Entry(after.nodes, d2, n2),
                    after.nodes[d1].entries[n1] = after.nodes[d2].entries[n2],
                    after.nodes[after.nodes[d1].entries[n1]].kind \in {"directory", "symlink"}
             PROVE  d1 = d2 /\ n1 = n2
  BY DEF Twice
<1>3. CASE /\ Entry(fs.nodes, d1, n1)
           /\ after.nodes[d1].entries[n1] = fs.nodes[d1].entries[n1]
           /\ Entry(fs.nodes, d2, n2)
           /\ after.nodes[d2].entries[n2] = fs.nodes[d2].entries[n2]
  <2>1. PICK v : v = fs.nodes[d1].entries[n1]
    OBVIOUS
  <2>2. fs.nodes[v].kind \in {"directory", "symlink"}
    BY <1>2, <1>3, <2>1
  <2>3. fs.nodes[d1].entries[n1] = v /\ fs.nodes[d2].entries[n2] = v
    BY <1>3, <2>1
  <2>4. Twice(fs.nodes, d1, n1, d2, n2)
    BY <1>3, <2>2, <2>3 DEF Twice
  <2> QED BY <2>4 DEF Unique
<1>4. CASE after.nodes[d1].entries[n1] = n
  <2>1. after.nodes[n].kind \in {"directory", "symlink"}
    BY <1>4
  <2>2. \A d, m : Entry(fs.nodes, d, m) => fs.nodes[d].entries[m] # n
    BY <2>1
  <2>3. d1 = dir /\ n1 = name
    BY <1>1, <1>4, <2>2
  <2>4. d2 = dir /\ n2 = name
    <3>1. after.nodes[d2].entries[n2] = n BY <1>4
    <3> QED BY <1>1, <2>2, <3>1
  <2> QED BY <2>3, <2>4
<1> QED BY <1>1, <1>3, <1>4

\* To enter a node that is new keeps each directory and link in one place.
LEMMA CreatedUnique ==
  ASSUME NEW T, NEW fs, Fine(fs, T), Unique(fs.nodes),
         NEW dir \in DOMAIN fs.nodes, IsDirectory(fs.nodes, dir), NEW name, NEW n,
         NEW after, Entered(fs, after, dir, name, n), n \notin DOMAIN fs.nodes,
         after.nodes[n].kind = "directory" => DOMAIN after.nodes[n].entries = {}
  PROVE  Unique(after.nodes)
<1>1. \A d, m : Entry(fs.nodes, d, m) => fs.nodes[d].entries[m] # n
  BY EntryThere DEF Entry
<1> QED BY <1>1, EnteredUnique

\* To remove an entry does so, too.
LEMMA LeftUnique ==
  ASSUME NEW T, NEW fs, Fine(fs, T), Unique(fs.nodes),
         NEW dir \in DOMAIN fs.nodes, IsDirectory(fs.nodes, dir), NEW name,
         NEW after, Left(fs, after, dir, name)
  PROVE  Unique(after.nodes)
<1>1. \A d, m : Entry(after.nodes, d, m) =>
        /\ Entry(fs.nodes, d, m)
        /\ after.nodes[d].entries[m] = fs.nodes[d].entries[m]
  BY EntriesLeft
<1>2. \A d, m : Entry(fs.nodes, d, m) =>
        after.nodes[fs.nodes[d].entries[m]].kind = fs.nodes[fs.nodes[d].entries[m]].kind
  <2> SUFFICES ASSUME NEW d, NEW m, Entry(fs.nodes, d, m)
               PROVE  fs.nodes[d].entries[m] \in DOMAIN fs.nodes
    BY DEF Left
  <2> QED BY EntryThere DEF Entry
<1> SUFFICES ASSUME NEW d1, NEW d2, NEW n1, NEW n2, Twice(after.nodes, d1, n1, d2, n2)
             PROVE  d1 = d2 /\ n1 = n2
  BY DEF Unique
<1> SUFFICES ASSUME Entry(after.nodes, d1, n1), Entry(after.nodes, d2, n2),
                    after.nodes[d1].entries[n1] = after.nodes[d2].entries[n2],
                    after.nodes[after.nodes[d1].entries[n1]].kind \in {"directory", "symlink"}
             PROVE  d1 = d2 /\ n1 = n2
  BY DEF Twice
<1>3. fs.nodes[fs.nodes[d1].entries[n1]].kind \in {"directory", "symlink"}
  BY <1>1, <1>2
<1>4. Twice(fs.nodes, d1, n1, d2, n2)
  BY <1>1, <1>3 DEF Twice
<1> QED BY <1>4 DEF Unique

-----------------------------------------------------------------------------
(* Paths. *)

\* Recursion upward from zero.
CountsUp(S, V, first, step) ==
  /\ S = Nat \/ \E n \in Nat : S = 0 .. n
  /\ first \in V /\ step \in [(S \ {0}) \X V -> V]

\* A sequence defined by its first element and the step to the next exists.
LEMMA CountingUp ==
  ASSUME NEW S, NEW V, NEW first, NEW step, CountsUp(S, V, first, step)
  PROVE  \E g \in [S -> V] : \A k \in S : g[k] = IF k = 0 THEN first ELSE step[<<k, g[k - 1]>>]
<1> DEFINE R == {<<k - 1, k>> : k \in S}
           next == [k \in S \ {0} |-> k - 1]
           base == [k \in {0} |-> first]
<1>1. S \subseteq Nat /\ 0 \in S /\ \A k \in S \ {0} : k - 1 \in S
  BY DEF CountsUp
<1>2. IsWellFoundedOn(R, S)
  <2>1. ASSUME NEW P \in SUBSET S, P # {} PROVE \E x \in P : \A y \in P : ~(<<y, x>> \in R)
    <3>1. PICK x \in P : \A y \in P : x <= y
      BY <1>1, <2>1, LeastNat
    <3> QED BY <1>1, <3>1
  <2> HIDE DEF R
  <2> QED BY <2>1, MinWF
<1>3. RecursiveOn(S, R, V, {0}, base, next, step)
  <2>1. next \in [S \ {0} -> S] /\ \A x \in S \ {0} : <<next[x], x>> \in R
    BY <1>1
  <2>2. {0} \in SUBSET S /\ base \in [{0} -> V]
    BY <1>1 DEF CountsUp
  <2> HIDE DEF R, next, base
  <2> QED BY <1>2, <2>1, <2>2 DEF CountsUp, RecursiveOn
<1> HIDE DEF R, next, base
<1>4. PICK g \in [S -> V] : Solves(g, S, {0}, base, next, step)
  BY <1>3, Recursion
<1>5. \A k \in S : g[k] = IF k = 0 THEN first ELSE step[<<k, g[k - 1]>>]
  BY <1>4 DEF next, base, Solves
<1> QED BY <1>5

\* A path, or an error.
PathOutcomes == [error : {Ok}, value : Seq(STRING)] \cup [error : {"EINVAL"}, value : {0}]

\* The components of a path are names, or an error.
LEMMA ComponentsAreNames ==
  ASSUME NEW base \in Seq(STRING), NEW parts \in Seq(STRING)
  PROVE  apply_components(base, parts) \in PathOutcomes
<1> DEFINE Apply(r, part) ==
             IF r.error # Ok \/ part = "." THEN r
             ELSE IF part = ".."
                  THEN IF r.value = <<>> THEN Missing("EINVAL") ELSE Found(Front(r.value))
             ELSE IF Len(r.value) >= MaxSegments THEN Missing("EINVAL")
             ELSE Found(Append(r.value, part))
           S == 0 .. Len(parts)
           Grow(g) == [k \in S |-> IF k = 0 THEN Found(base) ELSE Apply(g[k - 1], parts[k])]
           upto == CHOOSE g : g = Grow(g)
           up == S \ {0}
           step == [p \in up \X PathOutcomes |-> Apply(p[2], parts[p[1]])]
<1>1. apply_components(base, parts) = upto[Len(parts)]
  BY DEF apply_components
<1>2. Missing("EINVAL") \in PathOutcomes /\ \A s \in Seq(STRING) : Found(s) \in PathOutcomes
  BY DEF Missing, Found, PathOutcomes
<1>3. ASSUME NEW r \in PathOutcomes, NEW part \in STRING PROVE Apply(r, part) \in PathOutcomes
  <2>1. CASE r.error # Ok \/ part = "."
    BY <2>1
  <2>2. CASE r.error = Ok /\ part # "." /\ part = ".."
    <3>1. r.value \in Seq(STRING) BY <2>2 DEF PathOutcomes, Ok
    <3>2. r.value # <<>> => Front(r.value) \in Seq(STRING) BY <3>1 DEF Front
    <3> QED BY <1>2, <2>2, <3>1, <3>2
  <2>3. CASE r.error = Ok /\ part # "." /\ part # ".."
    <3>1. r.value \in Seq(STRING) BY <2>3 DEF PathOutcomes, Ok
    <3>2. Append(r.value, part) \in Seq(STRING) BY <3>1
    <3> QED BY <1>2, <2>3, <3>1, <3>2
  <2> QED BY <2>1, <2>2, <2>3
<1>4. \A k \in up : parts[k] \in STRING
  OBVIOUS
<1> HIDE DEF Apply
<1>5. step \in [up \X PathOutcomes -> PathOutcomes]
  BY <1>3, <1>4
<1>6. S = Nat \/ \E n \in Nat : S = 0 .. n
  OBVIOUS
<1> HIDE DEF S
<1>7. \E g : g = Grow(g)
  <2> HIDE DEF step
  <2>1. PICK g \in [S -> PathOutcomes] :
          \A k \in S : g[k] = IF k = 0 THEN Found(base) ELSE step[<<k, g[k - 1]>>]
    <3>1. CountsUp(S, PathOutcomes, Found(base), step)
      BY <1>2, <1>5, <1>6 DEF CountsUp, up
    <3> QED BY <3>1, CountingUp
  <2>2. \A k \in S \ {0} : k - 1 \in S
    BY DEF S
  <2>3. \A k \in S : g[k] = IF k = 0 THEN Found(base) ELSE Apply(g[k - 1], parts[k])
    BY <2>1, <2>2 DEF step
  <2>4. g = Grow(g)
    BY <2>1, <2>3
  <2> QED BY <2>4
<1>8. upto = Grow(upto)
  <2> HIDE DEF Grow
  <2> QED BY <1>7
<1> HIDE DEF upto
<1> DEFINE P == {k \in Nat : k \in S => upto[k] \in PathOutcomes}
<1>9. 0 \in P
  BY <1>2, <1>8 DEF S
<1>10. ASSUME NEW k \in Nat, k \in P PROVE k + 1 \in P
  <2>1. SUFFICES ASSUME k + 1 \in S PROVE upto[k + 1] \in PathOutcomes
    OBVIOUS
  <2>2. k \in S
    BY <2>1 DEF S
  <2>3. upto[k + 1] = Apply(upto[k], parts[k + 1])
    <3>1. k + 1 # 0 /\ (k + 1) - 1 = k OBVIOUS
    <3> QED BY <1>8, <2>1, <3>1
  <2>4. k + 1 \in S \ {0}
    BY <2>1
  <2> QED BY <1>3, <1>4, <1>10, <2>2, <2>3, <2>4
<1>11. Len(parts) \in Nat /\ Len(parts) \in S
  BY DEF S
<1>12. Len(parts) \in P
  <2> HIDE DEF P
  <2> QED BY <1>9, <1>10, <1>11, SetInduction
<1> QED BY <1>1, <1>11, <1>12

\* What a path leads to is there, and is no link if links are followed.
Reached(fs, r, follow) ==
  r.error = Ok =>
    /\ r.value.node \in DOMAIN fs.nodes /\ r.value.path \in Seq(STRING)
    /\ follow => fs.nodes[r.value.node].kind # "symlink"

\* The walk of resolve_components: where it is, how it goes on and where it
\* stops.  It is nearer to its end with another link followed, or with less of
\* the path before it.
Cursors(nodes) == [at : DOMAIN nodes, resolved : Seq(STRING), pending : Seq(STRING),
                   links : 0 .. MaxLinks]
ChildOf(nodes, c)  == nodes[c.at].entries[Head(c.pending)]
TargetOf(nodes, c) == target_components(c.resolved, nodes[ChildOf(nodes, c)].target)
Inside(nodes, c) ==
  c.pending # <<>> /\ IsDirectory(nodes, c.at) /\ Has(nodes, c.at, Head(c.pending))
Enters(nodes, follow, c) ==
  nodes[ChildOf(nodes, c)].kind # "symlink" \/ (~follow /\ Len(c.pending) = 1)
DownFrom(nodes, c) ==
  [at |-> ChildOf(nodes, c), resolved |-> Append(c.resolved, Head(c.pending)),
   pending |-> Tail(c.pending), links |-> c.links]
AgainFrom(nodes, c) ==
  [at |-> Root, resolved |-> <<>>,
   pending |-> TargetOf(nodes, c).value \o Tail(c.pending), links |-> c.links + 1]
Goes(nodes, follow, c) ==
  /\ Inside(nodes, c)
  /\ Enters(nodes, follow, c) \/ (c.links # MaxLinks /\ TargetOf(nodes, c).error = Ok)
Onward(nodes, follow, c) ==
  IF Enters(nodes, follow, c) THEN DownFrom(nodes, c) ELSE AgainFrom(nodes, c)
Ended(nodes, c) ==
  IF c.pending = <<>> THEN Found([node |-> c.at, path |-> c.resolved])
  ELSE IF ~IsDirectory(nodes, c.at) THEN Missing("ENOTDIR")
  ELSE IF ~Has(nodes, c.at, Head(c.pending)) THEN Missing("ENOENT")
  ELSE IF c.links = MaxLinks THEN Missing("ELOOP")
  ELSE TargetOf(nodes, c)
WalkOutcomes(nodes) ==
  [error : {Ok}, value : [node : DOMAIN nodes, path : Seq(STRING)]]
  \cup [error : {"EINVAL", "ENOTDIR", "ENOENT", "ELOOP"}, value : {0}]
Closer(d, c) ==
  \/ d.links > c.links
  \/ d.links = c.links /\ Len(d.pending) < Len(c.pending)
Nearer(nodes) == {p \in Cursors(nodes) \X Cursors(nodes) : Closer(p[1], p[2])}

\* At a cursor inside the tree, the next name leads to a node.
LEMMA CursorInside ==
  ASSUME NEW T, NEW fs, Fine(fs, T), NEW c \in Cursors(fs.nodes), Inside(fs.nodes, c)
  PROVE  /\ ChildOf(fs.nodes, c) \in DOMAIN fs.nodes /\ Head(c.pending) \in STRING
         /\ Tail(c.pending) \in Seq(STRING)
         /\ Len(Tail(c.pending)) \in Nat /\ Len(c.pending) \in Nat
         /\ Len(Tail(c.pending)) < Len(c.pending)
<1>1. c.at \in DOMAIN fs.nodes /\ c.pending \in Seq(STRING) /\ c.pending # <<>>
  BY DEF Cursors, Inside
<1>2. IsDirectory(fs.nodes, c.at) /\ Head(c.pending) \in DOMAIN fs.nodes[c.at].entries
  BY DEF Inside, Has
<1>3. ChildOf(fs.nodes, c) \in DOMAIN fs.nodes
  BY <1>1, <1>2, EntryThere DEF ChildOf
<1>4. /\ Head(c.pending) \in STRING /\ Tail(c.pending) \in Seq(STRING)
      /\ Len(Tail(c.pending)) \in Nat /\ Len(c.pending) \in Nat
      /\ Len(Tail(c.pending)) < Len(c.pending)
  <2>1. PICK s : s = c.pending
    OBVIOUS
  <2>2. s \in Seq(STRING) /\ s # <<>>
    BY <1>1, <2>1
  <2>3. Tail(s) \in Seq(STRING) /\ Len(Tail(s)) = Len(s) - 1 /\ Head(s) \in STRING
    BY <2>2, HeadTailProperties
  <2>4. Len(s) \in Nat /\ Len(s) > 0
    BY <2>2, EmptySeq, LenProperties
  <2> QED BY <2>1, <2>3, <2>4
<1> QED BY <1>3, <1>4

\* The target of a link is a path, or an error.
LEMMA LinkTarget ==
  ASSUME NEW T, T \subseteq TargetSet, NEW fs, Fine(fs, T), NEW follow,
         NEW c \in Cursors(fs.nodes), Inside(fs.nodes, c), ~Enters(fs.nodes, follow, c)
  PROVE  TargetOf(fs.nodes, c) \in PathOutcomes
<1>1. PICK child : child = ChildOf(fs.nodes, c)
  OBVIOUS
<1>2. child \in DOMAIN fs.nodes /\ fs.nodes[child].kind = "symlink"
  BY <1>1, CursorInside DEF Enters
<1>3. PICK target : target = fs.nodes[child].target
  OBVIOUS
<1>4. target \in TargetSet
  BY <1>2, <1>3, NodeKinds
<1>5. target.parts \in Seq(STRING)
  BY <1>4 DEF TargetSet
<1>6. PICK above : above = IF target.absolute THEN <<>> ELSE c.resolved
  OBVIOUS
<1>7. above \in Seq(STRING)
  <2>1. above = <<>> \/ above = c.resolved BY <1>6
  <2>2. <<>> \in Seq(STRING) /\ c.resolved \in Seq(STRING) BY DEF Cursors
  <2> QED BY <2>1, <2>2
<1>8. TargetOf(fs.nodes, c) = apply_components(above, target.parts)
  BY <1>1, <1>3, <1>6 DEF TargetOf, target_components
<1> QED BY <1>5, <1>7, <1>8, ComponentsAreNames

\* The root is a directory.
LEMMA RootIsThere ==
  ASSUME NEW T, NEW fs, Fine(fs, T)
  PROVE  /\ Root \in DOMAIN fs.nodes /\ fs.nodes[Root].kind = "directory"
         /\ MaxLinks \in Nat
BY FileLimits DEF Fine, FixedOK, Fixed, Root, NewFileSystem, Directory

\* The walk goes on to a cursor, and nearer to its end.
LEMMA GoesNearer ==
  ASSUME NEW T, T \subseteq TargetSet, NEW fs, Fine(fs, T), NEW follow,
         NEW c \in Cursors(fs.nodes), Goes(fs.nodes, follow, c),
         NEW d, d = Onward(fs.nodes, follow, c)
  PROVE  /\ d \in Cursors(fs.nodes) /\ <<d, c>> \in Nearer(fs.nodes)
         /\ (follow /\ fs.nodes[c.at].kind # "symlink") => fs.nodes[d.at].kind # "symlink"
<1>1. Inside(fs.nodes, c)
  BY DEF Goes
<1>2. /\ ChildOf(fs.nodes, c) \in DOMAIN fs.nodes /\ Head(c.pending) \in STRING
      /\ Tail(c.pending) \in Seq(STRING)
      /\ Len(Tail(c.pending)) \in Nat /\ Len(c.pending) \in Nat
      /\ Len(Tail(c.pending)) < Len(c.pending)
  BY <1>1, CursorInside
<1>3. Root \in DOMAIN fs.nodes /\ fs.nodes[Root].kind = "directory" /\ MaxLinks \in Nat
  BY RootIsThere
<1>4. c.resolved \in Seq(STRING) /\ c.links \in 0 .. MaxLinks
  BY DEF Cursors
<1>5. CASE Enters(fs.nodes, follow, c)
  <2>1. PICK child : child = ChildOf(fs.nodes, c)
    OBVIOUS
  <2>2. PICK longer : longer = Append(c.resolved, Head(c.pending))
    BY Zenon
  <2>3. PICK rest : rest = Tail(c.pending)
    BY Zenon
  <2>4. d = [at |-> child, resolved |-> longer, pending |-> rest, links |-> c.links]
    BY <1>5, <2>1, <2>2, <2>3 DEF Onward, DownFrom
  <2>5. longer \in Seq(STRING)
    BY <1>2, <1>4, <2>2
  <2>6. d \in Cursors(fs.nodes)
    BY <1>2, <1>4, <2>1, <2>3, <2>4, <2>5 DEF Cursors
  <2>7. Closer(d, c)
    BY <1>2, <2>3, <2>4 DEF Closer
  <2>8. follow => fs.nodes[child].kind # "symlink"
    BY <1>5, <2>1 DEF Enters
  <2> QED BY <2>4, <2>6, <2>7, <2>8 DEF Nearer
<1>6. CASE ~Enters(fs.nodes, follow, c)
  <2>1. PICK target : target = TargetOf(fs.nodes, c)
    OBVIOUS
  <2>2. target \in PathOutcomes /\ target.error = Ok /\ c.links # MaxLinks
    BY <1>1, <1>6, <2>1, LinkTarget DEF Goes
  <2>3. target.value \in Seq(STRING)
    BY <2>2 DEF PathOutcomes, Ok
  <2>4. PICK pending : pending = target.value \o Tail(c.pending)
    BY Zenon
  <2>5. pending \in Seq(STRING)
    BY <1>2, <2>3, <2>4
  <2>6. d = [at |-> Root, resolved |-> <<>>, pending |-> pending, links |-> c.links + 1]
    BY <1>6, <2>1, <2>4 DEF Onward, AgainFrom
  <2>7. c.links + 1 \in 0 .. MaxLinks /\ c.links + 1 > c.links
    BY <1>3, <1>4, <2>2
  <2>8. <<>> \in Seq(STRING)
    OBVIOUS
  <2>9. d \in Cursors(fs.nodes)
    BY <1>3, <2>5, <2>6, <2>7, <2>8 DEF Cursors
  <2>10. Closer(d, c)
    BY <2>6, <2>7 DEF Closer
  <2> QED BY <1>3, <2>6, <2>9, <2>10 DEF Nearer
<1> QED BY <1>5, <1>6

\* A walk that comes nearer with each step ends.
LEMMA NearerEnds ==
  ASSUME NEW nodes
  PROVE  IsWellFoundedOn(Nearer(nodes), Cursors(nodes))
<1>1. MaxLinks \in Nat
  BY FileLimits
<1>2. \A c \in Cursors(nodes) : c.links \in 0 .. MaxLinks /\ Len(c.pending) \in Nat
  <2>1. SUFFICES ASSUME NEW c \in Cursors(nodes)
                 PROVE  c.links \in 0 .. MaxLinks /\ Len(c.pending) \in Nat
    OBVIOUS
  <2>2. c.links \in 0 .. MaxLinks /\ c.pending \in Seq(STRING) BY DEF Cursors
  <2> QED BY <2>2
<1>3. ASSUME NEW P \in SUBSET Cursors(nodes), P # {}
      PROVE  \E c \in P : \A d \in P : ~(<<d, c>> \in Nearer(nodes))
  <2> DEFINE L == {MaxLinks - c.links : c \in P}
  <2>1. L \subseteq Nat /\ L # {}
    BY <1>1, <1>2, <1>3
  <2>2. PICK l \in L : \A m \in L : l <= m
    <3> HIDE DEF L
    <3> QED BY <2>1, LeastNat
  <2> DEFINE N == {Len(c.pending) : c \in {d \in P : MaxLinks - d.links = l}}
  <2>3. N \subseteq Nat /\ N # {}
    <3>1. PICK c \in P : MaxLinks - c.links = l
      BY <2>2
    <3>2. Len(c.pending) \in N
      BY <3>1
    <3>3. \A d \in P : Len(d.pending) \in Nat
      BY <1>2, <1>3
    <3> QED BY <3>2, <3>3
  <2>4. PICK n \in N : \A m \in N : n <= m
    <3> HIDE DEF N
    <3> QED BY <2>3, LeastNat
  <2>5. PICK c \in P : MaxLinks - c.links = l /\ Len(c.pending) = n
    BY <2>4
  <2>6. ASSUME NEW d \in P, <<d, c>> \in Nearer(nodes) PROVE FALSE
    <3>1. Closer(d, c)
      BY <2>6 DEF Nearer
    <3>2. MaxLinks - d.links \in L
      OBVIOUS
    <3>3. l <= MaxLinks - d.links
      BY <2>2, <3>2
    <3>4. c.links \in Nat /\ d.links \in Nat /\ l = MaxLinks - c.links
      BY <1>2, <1>3, <2>5
    <3>5. d.links <= c.links
      BY <1>1, <3>3, <3>4
    <3>6. d.links = c.links /\ Len(d.pending) < Len(c.pending)
      BY <3>1, <3>4, <3>5 DEF Closer
    <3>7. Len(d.pending) \in N
      BY <3>4, <3>6
    <3>8. Len(d.pending) \in Nat /\ n \in Nat /\ n <= Len(d.pending)
      BY <2>3, <2>4, <3>7
    <3>9. Len(d.pending) < n
      BY <2>5, <3>6
    <3> QED BY <3>8, <3>9
  <2> QED BY <2>6
<1> QED BY <1>3, MinWF

\* A walk that ends has found a node, or throws.
LEMMA EndedOutcome ==
  ASSUME NEW T, T \subseteq TargetSet, NEW fs, Fine(fs, T), NEW follow,
         NEW c \in Cursors(fs.nodes), ~Goes(fs.nodes, follow, c)
  PROVE  /\ Ended(fs.nodes, c) \in WalkOutcomes(fs.nodes)
         /\ (follow => fs.nodes[c.at].kind # "symlink") => Reached(fs, Ended(fs.nodes, c), follow)
<1>1. PICK o : o = Ended(fs.nodes, c)
  OBVIOUS
<1>2. CASE c.pending = <<>>
  <2>1. o = Found([node |-> c.at, path |-> c.resolved])
    BY <1>1, <1>2 DEF Ended
  <2>2. c.at \in DOMAIN fs.nodes /\ c.resolved \in Seq(STRING)
    BY DEF Cursors
  <2> QED BY <1>1, <2>1, <2>2 DEF WalkOutcomes, Found, Reached
<1>3. CASE Inside(fs.nodes, c) /\ c.links # MaxLinks
  <2>1. o = TargetOf(fs.nodes, c)
    BY <1>1, <1>3 DEF Ended, Inside
  <2>2. o \in PathOutcomes /\ o.error # Ok
    BY <1>3, <2>1, LinkTarget DEF Goes
  <2> QED BY <1>1, <2>2 DEF PathOutcomes, WalkOutcomes, Reached
<1>4. CASE c.pending # <<>> /\ ~(Inside(fs.nodes, c) /\ c.links # MaxLinks)
  <2>1. \E e \in {"ENOTDIR", "ENOENT", "ELOOP"} : o = Missing(e)
    BY <1>1, <1>4 DEF Ended, Inside
  <2> QED BY <1>1, <2>1 DEF WalkOutcomes, Missing, Reached, Ok
<1> QED BY <1>2, <1>3, <1>4

\* So path resolution ends at a node that is there, behind links if they
\* are followed, or throws.
LEMMA WalkReaches ==
  ASSUME NEW T, T \subseteq TargetSet, NEW fs, Fine(fs, T), NEW components \in Seq(STRING),
         NEW follow \in BOOLEAN
  PROVE  Reached(fs, resolve_components(fs.nodes, components, follow), follow)
<1> DEFINE nodes == fs.nodes
           Grow(g) == [c \in Cursors(nodes) |->
                         IF c.pending = <<>> THEN Found([node |-> c.at, path |-> c.resolved])
                         ELSE IF ~IsDirectory(nodes, c.at) THEN Missing("ENOTDIR")
                         ELSE IF ~Has(nodes, c.at, Head(c.pending)) THEN Missing("ENOENT")
                         ELSE IF Enters(nodes, follow, c) THEN g[DownFrom(nodes, c)]
                         ELSE IF c.links = MaxLinks THEN Missing("ELOOP")
                         ELSE IF TargetOf(nodes, c).error # Ok THEN TargetOf(nodes, c)
                         ELSE g[AgainFrom(nodes, c)]]
           walk == CHOOSE g : g = Grow(g)
           first == [at |-> Root, resolved |-> <<>>, pending |-> components, links |-> 0]
<1>1. resolve_components(fs.nodes, components, follow) = walk[first]
  BY DEF resolve_components, Cursors, Enters, ChildOf, DownFrom, AgainFrom, TargetOf
<1>2. PICK C : C = Cursors(nodes)
  OBVIOUS
<1>3. PICK V : V = WalkOutcomes(nodes)
  OBVIOUS
<1>4. PICK stop : stop = {c \in C : ~Goes(nodes, follow, c)}
  OBVIOUS
<1>5. PICK next : next = [c \in C \ stop |-> Onward(nodes, follow, c)]
  OBVIOUS
<1>6. PICK base : base = [c \in stop |-> Ended(nodes, c)]
  OBVIOUS
<1>7. PICK step : step = [p \in (C \ stop) \X V |-> p[2]]
  OBVIOUS
<1>8. IsWellFoundedOn(Nearer(nodes), C)
  BY <1>2, NearerEnds
<1>9. ASSUME NEW g, NEW c \in C
      PROVE  Grow(g)[c] = IF c \in stop THEN base[c] ELSE g[next[c]]
  <2>1. PICK v : v = Grow(g)[c]
    OBVIOUS
  <2>2. v = IF c.pending = <<>> THEN Found([node |-> c.at, path |-> c.resolved])
            ELSE IF ~IsDirectory(nodes, c.at) THEN Missing("ENOTDIR")
            ELSE IF ~Has(nodes, c.at, Head(c.pending)) THEN Missing("ENOENT")
            ELSE IF Enters(nodes, follow, c) THEN g[DownFrom(nodes, c)]
            ELSE IF c.links = MaxLinks THEN Missing("ELOOP")
            ELSE IF TargetOf(nodes, c).error # Ok THEN TargetOf(nodes, c)
            ELSE g[AgainFrom(nodes, c)]
    BY <1>2, <2>1
  <2>3. CASE Goes(nodes, follow, c)
    <3>1. v = g[Onward(nodes, follow, c)]
      <4>1. CASE Enters(nodes, follow, c)
        BY <2>2, <2>3, <4>1 DEF Goes, Inside, Onward
      <4>2. CASE ~Enters(nodes, follow, c)
        BY <2>2, <2>3, <4>2 DEF Goes, Inside, Onward
      <4> QED BY <4>1, <4>2
    <3>2. c \notin stop /\ next[c] = Onward(nodes, follow, c)
      BY <1>4, <1>5, <2>3
    <3> QED BY <2>1, <3>1, <3>2
  <2>4. CASE ~Goes(nodes, follow, c)
    <3>1. v = Ended(nodes, c)
      BY <2>2, <2>4 DEF Goes, Inside, Ended
    <3>2. c \in stop /\ base[c] = Ended(nodes, c)
      BY <1>4, <1>6, <2>4
    <3> QED BY <2>1, <3>1, <3>2
  <2> QED BY <2>3, <2>4
<1>10. base \in [stop -> V]
  <2>1. \A c \in stop : Ended(nodes, c) \in V
    BY <1>2, <1>3, <1>4, EndedOutcome
  <2> QED BY <1>6, <2>1
<1>11. \A c \in C \ stop :
         /\ next[c] \in C /\ <<next[c], c>> \in Nearer(nodes)
         /\ (follow /\ nodes[c.at].kind # "symlink") => nodes[next[c].at].kind # "symlink"
  <2>1. SUFFICES ASSUME NEW c \in C \ stop
                 PROVE  /\ next[c] \in C /\ <<next[c], c>> \in Nearer(nodes)
                        /\ (follow /\ nodes[c.at].kind # "symlink") =>
                             nodes[next[c].at].kind # "symlink"
    OBVIOUS
  <2>2. c \in Cursors(nodes) /\ Goes(nodes, follow, c) /\ next[c] = Onward(nodes, follow, c)
    BY <1>2, <1>4, <1>5
  <2> QED BY <1>2, <2>2, GoesNearer
<1>12. next \in [C \ stop -> C]
  BY <1>5, <1>11
<1>13. stop \in SUBSET C /\ step \in [(C \ stop) \X V -> V]
  BY <1>4, <1>7
<1>14. RecursiveOn(C, Nearer(nodes), V, stop, base, next, step)
  BY <1>8, <1>10, <1>11, <1>12, <1>13 DEF RecursiveOn
<1>15. \E g : g = Grow(g)
  <2>1. PICK g \in [C -> V] : Solves(g, C, stop, base, next, step)
    BY <1>14, Recursion
  <2>2. ASSUME NEW c \in C PROVE g[c] = Grow(g)[c]
    <3>1. CASE c \in stop
      <4>1. g[c] = base[c] BY <2>1, <3>1 DEF Solves
      <4> HIDE DEF Grow
      <4> QED BY <1>9, <3>1, <4>1
    <3>2. CASE c \notin stop
      <4>1. g[c] = step[<<c, g[next[c]]>>] BY <2>1, <3>2 DEF Solves
      <4>2. next[c] \in C BY <1>11, <3>2
      <4>3. <<c, g[next[c]]>> \in (C \ stop) \X V BY <2>1, <3>2, <4>2
      <4>4. g[c] = g[next[c]] BY <1>7, <4>1, <4>3
      <4> HIDE DEF Grow
      <4> QED BY <1>9, <3>2, <4>4
    <3> QED BY <3>1, <3>2
  <2>3. g = [c \in C |-> Grow(g)[c]]
    <3> HIDE DEF Grow
    <3> QED BY <2>1, <2>2
  <2>4. Grow(g) = [c \in C |-> Grow(g)[c]]
    <3>1. Grow(g) = [c \in DOMAIN Grow(g) |-> Grow(g)[c]] /\ DOMAIN Grow(g) = C
      BY <1>2
    <3> HIDE DEF Grow
    <3> QED BY <3>1
  <2> HIDE DEF Grow
  <2> QED BY <2>3, <2>4
<1>16. walk = Grow(walk)
  <2> HIDE DEF Grow
  <2> QED BY <1>15
<1>17. \A c \in C : walk[c] = IF c \in stop THEN base[c] ELSE walk[next[c]]
  <2> HIDE DEF Grow, walk
  <2> QED BY <1>9, <1>16
<1> HIDE DEF Grow, walk
<1> DEFINE P == {c \in C : /\ follow => nodes[c.at].kind # "symlink"
                           /\ ~Reached(fs, walk[c], follow)}
<1>18. P = {}
  <2>1. SUFFICES ASSUME P # {} PROVE FALSE
    OBVIOUS
  <2>2. PICK c \in P : \A d \in P : ~(<<d, c>> \in Nearer(nodes))
    <3>1. P \subseteq C OBVIOUS
    <3> HIDE DEF P
    <3> QED BY <1>8, <2>1, <3>1, WFMin
  <2>3. c \in C /\ (follow => nodes[c.at].kind # "symlink") /\ ~Reached(fs, walk[c], follow)
    BY <2>2
  <2>4. CASE c \in stop
    <3>1. walk[c] = Ended(nodes, c)
      BY <1>6, <1>17, <2>3, <2>4
    <3>2. c \in Cursors(nodes) /\ ~Goes(nodes, follow, c)
      BY <1>2, <1>4, <2>4
    <3> QED BY <2>3, <3>1, <3>2, EndedOutcome
  <2>5. CASE c \notin stop
    <3>1. walk[c] = walk[next[c]]
      BY <1>17, <2>3, <2>5
    <3>2. next[c] \in C /\ <<next[c], c>> \in Nearer(nodes)
          /\ (follow => nodes[next[c].at].kind # "symlink")
      BY <1>11, <2>3, <2>5
    <3>3. next[c] \in P
      BY <2>3, <3>1, <3>2
    <3> QED BY <2>2, <3>2, <3>3
  <2> QED BY <2>4, <2>5
<1>19. first \in C /\ nodes[first.at].kind # "symlink"
  <2>1. Root \in DOMAIN nodes /\ nodes[Root].kind = "directory" /\ MaxLinks \in Nat
    BY RootIsThere
  <2>2. <<>> \in Seq(STRING) /\ 0 \in 0 .. MaxLinks
    BY <2>1
  <2> QED BY <1>2, <2>1, <2>2 DEF Cursors
<1> QED BY <1>1, <1>18, <1>19

\* The same for a path as a worker writes it.
LEMMA ResolvedPath ==
  ASSUME NEW T, T \subseteq TargetSet, NEW fs, Fine(fs, T), NEW path \in Seq(STRING),
         NEW follow \in BOOLEAN
  PROVE  /\ Reached(fs, resolve_with_path(fs.nodes, path, follow), follow)
         /\ resolve(fs.nodes, path, follow).error = Ok =>
              /\ resolve(fs.nodes, path, follow).value \in DOMAIN fs.nodes
              /\ follow => fs.nodes[resolve(fs.nodes, path, follow).value].kind # "symlink"
<1>1. PICK components : components = absolute_components(path)
  OBVIOUS
<1>2. components \in PathOutcomes
  <2>1. <<>> \in Seq(STRING) OBVIOUS
  <2> QED BY <1>1, <2>1, ComponentsAreNames DEF absolute_components
<1>3. PICK r : r = resolve_with_path(fs.nodes, path, follow)
  OBVIOUS
<1>4. Reached(fs, r, follow)
  <2>1. CASE components.error # Ok
    <3>1. r = components BY <1>1, <1>3, <2>1 DEF resolve_with_path
    <3> QED BY <2>1, <3>1 DEF Reached
  <2>2. CASE components.error = Ok
    <3>1. components.value \in Seq(STRING) BY <1>2, <2>2 DEF PathOutcomes, Ok
    <3>2. r = resolve_components(fs.nodes, components.value, follow)
      BY <1>1, <1>3, <2>2 DEF resolve_with_path
    <3> QED BY <3>1, <3>2, WalkReaches
  <2> QED BY <2>1, <2>2
<1>5. resolve(fs.nodes, path, follow) = IF r.error # Ok THEN r ELSE Found(r.value.node)
  BY <1>3 DEF resolve
<1> QED BY <1>3, <1>4, <1>5 DEF Reached, Found

\* The parent of a path is a directory, and the rest of the path a name.
LEMMA ParentIsThere ==
  ASSUME NEW T, T \subseteq TargetSet, NEW fs, Fine(fs, T), NEW path \in Seq(STRING),
         NEW p, p = parent(fs.nodes, path), p.error = Ok
  PROVE  /\ p.value.dir \in DOMAIN fs.nodes /\ IsDirectory(fs.nodes, p.value.dir)
         /\ p.value.name \in STRING
<1>1. PICK components : components = absolute_components(path)
  OBVIOUS
<1>2. components \in PathOutcomes
  <2>1. <<>> \in Seq(STRING) OBVIOUS
  <2> QED BY <1>1, <2>1, ComponentsAreNames DEF absolute_components
<1>3. PICK dir : dir = resolve_components(fs.nodes, Front(components.value), TRUE)
  OBVIOUS
<1>4. p = IF components.error # Ok THEN components
          ELSE IF components.value = <<>> THEN Missing("EINVAL")
          ELSE IF dir.error # Ok THEN dir
          ELSE IF ~IsDirectory(fs.nodes, dir.value.node) THEN Missing("ENOTDIR")
          ELSE Found([dir |-> dir.value.node, name |-> Last(components.value)])
  BY <1>1, <1>3 DEF parent
<1>5. /\ components.error = Ok /\ components.value # <<>> /\ dir.error = Ok
      /\ IsDirectory(fs.nodes, dir.value.node)
      /\ p = Found([dir |-> dir.value.node, name |-> Last(components.value)])
  BY <1>4 DEF Missing, Ok
<1>6. components.value \in Seq(STRING)
  BY <1>2, <1>5 DEF PathOutcomes, Ok
<1>7. Front(components.value) \in Seq(STRING) /\ Last(components.value) \in STRING
  BY <1>5, <1>6 DEF Front, Last
<1>8. dir.value.node \in DOMAIN fs.nodes
  BY <1>3, <1>5, <1>7, WalkReaches DEF Reached
<1> QED BY <1>5, <1>7, <1>8 DEF Found

-----------------------------------------------------------------------------
(* Calls that work on names. *)

\* A call that succeeds leaves a tree; one that throws has made some nodes at
\* most, which nothing refers to.
Lawful(fs, o, T) == /\ Fine(o.fs, T)
                    /\ o.error = Ok => Unique(o.fs.nodes)
                    /\ o.error # Ok => Extends(fs, o.fs)

\* A call that does nothing is lawful, whether it throws or not.
LEMMA NothingDone ==
  ASSUME NEW T, NEW fs, Fine(fs, T), Unique(fs.nodes)
  PROVE  /\ Extends(fs, fs)
         /\ \A value : Lawful(fs, Return(fs, value), T)
         /\ \A code : code # Ok => Lawful(fs, Throw(fs, code), T)
BY DEF Extends, Lawful, Return, Throw

\* create makes a new file, link or empty directory.
LEMMA CreateLawful ==
  ASSUME NEW T, NEW fs, Fine(fs, T), Unique(fs.nodes),
         NEW node \in NodeSet(T), NodeOK(node, DOMAIN fs.nodes),
         node.kind = "directory" => DOMAIN node.entries = {},
         NEW dir \in DOMAIN fs.nodes, IsDirectory(fs.nodes, dir), NEW name \in STRING
  PROVE  Lawful(fs, create(fs, dir, name, node), T)
<1>1. PICK o : o = create(fs, dir, name, node)
  OBVIOUS
<1>2. /\ Fine(o.fs, T)
      /\ o.error # Ok => Extends(fs, o.fs) /\ Refused(fs, dir, name)
      /\ o.error = Ok => /\ o.value \notin DOMAIN fs.nodes /\ o.value # Root
                         /\ o.fs.nodes[o.value] = node
                         /\ Entered(fs, o.fs, dir, name, o.value)
  <2>1. CreateDoes(T, fs, dir, name, node, o)
    BY <1>1, Created
  <2> QED BY <2>1 DEF CreateDoes
<1>3. o.error = Ok => Unique(o.fs.nodes)
  <2>1. PICK n : n = o.value OBVIOUS
  <2>2. PICK after : after = o.fs OBVIOUS
  <2>3. ASSUME o.error = Ok PROVE Unique(after.nodes)
    <3>1. /\ n \notin DOMAIN fs.nodes /\ after.nodes[n] = node
          /\ Entered(fs, after, dir, name, n)
      BY <1>2, <2>1, <2>2, <2>3
    <3> QED BY <3>1, CreatedUnique
  <2> QED BY <2>2, <2>3
<1> QED BY <1>1, <1>2, <1>3 DEF Lawful

\* insert enters a directory or a link only if it has no place yet.
LEMMA InsertLawful ==
  ASSUME NEW T, NEW fs, Fine(fs, T), Unique(fs.nodes),
         NEW dir \in DOMAIN fs.nodes, IsDirectory(fs.nodes, dir), NEW name \in STRING,
         NEW n \in DOMAIN fs.nodes \ {Root},
         fs.nodes[n].kind \in {"directory", "symlink"} =>
           \A d, m : Entry(fs.nodes, d, m) => fs.nodes[d].entries[m] # n
  PROVE  Lawful(fs, insert(fs, dir, name, n), T)
<1>1. PICK o : o = insert(fs, dir, name, n)
  OBVIOUS
<1>2. /\ Fine(o.fs, T)
      /\ o.error # Ok => o.fs = fs /\ Refused(fs, dir, name)
      /\ o.error = Ok => o.value = n /\ Entered(fs, o.fs, dir, name, n)
  <2>1. InsertDoes(T, fs, dir, name, n, o)
    BY <1>1, Inserted
  <2> QED BY <2>1 DEF InsertDoes
<1>3. ASSUME o.error = Ok PROVE Unique(o.fs.nodes)
  <2>1. PICK after : after = o.fs OBVIOUS
  <2>2. Entered(fs, after, dir, name, n) BY <1>2, <1>3, <2>1
  <2>3. after.nodes[n].kind = fs.nodes[n].kind BY <2>2 DEF Entered
  <2>4. Unique(after.nodes) BY <2>2, <2>3, EnteredUnique
  <2> QED BY <2>1, <2>4
<1> QED BY <1>1, <1>2, <1>3 DEF Lawful, Extends

\* unlink removes an entry, or throws.
LEMMA UnlinkLawful ==
  ASSUME NEW T, NEW fs, Fine(fs, T), Unique(fs.nodes),
         NEW dir \in DOMAIN fs.nodes, IsDirectory(fs.nodes, dir), NEW name
  PROVE  Lawful(fs, unlink(fs, dir, name), T)
<1>1. PICK o : o = unlink(fs, dir, name)
  OBVIOUS
<1>2. /\ Fine(o.fs, T)
      /\ o.error # Ok => o.fs = fs /\ fs.nodes[dir].writable = FALSE
      /\ o.error = Ok => o.value = 0 /\ Left(fs, o.fs, dir, name)
  <2>1. UnlinkDoes(T, fs, dir, name, o) BY <1>1, Unlinked
  <2> QED BY <2>1 DEF UnlinkDoes
<1>3. ASSUME o.error = Ok PROVE Unique(o.fs.nodes)
  <2>1. PICK after : after = o.fs OBVIOUS
  <2>2. Left(fs, after, dir, name) BY <1>2, <1>3, <2>1
  <2>3. Unique(after.nodes) BY <2>2, LeftUnique
  <2> QED BY <2>1, <2>3
<1> QED BY <1>1, <1>2, <1>3 DEF Lawful, Extends

\* An empty directory, an empty file and a link can be made anywhere.
LEMMA NewNodes ==
  ASSUME NEW T, NEW among
  PROVE  /\ Directory(TRUE, Empty) \in NodeSet(T) /\ NodeOK(Directory(TRUE, Empty), among)
         /\ Directory(TRUE, Empty).kind = "directory"
         /\ DOMAIN Directory(TRUE, Empty).entries = {}
         /\ MemoryFile(<<>>) \in NodeSet(T) /\ NodeOK(MemoryFile(<<>>), among)
         /\ MemoryFile(<<>>).kind = "file"
         /\ \A target \in T : /\ Symlink(target) \in NodeSet(T) /\ NodeOK(Symlink(target), among)
                              /\ Symlink(target).kind = "symlink"
<1>1. Empty \in EntryMaps
  <2>1. Empty \in [{} -> Int] BY DEF Empty
  <2>2. {} \in SUBSET STRING OBVIOUS
  <2> QED BY <2>1, <2>2 DEF EntryMaps
<1>2. DOMAIN Empty = {} /\ IsFiniteSet({})
  BY FS_EmptySet DEF Empty
<1>3. Directory(TRUE, Empty) \in NodeSet(T)
  BY <1>1 DEF Directory, NodeSet, DirSet
<1>4. NodeOK(Directory(TRUE, Empty), among)
  BY <1>2 DEF Directory, NodeOK
<1>5. MemoryFile(<<>>) \in NodeSet(T) /\ NodeOK(MemoryFile(<<>>), among)
  <2>1. <<>> \in Seq({0, 1}) OBVIOUS
  <2>2. MemoryFile(<<>>) \in FileSet BY <2>1 DEF MemoryFile, FileSet
  <2> QED BY <2>2, FileLimits DEF MemoryFile, NodeSet, NodeOK
<1>6. \A target \in T : /\ Symlink(target) \in NodeSet(T) /\ NodeOK(Symlink(target), among)
                        /\ Symlink(target).kind = "symlink"
  BY DEF Symlink, NodeSet, NodeOK
<1> QED BY <1>2, <1>3, <1>4, <1>5, <1>6 DEF Directory, MemoryFile

\* remove, through force and recursive.
LEMMA RemoveLawful ==
  ASSUME NEW T, T \subseteq TargetSet, NEW fs, Fine(fs, T), Unique(fs.nodes),
         NEW path \in Seq(STRING), NEW recursive, NEW force
  PROVE  Lawful(fs, remove(fs, path, recursive, force), T)
<1>1. PICK p : p = parent(fs.nodes, path)
  OBVIOUS
<1>2. PICK o : o = remove(fs, path, recursive, force)
  OBVIOUS
<1>3. \/ o = Return(fs, 0)
      \/ \E code : code # Ok /\ o = Throw(fs, code)
      \/ p.error = Ok /\ o = unlink(fs, p.value.dir, p.value.name)
  <2>1. PICK node : node = fs.nodes[p.value.dir].entries[p.value.name]
    OBVIOUS
  <2>2. o = IF force /\ p.error = "ENOENT" THEN Return(fs, 0)
            ELSE IF p.error # Ok THEN Throw(fs, p.error)
            ELSE IF ~Has(fs.nodes, p.value.dir, p.value.name)
            THEN IF force THEN Return(fs, 0) ELSE Throw(fs, "ENOENT")
            ELSE IF IsDirectory(fs.nodes, node) /\ ~recursive /\ ~IsEmpty(fs.nodes, node)
            THEN Throw(fs, "ENOTEMPTY")
            ELSE unlink(fs, p.value.dir, p.value.name)
    BY <1>1, <1>2, <2>1, Zenon DEF remove
  <2> QED BY <2>2 DEF Ok
<1>4. CASE p.error = Ok /\ o = unlink(fs, p.value.dir, p.value.name)
  <2>1. p.value.dir \in DOMAIN fs.nodes /\ IsDirectory(fs.nodes, p.value.dir)
    BY <1>1, <1>4, ParentIsThere
  <2> QED BY <1>2, <1>4, <2>1, UnlinkLawful
<1> QED BY <1>2, <1>3, <1>4, NothingDone

\* remove_directory.
LEMMA RemoveDirectoryLawful ==
  ASSUME NEW T, T \subseteq TargetSet, NEW fs, Fine(fs, T), Unique(fs.nodes),
         NEW path \in Seq(STRING), NEW recursive
  PROVE  Lawful(fs, remove_directory(fs, path, recursive), T)
<1>1. \/ \E code : code # Ok /\ remove_directory(fs, path, recursive) = Throw(fs, code)
      \/ remove_directory(fs, path, recursive) = remove(fs, path, recursive, FALSE)
  BY DEF remove_directory, Try, Ok
<1> QED BY <1>1, NothingDone, RemoveLawful

\* remove_file.
LEMMA RemoveFileLawful ==
  ASSUME NEW T, T \subseteq TargetSet, NEW fs, Fine(fs, T), Unique(fs.nodes),
         NEW path \in Seq(STRING)
  PROVE  Lawful(fs, remove_file(fs, path), T)
<1>1. \/ \E code : code # Ok /\ remove_file(fs, path) = Throw(fs, code)
      \/ remove_file(fs, path) = remove(fs, path, FALSE, FALSE)
  BY DEF remove_file, Try, Ok
<1> QED BY <1>1, NothingDone, RemoveLawful

\* link enters files only, which may have many places.
LEMMA LinkLawful ==
  ASSUME NEW T, T \subseteq TargetSet, NEW fs, Fine(fs, T), Unique(fs.nodes),
         NEW existing \in Seq(STRING), NEW new \in Seq(STRING)
  PROVE  Lawful(fs, link(fs, existing, new), T)
<1>1. PICK source : source = resolve(fs.nodes, existing, TRUE)
  OBVIOUS
<1>2. PICK p : p = parent(fs.nodes, new)
  OBVIOUS
<1>3. PICK o : o = link(fs, existing, new)
  OBVIOUS
<1>4. \/ \E code : code # Ok /\ o = Throw(fs, code)
      \/ /\ source.error = Ok /\ p.error = Ok
         /\ fs.nodes[source.value].kind \in {"file", "bundled"}
         /\ o = insert(fs, p.value.dir, p.value.name, source.value)
  BY <1>1, <1>2, <1>3 DEF link, Ok
<1>5. CASE /\ source.error = Ok /\ p.error = Ok
           /\ fs.nodes[source.value].kind \in {"file", "bundled"}
           /\ o = insert(fs, p.value.dir, p.value.name, source.value)
  <2>1. /\ p.value.dir \in DOMAIN fs.nodes /\ IsDirectory(fs.nodes, p.value.dir)
        /\ p.value.name \in STRING
    BY <1>2, <1>5, ParentIsThere
  <2>2. source.value \in DOMAIN fs.nodes
    BY <1>1, <1>5, ResolvedPath
  <2>3. source.value # Root
    BY <1>5 DEF Fine, FixedOK, Fixed, Root, NewFileSystem, Directory
  <2>4. fs.nodes[source.value].kind \notin {"directory", "symlink"}
    BY <1>5
  <2> QED BY <1>3, <1>5, <2>1, <2>2, <2>3, <2>4, InsertLawful
<1> QED BY <1>3, <1>4, <1>5, NothingDone

\* symlink.
LEMMA SymlinkLawful ==
  ASSUME NEW T, T \subseteq TargetSet, NEW fs, Fine(fs, T), Unique(fs.nodes),
         NEW target \in T, NEW path \in Seq(STRING)
  PROVE  Lawful(fs, symlink(fs, target, path), T)
<1>1. PICK p : p = parent(fs.nodes, path)
  OBVIOUS
<1>2. PICK node : node = Symlink(target)
  OBVIOUS
<1>3. PICK o : o = symlink(fs, target, path)
  OBVIOUS
<1>4. \/ \E code : code # Ok /\ o = Throw(fs, code)
      \/ p.error = Ok /\ o = create(fs, p.value.dir, p.value.name, node)
  BY <1>1, <1>2, <1>3 DEF symlink, Ok
<1>5. CASE p.error = Ok /\ o = create(fs, p.value.dir, p.value.name, node)
  <2>1. /\ p.value.dir \in DOMAIN fs.nodes /\ IsDirectory(fs.nodes, p.value.dir)
        /\ p.value.name \in STRING
    BY <1>1, <1>5, ParentIsThere
  <2>2. node \in NodeSet(T) /\ NodeOK(node, DOMAIN fs.nodes) /\ node.kind # "directory"
    BY <1>2, NewNodes
  <2> QED BY <1>3, <1>5, <2>1, <2>2, CreateLawful
<1> QED BY <1>3, <1>4, <1>5, NothingDone

\* make_temp_dir.
LEMMA MakeTempDirLawful ==
  ASSUME NEW T, T \subseteq TargetSet, NEW fs, Fine(fs, T), Unique(fs.nodes),
         NEW prefix \in Seq(STRING), NEW candidate \in STRING
  PROVE  Lawful(fs, make_temp_dir(fs, prefix, candidate), T)
<1>1. PICK p : p = parent(fs.nodes, prefix)
  OBVIOUS
<1>2. PICK node : node = Directory(TRUE, Empty)
  OBVIOUS
<1>3. PICK o : o = make_temp_dir(fs, prefix, candidate)
  OBVIOUS
<1>4. \/ \E code : code # Ok /\ o = Throw(fs, code)
      \/ p.error = Ok /\ o = create(fs, p.value.dir, candidate, node)
  BY <1>1, <1>2, <1>3 DEF make_temp_dir, Ok
<1>5. CASE p.error = Ok /\ o = create(fs, p.value.dir, candidate, node)
  <2>1. p.value.dir \in DOMAIN fs.nodes /\ IsDirectory(fs.nodes, p.value.dir)
    BY <1>1, <1>5, ParentIsThere
  <2>2. node \in NodeSet(T) /\ NodeOK(node, DOMAIN fs.nodes) /\ DOMAIN node.entries = {}
    BY <1>2, NewNodes
  <2> QED BY <1>3, <1>5, <2>1, <2>2, CreateLawful
<1> QED BY <1>3, <1>4, <1>5, NothingDone

\* fs with the destination cleared.
Cleared(fs, c, destination) ==
  /\ ~Has(c.nodes, destination.dir, destination.name)
  /\ DOMAIN c.nodes = DOMAIN fs.nodes
  /\ \A m \in DOMAIN fs.nodes : c.nodes[m].kind = fs.nodes[m].kind
  /\ \A d \in DOMAIN fs.nodes : fs.nodes[d].kind = "directory" =>
       c.nodes[d].writable = fs.nodes[d].writable
  /\ \A d, m : Entry(c.nodes, d, m) =>
       Entry(fs.nodes, d, m) /\ c.nodes[d].entries[m] = fs.nodes[d].entries[m]

\* Once the destination is cleared, nothing can fail: the entry is inserted
\* there and removed here, and then the node has one place again.
LEMMA MoveLawful ==
  ASSUME NEW T, NEW fs, Fine(fs, T), Unique(fs.nodes),
         NEW source, source.dir \in DOMAIN fs.nodes, IsDirectory(fs.nodes, source.dir),
         Has(fs.nodes, source.dir, source.name),
         NEW destination, destination.dir \in DOMAIN fs.nodes,
         IsDirectory(fs.nodes, destination.dir), destination.name \in STRING,
         fs.nodes[source.dir].writable, fs.nodes[destination.dir].writable
  PROVE  Lawful(fs, Move(fs, source, destination), T)
<1>1. PICK node : node = fs.nodes[source.dir].entries[source.name]
  OBVIOUS
<1>2. node \in DOMAIN fs.nodes \ {Root} /\ Entry(fs.nodes, source.dir, source.name)
  BY <1>1, EntryThere DEF Has, Entry
<1>3. fs.nodes[source.dir].writable = TRUE /\ fs.nodes[destination.dir].writable = TRUE
  <2>1. fs.nodes[source.dir] \in DirSet /\ fs.nodes[destination.dir] \in DirSet
    BY NodeKinds DEF IsDirectory
  <2> QED BY <2>1 DEF DirSet
<1>4. PICK sd : sd = source.dir
  OBVIOUS
<1>5. PICK sn : sn = source.name
  OBVIOUS
<1>6. PICK dd : dd = destination.dir
  OBVIOUS
<1>7. PICK dn : dn = destination.name
  OBVIOUS
<1>8. PICK old : old = fs.nodes[dd].entries[dn]
  OBVIOUS
<1>9. PICK cleared : cleared =
        IF ~Has(fs.nodes, dd, dn) THEN Return(fs, 0)
        ELSE IF IsDirectory(fs.nodes, old) /\ ~IsEmpty(fs.nodes, old)
        THEN Throw(fs, "ENOTEMPTY")
        ELSE unlink(fs, dd, dn)
  OBVIOUS
<1>10. PICK inserted : inserted = insert(cleared.fs, dd, dn, node)
  OBVIOUS
<1>11. PICK removed : removed = unlink(inserted.fs, sd, sn)
  OBVIOUS
<1>12. Move(fs, source, destination) =
         IF cleared.error = Ok
         THEN IF inserted.error = Ok THEN removed ELSE inserted
         ELSE cleared
  BY <1>1, <1>4, <1>5, <1>6, <1>7, <1>8, <1>9, <1>10, <1>11, Zenon DEF Move, Then
<1>13. CASE Has(fs.nodes, dd, dn) /\ IsDirectory(fs.nodes, old) /\ ~IsEmpty(fs.nodes, old)
  <2>1. cleared = Throw(fs, "ENOTEMPTY") BY <1>9, <1>13
  <2>2. Move(fs, source, destination) = Throw(fs, "ENOTEMPTY") /\ "ENOTEMPTY" # Ok
    BY <1>12, <2>1 DEF Throw, Ok
  <2> QED BY <2>2, NothingDone
<1>14. CASE ~(Has(fs.nodes, dd, dn) /\ IsDirectory(fs.nodes, old) /\ ~IsEmpty(fs.nodes, old))
  <2>1. PICK c : c = cleared.fs
    OBVIOUS
  <2>2. dd \in DOMAIN fs.nodes /\ IsDirectory(fs.nodes, dd) /\ fs.nodes[dd].writable = TRUE
        /\ dn \in STRING
    BY <1>3, <1>6, <1>7
  <2>3. cleared.error = Ok /\ Fine(c, T) /\ Cleared(fs, c, destination)
    <3>1. CASE ~Has(fs.nodes, dd, dn)
      <4>1. cleared = Return(fs, 0) BY <1>9, <3>1
      <4> QED BY <1>6, <1>7, <2>1, <3>1, <4>1 DEF Return, Cleared
    <3>2. CASE Has(fs.nodes, dd, dn)
      <4>1. cleared = unlink(fs, dd, dn) BY <1>9, <1>14, <3>2
      <4>2. UnlinkDoes(T, fs, dd, dn, cleared) BY <2>2, <4>1, Unlinked
      <4>3. cleared.error = Ok /\ Fine(c, T) /\ Left(fs, c, dd, dn)
        BY <2>1, <2>2, <4>2 DEF UnlinkDoes
      <4>4. ~Has(c.nodes, dd, dn)
        BY <4>3 DEF Left, Has, Directory, Without
      <4>5. \A d \in DOMAIN fs.nodes : c.nodes[d].writable = fs.nodes[d].writable
        <5>1. c.nodes[dd].writable = TRUE BY <4>3 DEF Left, Directory
        <5> QED BY <2>2, <4>3, <5>1 DEF Left
      <4>6. \A d, m : Entry(c.nodes, d, m) =>
              Entry(fs.nodes, d, m) /\ c.nodes[d].entries[m] = fs.nodes[d].entries[m]
        BY <2>2, <4>3, EntriesLeft
      <4> QED BY <1>6, <1>7, <4>3, <4>4, <4>5, <4>6 DEF Cleared, Left
    <3> QED BY <3>1, <3>2
  <2>4. /\ ~Has(c.nodes, dd, dn) /\ dd \in DOMAIN c.nodes /\ IsDirectory(c.nodes, dd)
        /\ c.nodes[dd].writable = TRUE /\ node \in DOMAIN c.nodes \ {Root}
    BY <1>2, <1>6, <1>7, <2>2, <2>3 DEF Cleared, IsDirectory
  <2>5. PICK i : i = inserted.fs
    OBVIOUS
  <2>6. inserted.error = Ok /\ Fine(i, T) /\ Entered(c, i, dd, dn, node)
    <3>1. InsertDoes(T, c, dd, dn, node, inserted)
      BY <1>10, <2>1, <2>2, <2>3, <2>4, Inserted
    <3> QED BY <2>4, <2>5, <3>1 DEF InsertDoes, Refused
  <2>7. /\ sd \in DOMAIN i.nodes /\ IsDirectory(i.nodes, sd) /\ i.nodes[sd].writable = TRUE
        /\ DOMAIN i.nodes = DOMAIN fs.nodes
        /\ \A m \in DOMAIN fs.nodes : i.nodes[m].kind = fs.nodes[m].kind
    <3>1. DOMAIN i.nodes = DOMAIN fs.nodes
          /\ \A m \in DOMAIN fs.nodes : i.nodes[m].kind = fs.nodes[m].kind
      BY <2>3, <2>4, <2>6 DEF Cleared, Entered
    <3>2. sd \in DOMAIN i.nodes /\ IsDirectory(i.nodes, sd)
      BY <1>4, <3>1 DEF IsDirectory
    <3>3. c.nodes[sd].writable = TRUE
      BY <1>3, <1>4, <2>3 DEF Cleared, IsDirectory
    <3>4. i.nodes[sd].writable = TRUE
      BY <1>4, <2>3, <2>6, <3>3 DEF Cleared, Entered, Directory
    <3> QED BY <3>1, <3>2, <3>4
  <2>8. PICK u : u = removed.fs
    OBVIOUS
  <2>9. removed.error = Ok /\ Fine(u, T) /\ Left(i, u, sd, sn)
    <3>1. UnlinkDoes(T, i, sd, sn, removed)
      BY <1>11, <2>5, <2>6, <2>7, Unlinked
    <3> QED BY <2>7, <2>8, <3>1 DEF UnlinkDoes
  <2>10. \A d, m : Entry(u.nodes, d, m) =>
           /\ ~(d = sd /\ m = sn)
           /\ \/ d = dd /\ m = dn /\ u.nodes[d].entries[m] = node
              \/ Entry(fs.nodes, d, m) /\ u.nodes[d].entries[m] = fs.nodes[d].entries[m]
    <3>1. \A d, m : Entry(u.nodes, d, m) =>
            /\ ~(d = sd /\ m = sn)
            /\ Entry(i.nodes, d, m) /\ u.nodes[d].entries[m] = i.nodes[d].entries[m]
      BY <2>7, <2>9, EntriesLeft
    <3>2. \A d, m : Entry(i.nodes, d, m) =>
            \/ Entry(c.nodes, d, m) /\ i.nodes[d].entries[m] = c.nodes[d].entries[m]
            \/ d = dd /\ m = dn /\ i.nodes[d].entries[m] = node
      BY <2>4, <2>6, EntriesEntered
    <3>3. \A d, m : Entry(c.nodes, d, m) =>
            Entry(fs.nodes, d, m) /\ c.nodes[d].entries[m] = fs.nodes[d].entries[m]
      BY <2>3 DEF Cleared
    <3> QED BY <3>1, <3>2, <3>3
  <2>11. \A m \in DOMAIN fs.nodes : u.nodes[m].kind = fs.nodes[m].kind
    BY <2>7, <2>9 DEF Left
  <2>12. \A d, m : Entry(fs.nodes, d, m) => fs.nodes[d].entries[m] \in DOMAIN fs.nodes
    BY EntryThere DEF Entry
  <2>13. Unique(u.nodes)
    <3> SUFFICES ASSUME NEW d1, NEW d2, NEW n1, NEW n2, Twice(u.nodes, d1, n1, d2, n2)
                 PROVE  d1 = d2 /\ n1 = n2
      BY DEF Unique
    <3> SUFFICES ASSUME Entry(u.nodes, d1, n1), Entry(u.nodes, d2, n2),
                        u.nodes[d1].entries[n1] = u.nodes[d2].entries[n2],
                        u.nodes[u.nodes[d1].entries[n1]].kind \in {"directory", "symlink"}
                 PROVE  d1 = d2 /\ n1 = n2
      BY DEF Twice
    <3>1. PICK v : v = u.nodes[d1].entries[n1]
      OBVIOUS
    <3>2. v \in DOMAIN fs.nodes /\ fs.nodes[v].kind \in {"directory", "symlink"}
      BY <1>2, <2>10, <2>11, <2>12, <3>1
    <3>3. ASSUME NEW d, NEW m, Entry(u.nodes, d, m), u.nodes[d].entries[m] = v, v = node
          PROVE  d = dd /\ m = dn
      <4>1. SUFFICES ASSUME Entry(fs.nodes, d, m), fs.nodes[d].entries[m] = v PROVE FALSE
        BY <2>10, <3>3
      <4>2. d = sd /\ m = sn
        <5>1. Entry(fs.nodes, sd, sn) /\ fs.nodes[sd].entries[sn] = v
          BY <1>1, <1>2, <1>4, <1>5, <3>3
        <5>2. fs.nodes[fs.nodes[d].entries[m]].kind \in {"directory", "symlink"}
          BY <3>2, <4>1
        <5>3. Twice(fs.nodes, d, m, sd, sn)
          BY <4>1, <5>1, <5>2 DEF Twice
        <5> QED BY <5>3 DEF Unique
      <4> QED BY <2>10, <3>3, <4>2
    <3>4. CASE v = node
      <4>1. u.nodes[d1].entries[n1] = v /\ u.nodes[d2].entries[n2] = v
        BY <3>1
      <4> QED BY <3>3, <3>4, <4>1
    <3>5. CASE v # node
      <4>1. /\ Entry(fs.nodes, d1, n1) /\ fs.nodes[d1].entries[n1] = v
            /\ Entry(fs.nodes, d2, n2) /\ fs.nodes[d2].entries[n2] = v
        BY <2>10, <3>1, <3>5
      <4>2. Twice(fs.nodes, d1, n1, d2, n2)
        BY <3>2, <4>1 DEF Twice
      <4> QED BY <4>2 DEF Unique
    <3> QED BY <3>4, <3>5
  <2> QED BY <1>12, <2>3, <2>6, <2>8, <2>9, <2>13 DEF Lawful
<1> QED BY <1>13, <1>14

\* rename inserts before it removes the source: once the destination is
\* cleared nothing can fail any more, and the moved node has one place again.
LEMMA RenameLawful ==
  ASSUME NEW T, T \subseteq TargetSet, NEW fs, Fine(fs, T), Unique(fs.nodes),
         NEW from \in Seq(STRING), NEW to \in Seq(STRING)
  PROVE  Lawful(fs, rename(fs, from, to), T)
<1>1. PICK f : f = absolute_components(from)
  OBVIOUS
<1>2. PICK t : t = absolute_components(to)
  OBVIOUS
<1>3. PICK source : source = parent(fs.nodes, from)
  OBVIOUS
<1>4. PICK destination : destination = parent(fs.nodes, to)
  OBVIOUS
<1>5. PICK o : o = rename(fs, from, to)
  OBVIOUS
<1>6. \/ o = Return(fs, 0)
      \/ \E code : code # Ok /\ o = Throw(fs, code)
      \/ /\ source.error = Ok /\ destination.error = Ok
         /\ Has(fs.nodes, source.value.dir, source.value.name)
         /\ fs.nodes[source.value.dir].writable /\ fs.nodes[destination.value.dir].writable
         /\ o = Move(fs, source.value, destination.value)
  BY <1>1, <1>2, <1>3, <1>4, <1>5 DEF rename, Ok
<1>7. CASE /\ source.error = Ok /\ destination.error = Ok
           /\ Has(fs.nodes, source.value.dir, source.value.name)
           /\ fs.nodes[source.value.dir].writable /\ fs.nodes[destination.value.dir].writable
           /\ o = Move(fs, source.value, destination.value)
  <2>1. source.value.dir \in DOMAIN fs.nodes /\ IsDirectory(fs.nodes, source.value.dir)
    BY <1>3, <1>7, ParentIsThere
  <2>2. /\ destination.value.dir \in DOMAIN fs.nodes
        /\ IsDirectory(fs.nodes, destination.value.dir)
        /\ destination.value.name \in STRING
    BY <1>4, <1>7, ParentIsThere
  <2> QED BY <1>5, <1>7, <2>1, <2>2, MoveLawful
<1> QED BY <1>5, <1>6, <1>7, NothingDone

-----------------------------------------------------------------------------
(* Bytes. *)

\* The larger and the smaller of two numbers.
LEMMA MaxOfTwo ==
  ASSUME NEW a \in Int, NEW b \in Int
  PROVE  /\ Max({a, b}) \in {a, b} /\ Max({a, b}) >= a /\ Max({a, b}) >= b
         /\ Min({a, b}) \in {a, b} /\ Min({a, b}) <= a /\ Min({a, b}) <= b
<1>1. \E x \in {a, b} : \A y \in {a, b} : x >= y
  <2>1. CASE a >= b BY <2>1
  <2>2. CASE b >= a BY <2>2
  <2> QED BY <2>1, <2>2
<1>2. \E x \in {a, b} : \A y \in {a, b} : x <= y
  <2>1. CASE a <= b BY <2>1
  <2>2. CASE b <= a BY <2>2
  <2> QED BY <2>1, <2>2
<1>3. Max({a, b}) \in {a, b} /\ \A y \in {a, b} : Max({a, b}) >= y
  BY <1>1 DEF Max
<1>4. Min({a, b}) \in {a, b} /\ \A y \in {a, b} : Min({a, b}) <= y
  BY <1>2 DEF Min
<1> QED BY <1>3, <1>4

\* What may take the place of a node: itself, or for a file one that is not
\* too large.
Replaces(changed, node) ==
  \/ changed = node
  \/ /\ node.kind = "file"
     /\ changed.kind = "file" /\ changed \in FileSet /\ Len(changed.data) <= MaxSize

\* A file with other bytes replaces it.
LEMMA FileWith ==
  ASSUME NEW node \in FileSet, node.kind = "file", NEW size \in Nat, size <= MaxSize,
         NEW data \in [1 .. size -> {0, 1}]
  PROVE  Replaces([node EXCEPT !.data = data], node)
<1>1. data \in Seq({0, 1}) /\ Len(data) = size
  OBVIOUS
<1>2. [node EXCEPT !.data = data] \in FileSet
  BY <1>1 DEF FileSet
<1> QED BY <1>1, <1>2 DEF Replaces, FileSet

\* Resizing gives as many bytes as were asked for.
LEMMA ResizedBytes ==
  ASSUME NEW data \in Seq({0, 1}), NEW size \in Nat
  PROVE  Resized(data, size) \in [1 .. size -> {0, 1}]
BY DEF Resized

\* resize changes the bytes of a file, within the limit.
LEMMA ResizeReplaces ==
  ASSUME NEW T, NEW node \in NodeSet(T), node.kind # "symlink", NEW size \in Nat,
         resize(node, size).error = Ok
  PROVE  Replaces(resize(node, size).value, node)
<1>1. CASE node.kind = "file"
  <2>1. size <= MaxSize /\ resize(node, size).value = [node EXCEPT !.data = Resized(@, size)]
    BY <1>1, FileLimits DEF resize, Found, Missing, Ok
  <2>2. node \in FileSet
    BY <1>1 DEF NodeSet, DirSet
  <2>3. Resized(node.data, size) \in [1 .. size -> {0, 1}]
    BY <2>2, ResizedBytes DEF FileSet
  <2> QED BY <1>1, <2>1, <2>2, <2>3, FileWith
<1>2. CASE node.kind # "file"
  <2>1. node.kind \in {"directory", "bundled", "null", "full"}
    BY <1>2 DEF NodeSet, DirSet, FileSet
  <2> QED BY <2>1 DEF resize, Found, Missing, Ok, Replaces
<1> QED BY <1>1, <1>2

\* WriteNode changes the bytes of a file, within the limit.
LEMMA WriteReplaces ==
  ASSUME NEW T, NEW node \in NodeSet(T), node.kind \notin {"directory", "symlink"},
         node.kind = "file" => Len(node.data) <= MaxSize,
         NEW offset \in Nat, NEW input \in Seq({0, 1}), NEW append \in BOOLEAN,
         WriteNode(node, offset, input, append).error = Ok
  PROVE  Replaces(WriteNode(node, offset, input, append).value, node)
<1>1. CASE node.kind = "file"
  <2>1. node \in FileSet /\ node.data \in Seq({0, 1}) /\ Len(node.data) \in Nat /\ MaxSize \in Nat
    BY <1>1, FileLimits DEF NodeSet, DirSet, FileSet
  <2>2. PICK start : start = IF append THEN Len(node.data) ELSE offset
    OBVIOUS
  <2>3. PICK end : end = start + Len(input)
    OBVIOUS
  <2>4. PICK size : size = Max({end, Len(node.data)})
    OBVIOUS
  <2>5. PICK long : long = Resized(node.data, size)
    OBVIOUS
  <2>6. PICK data : data = [i \in DOMAIN long |->
                              IF i \in start + 1 .. end THEN input[i - start] ELSE long[i]]
    OBVIOUS
  <2>7. /\ end <= MaxSize
        /\ WriteNode(node, offset, input, append).value = [node EXCEPT !.data = data]
    <3>1. WriteNode(node, offset, input, append)
            = IF end > MaxSize THEN Missing("EFBIG") ELSE Found([node EXCEPT !.data = data])
      BY <1>1, <2>2, <2>3, <2>4, <2>5, <2>6 DEF WriteNode, write_memory
    <3>2. start \in Nat /\ end \in Nat
      BY <2>1, <2>2, <2>3
    <3> QED BY <2>1, <3>1, <3>2 DEF Missing, Found, Ok
  <2>8. start \in Nat /\ end \in Nat
    BY <2>1, <2>2, <2>3
  <2>9. size \in Nat /\ size <= MaxSize
    <3>1. size \in {end, Len(node.data)}
      <4>1. end \in Int /\ Len(node.data) \in Int BY <2>1, <2>8
      <4> QED BY <2>4, <4>1, MaxOfTwo
    <3> QED BY <1>1, <2>1, <2>7, <2>8, <3>1
  <2>10. long \in [1 .. size -> {0, 1}]
    BY <2>1, <2>5, <2>9, ResizedBytes
  <2>11. \A i \in start + 1 .. end : input[i - start] \in {0, 1}
    <3> SUFFICES ASSUME NEW i \in start + 1 .. end PROVE i - start \in 1 .. Len(input)
      OBVIOUS
    <3> QED BY <2>3, <2>8
  <2>12. data \in [1 .. size -> {0, 1}]
    BY <2>6, <2>10, <2>11
  <2> QED BY <1>1, <2>1, <2>7, <2>9, <2>12, FileWith
<1>2. CASE node.kind # "file"
  <2>1. node.kind \in {"bundled", "null", "full"}
    BY <1>2 DEF NodeSet, DirSet, FileSet
  <2> QED BY <2>1 DEF WriteNode, Found, Missing, Ok, Replaces
<1> QED BY <1>1, <1>2

\* What is read is a sequence of bytes.
LEMMA ReadBytes ==
  ASSUME NEW T, NEW node \in NodeSet(T), node.kind \notin {"directory", "symlink"},
         NEW offset \in Nat, NEW length \in Nat
  PROVE  /\ ReadNode(node, offset, length) \in Seq({0, 1})
         /\ Len(ReadNode(node, offset, length)) \in Nat
<1>1. CASE node.kind = "null"
  BY <1>1 DEF ReadNode
<1>2. CASE node.kind = "full"
  BY <1>2 DEF ReadNode
<1>3. CASE node.kind \in {"file", "bundled"}
  <2>1. node.data \in Seq({0, 1})
    BY <1>3 DEF NodeSet, DirSet, FileSet
  <2>2. PICK end : end = Min({offset + length, Len(node.data)})
    OBVIOUS
  <2>3. end \in Nat /\ end <= Len(node.data)
    <3>1. PICK a : a = offset + length OBVIOUS
    <3>2. PICK b : b = Len(node.data) OBVIOUS
    <3>3. a \in Nat /\ b \in Nat BY <2>1, <3>1, <3>2
    <3>4. Min({a, b}) \in {a, b} /\ Min({a, b}) <= b
      <4>1. a \in Int /\ b \in Int BY <3>3
      <4> QED BY <4>1, MaxOfTwo
    <3> QED BY <2>2, <3>1, <3>2, <3>3, <3>4
  <2>4. ReadNode(node, offset, length) = SubSeq(node.data, offset + 1, end)
    BY <1>3, <2>2 DEF ReadNode
  <2>5. SubSeq(node.data, offset + 1, end) \in Seq({0, 1})
    BY <2>1, <2>3
  <2> QED BY <2>4, <2>5
<1>4. node.kind \in {"file", "bundled", "null", "full"}
  BY DEF NodeSet, DirSet, FileSet
<1> QED BY <1>1, <1>2, <1>3, <1>4

-----------------------------------------------------------------------------
(* Calls that work on files. *)

\* The outcome of a call that neither adds nor drops a node.
SameNodes(fs, after) ==
  /\ DOMAIN after.nodes = DOMAIN fs.nodes
  /\ \A m \in DOMAIN fs.nodes : after.nodes[m].kind = fs.nodes[m].kind

SetDoes(T, fs, o) ==
  /\ Fine(o.fs, T) /\ Unique(o.fs.nodes) /\ SameNodes(fs, o.fs)
  /\ o.fs.open = fs.open /\ o.fs.next = fs.next
  /\ o.error # Ok => o.fs = fs

\* SetNode puts a node in the place of one of its kind.
LEMMA NodeSetTo ==
  ASSUME NEW T, NEW fs, Fine(fs, T), Unique(fs.nodes), NEW n \in DOMAIN fs.nodes,
         NEW changed, changed.error = Ok => Replaces(changed.value, fs.nodes[n])
  PROVE  SetDoes(T, fs, SetNode(fs, n, changed))
<1>1. CASE changed.error # Ok
  <2>1. SetNode(fs, n, changed) = [error |-> changed.error, fs |-> fs, value |-> 0]
    BY <1>1 DEF SetNode, Try, Throw
  <2> QED BY <1>1, <2>1 DEF SetDoes, SameNodes
<1>2. CASE changed.error = Ok
  <2>1. PICK node : node = changed.value
    OBVIOUS
  <2>2. PICK g : g = [fs EXCEPT !.nodes[n] = node]
    OBVIOUS
  <2>3. SetNode(fs, n, changed) = [error |-> Ok, fs |-> g, value |-> 0]
    BY <1>2, <2>1, <2>2 DEF SetNode, Try, Return
  <2>4. fs.nodes[n] \in NodeSet(T) /\ n \in Int
    BY NodeKinds
  <2>5. Replaces(node, fs.nodes[n]) /\ node \in NodeSet(T) /\ node.kind = fs.nodes[n].kind
    BY <1>2, <2>1, <2>4 DEF Replaces, NodeSet
  <2>6. g = [fs EXCEPT !.nodes = With(@, n, node)]
    <3>1. fs.nodes \in [DOMAIN fs.nodes -> NodeSet(T)] BY Systems DEF Fine
    <3>2. [fs.nodes EXCEPT ![n] = node] = With(fs.nodes, n, node)
      BY <3>1 DEF With
    <3> QED BY <2>2, <3>2
  <2>7. g \in FileSystems(T)
    BY <2>4, <2>5, <2>6, SystemWith DEF Fine
  <2>8. /\ g.open = fs.open /\ g.next = fs.next
        /\ DOMAIN g.nodes = DOMAIN fs.nodes
        /\ g.nodes[n] = node
        /\ \A m \in DOMAIN fs.nodes \ {n} : g.nodes[m] = fs.nodes[m]
    BY <2>6, Systems DEF Fine, With
  <2>9. SameNodes(fs, g)
    BY <2>5, <2>8 DEF SameNodes
  <2>10. node = fs.nodes[n] \/ (fs.nodes[n].kind = "file" /\ node.kind = "file" /\ Len(node.data) <= MaxSize)
    BY <2>5 DEF Replaces
  <2>11. FixedOK(g.nodes)
    <3>1. fs.nodes[n].kind = "file" => n \notin Fixed
      BY DEF Fine, FixedOK, Fixed, NewFileSystem, Directory
    <3>2. \A m \in Fixed : g.nodes[m] = fs.nodes[m]
      BY <2>8, <2>10, <3>1 DEF Fine, FixedOK
    <3> QED BY <2>8, <2>9, <3>2 DEF Fine, FixedOK, SameNodes
  <2>12. \A m \in DOMAIN g.nodes : NodeOK(g.nodes[m], DOMAIN g.nodes)
    <3>1. NodeOK(node, DOMAIN fs.nodes)
      BY <2>10 DEF Fine, NodeOK
    <3> QED BY <2>8, <3>1 DEF Fine
  <2>13. \A d \in DOMAIN g.open : OpenOK(g, d)
    BY <2>8, <2>9 DEF Fine, OpenOK, SameNodes
  <2>14. Fine(g, T)
    BY <2>7, <2>8, <2>11, <2>12, <2>13 DEF Fine
  <2>15. Unique(g.nodes)
    <3>1. \A d, m : Entry(g.nodes, d, m) =>
            /\ Entry(fs.nodes, d, m) /\ g.nodes[d].entries[m] = fs.nodes[d].entries[m]
            /\ g.nodes[d].entries[m] \in DOMAIN fs.nodes
      <4> SUFFICES ASSUME NEW d, NEW m, Entry(g.nodes, d, m)
                   PROVE  /\ Entry(fs.nodes, d, m)
                          /\ g.nodes[d].entries[m] = fs.nodes[d].entries[m]
        BY EntryThere DEF Entry
      <4>1. d \in DOMAIN fs.nodes /\ g.nodes[d].kind = "directory"
        BY <2>8 DEF Entry, IsDirectory
      <4>2. g.nodes[d] = fs.nodes[d]
        BY <2>8, <2>10, <4>1
      <4> QED BY <2>8, <4>2 DEF Entry, IsDirectory
    <3> SUFFICES ASSUME NEW d1, NEW d2, NEW n1, NEW n2, Twice(g.nodes, d1, n1, d2, n2)
                 PROVE  d1 = d2 /\ n1 = n2
      BY DEF Unique
    <3> SUFFICES ASSUME Entry(g.nodes, d1, n1), Entry(g.nodes, d2, n2),
                        g.nodes[d1].entries[n1] = g.nodes[d2].entries[n2],
                        g.nodes[g.nodes[d1].entries[n1]].kind \in {"directory", "symlink"}
                 PROVE  d1 = d2 /\ n1 = n2
      BY DEF Twice
    <3>2. fs.nodes[fs.nodes[d1].entries[n1]].kind \in {"directory", "symlink"}
      BY <2>9, <3>1 DEF SameNodes
    <3>3. /\ Entry(fs.nodes, d1, n1) /\ Entry(fs.nodes, d2, n2)
          /\ fs.nodes[d1].entries[n1] = fs.nodes[d2].entries[n2]
      BY <3>1
    <3>4. Twice(fs.nodes, d1, n1, d2, n2)
      BY <3>2, <3>3 DEF Twice
    <3> QED BY <3>4 DEF Unique
  <2> QED BY <2>3, <2>8, <2>9, <2>14, <2>15 DEF SetDoes
<1> QED BY <1>1, <1>2

\* That is lawful.
LEMMA SetLawful ==
  ASSUME NEW T, NEW fs, NEW o, Fine(fs, T), SetDoes(T, fs, o)
  PROVE  Lawful(fs, o, T)
BY DEF SetDoes, Lawful, Extends

\* truncate.
LEMMA TruncateLawful ==
  ASSUME NEW T, T \subseteq TargetSet, NEW fs, Fine(fs, T), Unique(fs.nodes),
         NEW path \in Seq(STRING), NEW size \in Nat
  PROVE  Lawful(fs, truncate(fs, path, size), T)
<1>1. PICK n : n = resolve(fs.nodes, path, TRUE)
  OBVIOUS
<1>2. CASE n.error # Ok
  BY <1>1, <1>2, NothingDone DEF truncate, Try
<1>3. CASE n.error = Ok
  <2>1. n.value \in DOMAIN fs.nodes /\ fs.nodes[n.value].kind # "symlink"
    BY <1>1, <1>3, ResolvedPath
  <2>2. PICK changed : changed = resize(fs.nodes[n.value], size)
    OBVIOUS
  <2>3. changed.error = Ok => Replaces(changed.value, fs.nodes[n.value])
    BY <2>1, <2>2, NodeKinds, ResizeReplaces
  <2>4. truncate(fs, path, size) = SetNode(fs, n.value, changed)
    BY <1>1, <1>3, <2>2 DEF truncate, Try
  <2> QED BY <2>1, <2>3, <2>4, NodeSetTo, SetLawful
<1> QED BY <1>2, <1>3

\* ftruncate.
LEMMA FtruncateLawful ==
  ASSUME NEW T, NEW fs, Fine(fs, T), Unique(fs.nodes), NEW d, NEW size \in Nat
  PROVE  Lawful(fs, ftruncate(fs, d, size), T)
<1>1. CASE d \notin DOMAIN fs.open
  <2>1. "EBADF" # Ok BY DEF Ok
  <2> QED BY <1>1, <2>1, NothingDone DEF ftruncate
<1>2. CASE d \in DOMAIN fs.open /\ "write" \notin fs.open[d].options
  <2>1. "EPERM" # Ok BY DEF Ok
  <2> QED BY <1>2, <2>1, NothingDone DEF ftruncate
<1>3. CASE d \in DOMAIN fs.open /\ "write" \in fs.open[d].options
  <2>1. PICK n : n = fs.open[d].node
    OBVIOUS
  <2>2. n \in DOMAIN fs.nodes /\ fs.nodes[n].kind # "symlink"
    BY <1>3, <2>1 DEF Fine, OpenOK
  <2>3. PICK changed : changed = resize(fs.nodes[n], size)
    OBVIOUS
  <2>4. changed.error = Ok => Replaces(changed.value, fs.nodes[n])
    BY <2>2, <2>3, NodeKinds, ResizeReplaces
  <2>5. ftruncate(fs, d, size) = SetNode(fs, n, changed)
    BY <1>3, <2>1, <2>3 DEF ftruncate
  <2> QED BY <2>2, <2>4, <2>5, NodeSetTo, SetLawful
<1> QED BY <1>1, <1>2, <1>3

\* Only open files have changed.
OpenMaps == UNION {[E -> OpenSet] : E \in SUBSET Nat}

\* A file system with other open files.
LEMMA OpenSystem ==
  ASSUME NEW T, NEW fs, Fine(fs, T), NEW files \in OpenMaps, NEW next \in Nat,
         NEW g, g = [nodes |-> fs.nodes, open |-> files, next |-> next]
  PROVE  g \in FileSystems(T)
<1>1. fs \in FileSystems(T)
  BY DEF Fine
<1> QED BY <1>1 DEF FileSystems, OpenMaps

\* Open files do not matter for the tree.
LEMMA OpenChange ==
  ASSUME NEW T, NEW fs, Fine(fs, T), Unique(fs.nodes), NEW g \in FileSystems(T),
         g.nodes = fs.nodes, \A d \in DOMAIN g.open : OpenOK(g, d)
  PROVE  Fine(g, T) /\ Unique(g.nodes)
BY DEF Fine

\* Numbered opens what is neither a directory nor a link.
LEMMA NumberedLawful ==
  ASSUME NEW T, NEW fs, Fine(fs, T), Unique(fs.nodes), NEW n \in DOMAIN fs.nodes,
         fs.nodes[n].kind \notin {"directory", "symlink"}, NEW options,
         "write" \in options => fs.nodes[n].kind # "bundled"
  PROVE  /\ Numbered(fs, n, options).error = Ok
         /\ Fine(Numbered(fs, n, options).fs, T) /\ Unique(Numbered(fs, n, options).fs.nodes)
<1>1. PICK files : files = With(fs.open, fs.next, OpenFile(n, options))
  OBVIOUS
<1>2. PICK next : next = fs.next + 1
  OBVIOUS
<1>3. PICK D : D = DOMAIN fs.open \cup {fs.next}
  OBVIOUS
<1>4. /\ DOMAIN fs.open \subseteq Nat /\ fs.open \in [DOMAIN fs.open -> OpenSet]
      /\ fs.next \in Nat
      /\ fs = [nodes |-> fs.nodes, open |-> fs.open, next |-> fs.next]
  BY Systems DEF Fine
<1>5. OpenFile(n, options) \in OpenSet
  <2>1. n \in Int BY NodeKinds
  <2> QED BY <2>1 DEF OpenFile, OpenSet
<1>6. files \in [D -> OpenSet] /\ D \in SUBSET Nat /\ next \in Nat
  BY <1>1, <1>2, <1>3, <1>4, <1>5 DEF With
<1>7. PICK g : g = [fs EXCEPT !.open = files, !.next = next]
  OBVIOUS
<1>8. g \in FileSystems(T) /\ g.nodes = fs.nodes /\ g.open = files /\ g.next = next
  <2>1. g = [nodes |-> fs.nodes, open |-> files, next |-> next] BY <1>4, <1>7
  <2>2. files \in OpenMaps BY <1>6 DEF OpenMaps
  <2>3. g \in FileSystems(T) BY <1>6, <2>1, <2>2, OpenSystem
  <2> QED BY <2>1, <2>3
<1>9. ASSUME NEW d \in D PROVE OpenOK(g, d)
  <2>1. CASE d \in DOMAIN fs.open /\ d # fs.next
    <3>1. OpenOK(fs, d) /\ files[d] = fs.open[d] /\ d \in Nat
      BY <1>1, <1>4, <2>1 DEF Fine, With
    <3> QED BY <1>2, <1>4, <1>8, <3>1 DEF OpenOK
  <2>2. CASE d = fs.next
    <3>1. files[d] = OpenFile(n, options) BY <1>1, <2>2 DEF With
    <3> QED BY <1>2, <1>4, <1>8, <2>2, <3>1 DEF OpenOK, OpenFile
  <2> QED BY <1>3, <2>1, <2>2
<1>10. Fine(g, T) /\ Unique(g.nodes)
  <2>1. \A d \in DOMAIN g.open : OpenOK(g, d)
    BY <1>6, <1>8, <1>9
  <2> QED BY <1>8, <2>1, OpenChange
<1>11. Numbered(fs, n, options) = [error |-> Ok, fs |-> g, value |-> fs.next]
  BY <1>1, <1>2, <1>4, <1>7 DEF Numbered, Return
<1> QED BY <1>10, <1>11

\* close.
LEMMA CloseLawful ==
  ASSUME NEW T, NEW fs, Fine(fs, T), Unique(fs.nodes), NEW d
  PROVE  /\ Lawful(fs, close(fs, d), T)
         /\ Fine(close(fs, d).fs, T) /\ Unique(close(fs, d).fs.nodes)
<1>1. CASE d \notin DOMAIN fs.open
  <2>1. "EBADF" # Ok BY DEF Ok
  <2>2. close(fs, d) = Throw(fs, "EBADF") BY <1>1 DEF close
  <2> QED BY <2>1, <2>2, NothingDone DEF Throw
<1>2. CASE d \in DOMAIN fs.open
  <2>1. PICK files : files = Without(fs.open, d)
    OBVIOUS
  <2>2. PICK D : D = DOMAIN fs.open \ {d}
    OBVIOUS
  <2>3. /\ DOMAIN fs.open \subseteq Nat /\ fs.open \in [DOMAIN fs.open -> OpenSet]
        /\ fs.next \in Nat
        /\ fs = [nodes |-> fs.nodes, open |-> fs.open, next |-> fs.next]
    BY Systems DEF Fine
  <2>4. files \in [D -> OpenSet] /\ D \in SUBSET Nat
    BY <2>1, <2>2, <2>3 DEF Without
  <2>5. PICK g : g = [fs EXCEPT !.open = files, !.next = fs.next]
    OBVIOUS
  <2>6. g \in FileSystems(T) /\ g.nodes = fs.nodes /\ g.open = files /\ g.next = fs.next
    <3>1. g = [nodes |-> fs.nodes, open |-> files, next |-> fs.next] BY <2>3, <2>5
    <3>2. files \in OpenMaps BY <2>4 DEF OpenMaps
    <3>3. g \in FileSystems(T) BY <2>3, <3>1, <3>2, OpenSystem
    <3> QED BY <3>1, <3>3
  <2>7. ASSUME NEW x \in D PROVE OpenOK(g, x)
    <3>1. OpenOK(fs, x) /\ files[x] = fs.open[x]
      BY <2>1, <2>2, <2>7 DEF Fine, Without
    <3> QED BY <2>6, <3>1 DEF OpenOK
  <2>8. Fine(g, T) /\ Unique(g.nodes)
    <3>1. \A x \in DOMAIN g.open : OpenOK(g, x)
      BY <2>4, <2>6, <2>7
    <3> QED BY <2>6, <3>1, OpenChange
  <2>9. close(fs, d) = [error |-> Ok, fs |-> g, value |-> 0]
    BY <1>2, <2>1, <2>3, <2>5 DEF close, Return
  <2> QED BY <2>8, <2>9 DEF Lawful
<1> QED BY <1>1, <1>2

\* A file's own position has moved.
LEMMA PositionLawful ==
  ASSUME NEW T, NEW fs, Fine(fs, T), Unique(fs.nodes), NEW d \in DOMAIN fs.open,
         NEW position \in Nat
  PROVE  LET g == [fs EXCEPT !.open[d].position = position]
         IN /\ Fine(g, T) /\ Unique(g.nodes) /\ g.nodes = fs.nodes
            /\ DOMAIN g.open = DOMAIN fs.open
            /\ \A x \in DOMAIN fs.open : g.open[x].options = fs.open[x].options
<1>1. PICK files : files = [fs.open EXCEPT ![d].position = position]
  OBVIOUS
<1>2. PICK D : D = DOMAIN fs.open
  OBVIOUS
<1>3. /\ D \in SUBSET Nat /\ fs.open \in [D -> OpenSet] /\ fs.next \in Nat
      /\ fs = [nodes |-> fs.nodes, open |-> fs.open, next |-> fs.next]
  BY <1>2, Systems DEF Fine
<1>4. files \in [D -> OpenSet]
  BY <1>1, <1>2, <1>3 DEF OpenSet
<1>5. PICK g : g = [fs EXCEPT !.open = files, !.next = fs.next]
  OBVIOUS
<1>6. g \in FileSystems(T) /\ g.nodes = fs.nodes /\ g.open = files /\ g.next = fs.next
  <2>1. g = [nodes |-> fs.nodes, open |-> files, next |-> fs.next] BY <1>3, <1>5
  <2>2. files \in OpenMaps BY <1>3, <1>4 DEF OpenMaps
  <2>3. g \in FileSystems(T) BY <1>3, <2>1, <2>2, OpenSystem
  <2> QED BY <2>1, <2>3
<1>7. ASSUME NEW x \in D PROVE OpenOK(g, x)
  <2>1. OpenOK(fs, x) /\ files[x].node = fs.open[x].node /\ files[x].options = fs.open[x].options
    BY <1>1, <1>2, <1>3, <1>7 DEF Fine, OpenSet
  <2> QED BY <1>6, <2>1 DEF OpenOK
<1>8. Fine(g, T) /\ Unique(g.nodes) /\ g.nodes = fs.nodes
  <2>1. \A x \in DOMAIN g.open : OpenOK(g, x)
    BY <1>4, <1>6, <1>7
  <2> QED BY <1>6, <2>1, OpenChange
<1>9. [fs EXCEPT !.open[d].position = position] = g
  BY <1>1, <1>3, <1>5
<1>10. \A x \in D : files[x].options = fs.open[x].options
  BY <1>1, <1>3 DEF OpenSet
<1> QED BY <1>2, <1>4, <1>6, <1>8, <1>9, <1>10

Readable(fs, d) == d \in DOMAIN fs.open /\ "read" \in fs.open[d].options

\* A read moves the file's own position at most, and one that is permitted
\* does not fail.
ReadDoes(T, fs, d, o) ==
  /\ Fine(o.fs, T) /\ Unique(o.fs.nodes)
  /\ o.error # Ok => o.fs = fs /\ ~Readable(fs, d)
  /\ o.error = Ok => Readable(o.fs, d) /\ o.value \in Seq({0, 1})

\* read moves the position of its file, if it is told none.
LEMMA ReadDoesThat ==
  ASSUME NEW T, NEW fs, Fine(fs, T), Unique(fs.nodes), NEW d, NEW length \in Nat,
         NEW position \in Nat \cup {Here}
  PROVE  /\ ReadDoes(T, fs, d, read(fs, d, length, position))
         /\ position # Here => read(fs, d, length, position).fs = fs
<1>1. PICK o : o = read(fs, d, length, position)
  OBVIOUS
<1>2. CASE ~Readable(fs, d)
  <2>1. \E code : code # Ok /\ o = Throw(fs, code)
    BY <1>1, <1>2 DEF read, Readable, Ok
  <2> QED BY <1>1, <1>2, <2>1 DEF ReadDoes, Throw
<1>3. CASE Readable(fs, d)
  <2>1. PICK file : file = fs.open[d]
    OBVIOUS
  <2>2. PICK offset : offset = IF position = Here THEN file.position ELSE position
    OBVIOUS
  <2>3. PICK bytes : bytes = ReadNode(fs.nodes[file.node], offset, length)
    OBVIOUS
  <2>4. d \in DOMAIN fs.open /\ "read" \in file.options
    BY <1>3, <2>1 DEF Readable
  <2>5. file \in OpenSet
    BY <2>1, <2>4, Systems DEF Fine
  <2>6. offset \in Nat
    BY <2>2, <2>5 DEF OpenSet
  <2>7. file.node \in DOMAIN fs.nodes /\ fs.nodes[file.node].kind \notin {"directory", "symlink"}
    BY <2>1, <2>4 DEF Fine, OpenOK
  <2>8. PICK node : node = fs.nodes[file.node]
    OBVIOUS
  <2>9. node \in NodeSet(T) /\ node.kind \notin {"directory", "symlink"}
    BY <2>7, <2>8, NodeKinds
  <2>10. bytes \in Seq({0, 1}) /\ Len(bytes) \in Nat
    BY <2>3, <2>6, <2>8, <2>9, ReadBytes
  <2>11. PICK moved : moved = [fs EXCEPT !.open[d].position = offset + Len(bytes)]
    OBVIOUS
  <2>12. offset + Len(bytes) \in Nat
    BY <2>6, <2>10
  <2>13. Fine(moved, T) /\ Unique(moved.nodes) /\ Readable(moved, d)
    <3>1. PICK to : to = offset + Len(bytes)
      OBVIOUS
    <3>2. moved = [fs EXCEPT !.open[d].position = to] /\ to \in Nat
      BY <2>11, <2>12, <3>1
    <3> QED BY <1>3, <2>4, <3>2, PositionLawful DEF Readable
  <2>14. o = [error |-> Ok, fs |-> IF position # Here THEN fs ELSE moved, value |-> bytes]
    BY <1>1, <2>1, <2>2, <2>3, <2>4, <2>11 DEF read, Return
  <2> QED BY <1>1, <1>3, <2>10, <2>13, <2>14 DEF ReadDoes
<1> QED BY <1>2, <1>3

\* read.
LEMMA ReadLawful ==
  ASSUME NEW T, NEW fs, Fine(fs, T), Unique(fs.nodes), NEW d, NEW length \in Nat,
         NEW position \in Nat \cup {Here}
  PROVE  Lawful(fs, read(fs, d, length, position), T)
<1>1. PICK o : o = read(fs, d, length, position)
  OBVIOUS
<1>2. ReadDoes(T, fs, d, o)
  BY <1>1, ReadDoesThat
<1> QED BY <1>1, <1>2 DEF ReadDoes, Lawful, Extends

\* A write that fails has done nothing.
WriteDoes(T, fs, o) ==
  /\ Fine(o.fs, T) /\ Unique(o.fs.nodes)
  /\ o.error # Ok => o.fs = fs
  /\ o = [error |-> o.error, fs |-> o.fs, value |-> o.value]

\* write changes the bytes of a file and its position, or nothing.
LEMMA WriteDoesThat ==
  ASSUME NEW T, NEW fs, Fine(fs, T), Unique(fs.nodes), NEW d, NEW input \in Seq({0, 1}),
         NEW position \in Nat \cup {Here}
  PROVE  /\ WriteDoes(T, fs, write(fs, d, input, position))
         /\ write(fs, d, input, position).error = Ok =>
              write(fs, d, input, position).value = Len(input)
<1>1. PICK o : o = write(fs, d, input, position)
  OBVIOUS
<1>2. CASE d \notin DOMAIN fs.open \/ "write" \notin fs.open[d].options
  <2>1. \E code : code # Ok /\ o = Throw(fs, code)
    <3>1. CASE d \notin DOMAIN fs.open
      <4>1. o = Throw(fs, "EBADF") BY <1>1, <3>1 DEF write
      <4> QED BY <4>1 DEF Ok
    <3>2. CASE d \in DOMAIN fs.open
      <4>1. o = Throw(fs, "EPERM") BY <1>1, <1>2, <3>2, Zenon DEF write
      <4> QED BY <4>1 DEF Ok
    <3> QED BY <3>1, <3>2
  <2> QED BY <1>1, <2>1 DEF WriteDoes, Throw
<1>3. CASE d \in DOMAIN fs.open /\ "write" \in fs.open[d].options
  <2>1. PICK file : file = fs.open[d]
    OBVIOUS
  <2>2. PICK append : append = ("append" \in file.options)
    OBVIOUS
  <2>3. PICK offset : offset = IF position = Here THEN file.position ELSE position
    OBVIOUS
  <2>4. file \in OpenSet /\ append \in BOOLEAN
    BY <1>3, <2>1, <2>2, Systems DEF Fine
  <2>5. offset \in Nat
    BY <2>3, <2>4 DEF OpenSet
  <2>6. PICK n : n = file.node
    OBVIOUS
  <2>7. n \in DOMAIN fs.nodes /\ fs.nodes[n].kind \notin {"directory", "symlink"}
    BY <1>3, <2>1, <2>6 DEF Fine, OpenOK
  <2>8. PICK node : node = fs.nodes[n]
    OBVIOUS
  <2>9. /\ node \in NodeSet(T) /\ node.kind \notin {"directory", "symlink"}
        /\ node.kind = "file" => Len(node.data) <= MaxSize
    BY <2>7, <2>8, NodeKinds DEF Fine, NodeOK
  <2>10. PICK changed : changed = WriteNode(node, offset, input, append)
    OBVIOUS
  <2>11. changed.error = Ok => Replaces(changed.value, node)
    BY <2>4, <2>5, <2>9, <2>10, WriteReplaces
  <2>12. PICK set : set = SetNode(fs, n, changed)
    OBVIOUS
  <2>13. SetDoes(T, fs, set)
    BY <2>7, <2>8, <2>11, <2>12, NodeSetTo
  <2>14. PICK to : to = IF append THEN Size(set.fs.nodes[n]) ELSE offset + Len(input)
    OBVIOUS
  <2>15. to \in Nat
    <3>1. offset + Len(input) \in Nat BY <2>5
    <3>2. n \in DOMAIN set.fs.nodes /\ Fine(set.fs, T)
      BY <2>7, <2>13 DEF SetDoes, SameNodes
    <3>3. PICK other : other = set.fs.nodes[n]
      OBVIOUS
    <3>4. other \in NodeSet(T) /\ (other.kind \in {"file", "bundled"} => other \in FileSet)
      BY <3>2, <3>3, NodeKinds
    <3>5. Size(other) \in Nat
      BY <3>4 DEF Size, FileSet
    <3> QED BY <2>14, <3>1, <3>3, <3>5
  <2>16. PICK moved : moved = [set.fs EXCEPT !.open[d].position = to]
    OBVIOUS
  <2>17. Fine(moved, T) /\ Unique(moved.nodes)
    <3>1. PICK g : g = set.fs
      OBVIOUS
    <3>2. Fine(g, T) /\ Unique(g.nodes) /\ d \in DOMAIN g.open
      BY <1>3, <2>13, <3>1 DEF SetDoes
    <3> QED BY <2>15, <2>16, <3>1, <3>2, PositionLawful
  <2>18. o = IF set.error = Ok
             THEN [error |-> Ok, fs |-> IF position # Here THEN set.fs ELSE moved,
                   value |-> Len(input)]
             ELSE set
    BY <1>1, <1>3, <2>1, <2>2, <2>3, <2>6, <2>8, <2>10, <2>12, <2>14, <2>16, Zenon
       DEF write, Then, Return
  <2>19. set = [error |-> set.error, fs |-> set.fs, value |-> set.value]
    <3>1. \/ \E more, value : set = Return(more, value)
          \/ \E code : set = Throw(fs, code)
      BY <2>12 DEF SetNode, Try
    <3> QED BY <3>1 DEF Return, Throw
  <2>20. o = [error |-> o.error, fs |-> o.fs, value |-> o.value]
    BY <2>18, <2>19
  <2> QED BY <1>1, <2>13, <2>17, <2>18, <2>20 DEF WriteDoes, SetDoes
<1> QED BY <1>2, <1>3

\* write.
LEMMA WriteLawful ==
  ASSUME NEW T, NEW fs, Fine(fs, T), Unique(fs.nodes), NEW d, NEW input \in Seq({0, 1}),
         NEW position \in Nat \cup {Here}
  PROVE  Lawful(fs, write(fs, d, input, position), T)
<1>1. PICK o : o = write(fs, d, input, position)
  OBVIOUS
<1>2. WriteDoes(T, fs, o)
  BY <1>1, WriteDoesThat
<1> QED BY <1>1, <1>2 DEF WriteDoes, Lawful, Extends

\* The largest of the numbers of two elements, for the folds over them.
LEMMA LargestOfTwo ==
  /\ SUBSET {1, 2} = {{}, {1}, {2}, {1, 2}}
  /\ Max({1}) = 1 /\ Max({2}) = 2 /\ Max({1, 2}) = 2
<1>1. Max({1}) = 1 /\ Max({2}) = 2
  BY DEF Max
<1>2. Max({1, 2}) = 2
  <2>1. 1 \in Int /\ 2 \in Int /\ 2 > 1 OBVIOUS
  <2>2. Max({1, 2}) \in {1, 2} /\ Max({1, 2}) >= 2 BY <2>1, MaxOfTwo
  <2> QED BY <2>2
<1>3. \A s \in SUBSET {1, 2} : s \in {{}, {1}, {2}, {1, 2}}
  <2> SUFFICES ASSUME NEW s \in SUBSET {1, 2} PROVE s \in {{}, {1}, {2}, {1, 2}}
    OBVIOUS
  <2>1. CASE 1 \in s /\ 2 \in s
    <3>1. s = {1, 2} BY <2>1
    <3> QED BY <3>1
  <2>2. CASE 1 \in s /\ 2 \notin s
    <3>1. s = {1} BY <2>2
    <3> QED BY <3>1
  <2>3. CASE 1 \notin s /\ 2 \in s
    <3>1. s = {2} BY <2>3
    <3> QED BY <3>1
  <2>4. CASE 1 \notin s /\ 2 \notin s
    <3>1. s = {} BY <2>4
    <3> QED BY <3>1
  <2> QED BY <2>1, <2>2, <2>3, <2>4
<1> QED BY <1>1, <1>2, <1>3

\* For a fold over two buffers.
LEMMA SetsOfTwo ==
  /\ {1} # {} /\ {2} # {} /\ {1} # {2} /\ {1, 2} # {} /\ {1, 2} # {1} /\ {1, 2} # {2}
  /\ {1} \ {1} = {} /\ {2} \ {2} = {} /\ {1, 2} \ {2} = {1}
<1>1. {1} # {} /\ {2} # {} /\ {1, 2} # {}
  OBVIOUS
<1>2. {1} # {2}
  <2>1. 1 \in {1} /\ 1 \notin {2} OBVIOUS
  <2> QED BY <2>1
<1>3. {1, 2} # {1} /\ {1, 2} # {2}
  <2>1. 1 \in {1, 2} /\ 2 \in {1, 2} /\ 1 \notin {2} /\ 2 \notin {1} OBVIOUS
  <2> QED BY <2>1
<1>4. {1} \ {1} = {} /\ {2} \ {2} = {}
  OBVIOUS
<1>5. {1, 2} \ {2} = {1}
  <2>1. \A x : x \in {1, 2} \ {2} <=> x \in {1} OBVIOUS
  <2> QED BY <2>1
<1> QED BY <1>1, <1>2, <1>3, <1>4, <1>5

\* readv reads into one buffer after the other, and throws before the first.
LEMMA ReadvLawful ==
  ASSUME NEW T, NEW fs, Fine(fs, T), Unique(fs.nodes), NEW d, NEW position \in Nat \cup {Here},
         NEW a \in Nat, NEW b \in Nat
  PROVE  Lawful(fs, readv(fs, d, <<a, b>>, position), T)
<1> DEFINE lengths == <<a, b>>
           Plus(done, got) == Then(got, Return(got.fs, done \o got.value))
           Each(outcome, length) ==
             Then(outcome, Plus(outcome.value,
               read(outcome.fs, d, length,
                    IF position = Here THEN Here ELSE position + Len(outcome.value))))
           Grow(g) == [s \in SUBSET DOMAIN lengths |->
                         IF s = {} THEN Return(fs, <<>>)
                         ELSE Each(g[s \ {Max(s)}], lengths[Max(s)])]
           iter == CHOOSE g : g = Grow(g)
           none == Return(fs, <<>>)
           one == Each(none, a)
           both == Each(one, b)
<1>1. readv(fs, d, lengths, position) =
        IF d \notin DOMAIN fs.open THEN Throw(fs, "EBADF") ELSE iter[DOMAIN lengths]
  BY DEF readv, FoldLeft, MapThenFoldSet
<1>2. DOMAIN lengths = {1, 2} /\ lengths[1] = a /\ lengths[2] = b
  OBVIOUS
<1> HIDE DEF lengths
<1>3. iter[DOMAIN lengths] = both
  <2> HIDE DEF Each
  <2>1. \E g : g = Grow(g)
    <3> DEFINE h == [s \in SUBSET DOMAIN lengths |->
                       IF s = {} THEN none ELSE IF s = {1} THEN one
                       ELSE IF s = {2} THEN Each(none, b) ELSE both]
    <3>1. {1} # {} /\ {2} # {} /\ {1} # {2} /\ {1, 2} # {} /\ {1, 2} # {1} /\ {1, 2} # {2}
          /\ {1} \ {1} = {} /\ {2} \ {2} = {} /\ {1, 2} \ {2} = {1}
      BY SetsOfTwo
    <3>2. SUBSET DOMAIN lengths = {{}, {1}, {2}, {1, 2}}
      BY <1>2, LargestOfTwo
    <3>3. h[{}] = none /\ h[{1}] = one /\ h[{2}] = Each(none, b) /\ h[{1, 2}] = both
      BY <3>1, <3>2
    <3>4. Grow(h)[{}] = none /\ Grow(h)[{1}] = one /\ Grow(h)[{2}] = Each(none, b)
          /\ Grow(h)[{1, 2}] = both
      <4> HIDE DEF h
      <4> QED BY <1>2, <3>1, <3>2, <3>3, LargestOfTwo
    <3>5. \A s \in SUBSET DOMAIN lengths : h[s] = Grow(h)[s]
      <4> HIDE DEF h, Grow
      <4> QED BY <3>2, <3>3, <3>4
    <3>6. h = Grow(h)
      BY <3>5
    <3> QED BY <3>6
  <2>2. iter = Grow(iter)
    <3> HIDE DEF Grow
    <3> QED BY <2>1
  <2> HIDE DEF iter
  <2>3. SUBSET DOMAIN lengths = {{}, {1}, {2}, {1, 2}}
    BY <1>2, LargestOfTwo
  <2>4. iter[{}] = none
    BY <2>2, <2>3
  <2>5. iter[{1}] = one
    <3>1. {1} # {} /\ {1} \ {1} = {} BY SetsOfTwo
    <3>2. {1} \in SUBSET DOMAIN lengths BY <2>3
    <3>3. iter[{1}] = Each(iter[{1} \ {Max({1})}], lengths[Max({1})])
      BY <2>2, <3>1, <3>2
    <3>4. Max({1}) = 1 BY LargestOfTwo
    <3> QED BY <1>2, <2>4, <3>1, <3>3, <3>4
  <2>6. iter[{1, 2}] = both
    <3>1. {1, 2} # {} /\ {1, 2} \ {2} = {1} BY SetsOfTwo
    <3>2. {1, 2} \in SUBSET DOMAIN lengths BY <2>3
    <3>3. iter[{1, 2}] = Each(iter[{1, 2} \ {Max({1, 2})}], lengths[Max({1, 2})])
      BY <2>2, <3>1, <3>2
    <3>4. Max({1, 2}) = 2 BY LargestOfTwo
    <3> QED BY <1>2, <2>5, <3>1, <3>3, <3>4
  <2> QED BY <1>2, <2>6
<1> HIDE DEF iter
<1>4. CASE d \notin DOMAIN fs.open
  <2>1. readv(fs, d, <<a, b>>, position) = Throw(fs, "EBADF") /\ "EBADF" # Ok
    BY <1>1, <1>4 DEF Ok, lengths
  <2> QED BY <2>1, NothingDone
<1>5. CASE d \in DOMAIN fs.open
  <2>1. readv(fs, d, <<a, b>>, position) = both
    <3>1. readv(fs, d, lengths, position) = iter[DOMAIN lengths]
      <4> HIDE DEF both, one, none, Each
      <4> QED BY <1>1, <1>5
    <3> HIDE DEF both, one, none, Each
    <3> QED BY <1>3, <3>1 DEF lengths
  <2>2. PICK first : first = read(fs, d, a, position)
    OBVIOUS
  <2>3. ReadDoes(T, fs, d, first) /\ (position # Here => first.fs = fs)
    BY <2>2, ReadDoesThat
  <2>4. one = IF first.error = Ok
              THEN [error |-> Ok, fs |-> first.fs, value |-> <<>> \o first.value] ELSE first
    <3>1. (IF position = Here THEN Here ELSE position + Len(<<>>)) = position
      BY DEF Here
    <3> QED BY <2>2, <3>1 DEF Then, Return
  <2> HIDE DEF one
  <2>5. CASE first.error # Ok
    <3>1. both = first
      BY <2>4, <2>5 DEF Then
    <3> QED BY <2>1, <2>3, <2>5, <3>1 DEF ReadDoes, Lawful, Extends
  <2>6. CASE first.error = Ok
    <3>1. PICK place : place = IF position = Here THEN Here ELSE position + Len(one.value)
      OBVIOUS
    <3>2. PICK second : second = read(first.fs, d, b, place)
      OBVIOUS
    <3>3. both = IF second.error = Ok
                 THEN [error |-> Ok, fs |-> second.fs, value |-> one.value \o second.value]
                 ELSE second
      BY <2>4, <2>6, <3>1, <3>2 DEF Then, Return
    <3>4. place \in Nat \cup {Here}
      <4>1. first.value \in Seq({0, 1}) /\ <<>> \in Seq({0, 1})
        BY <2>3, <2>6 DEF ReadDoes
      <4>2. one.value \in Seq({0, 1})
        BY <2>4, <2>6, <4>1
      <4>3. Len(one.value) \in Nat
        BY <4>2
      <4> QED BY <3>1, <4>3
    <3>5. ReadDoes(T, first.fs, d, second)
      <4>1. PICK g : g = first.fs OBVIOUS
      <4>2. Fine(g, T) /\ Unique(g.nodes) BY <2>3, <4>1 DEF ReadDoes
      <4> QED BY <3>2, <3>4, <4>1, <4>2, ReadDoesThat
    <3> QED BY <2>1, <2>3, <2>6, <3>3, <3>5 DEF ReadDoes, Lawful, Extends
  <2> QED BY <2>5, <2>6
<1> QED BY <1>4, <1>5

\* A call that throws and keeps what it has done.
Allowed(o, T) == Fine(o.fs, T) /\ Unique(o.fs.nodes)

\* writev leaves a tree, though it may throw after the first buffer.
LEMMA WritevAllowed ==
  ASSUME NEW T, NEW fs, Fine(fs, T), Unique(fs.nodes), NEW d, NEW position \in Nat \cup {Here},
         NEW a \in Seq({0, 1}), NEW b \in Seq({0, 1})
  PROVE  Allowed(writev(fs, d, <<a, b>>, position), T)
<1> DEFINE inputs == <<a, b>>
           Plus(done, wrote) == Then(wrote, Return(wrote.fs, done + wrote.value))
           Each(outcome, input) ==
             Then(outcome, Plus(outcome.value,
               write(outcome.fs, d, input,
                     IF position = Here THEN Here ELSE position + outcome.value)))
           Grow(g) == [s \in SUBSET DOMAIN inputs |->
                         IF s = {} THEN Return(fs, 0)
                         ELSE Each(g[s \ {Max(s)}], inputs[Max(s)])]
           iter == CHOOSE g : g = Grow(g)
           none == Return(fs, 0)
           one == Each(none, a)
           both == Each(one, b)
<1>1. writev(fs, d, inputs, position) =
        IF d \notin DOMAIN fs.open THEN Throw(fs, "EBADF") ELSE iter[DOMAIN inputs]
  BY DEF writev, FoldLeft, MapThenFoldSet
<1>2. DOMAIN inputs = {1, 2} /\ inputs[1] = a /\ inputs[2] = b
  OBVIOUS
<1> HIDE DEF inputs
<1>3. iter[DOMAIN inputs] = both
  <2> HIDE DEF Each
  <2>1. \E g : g = Grow(g)
    <3> DEFINE h == [s \in SUBSET DOMAIN inputs |->
                       IF s = {} THEN none ELSE IF s = {1} THEN one
                       ELSE IF s = {2} THEN Each(none, b) ELSE both]
    <3>1. {1} # {} /\ {2} # {} /\ {1} # {2} /\ {1, 2} # {} /\ {1, 2} # {1} /\ {1, 2} # {2}
          /\ {1} \ {1} = {} /\ {2} \ {2} = {} /\ {1, 2} \ {2} = {1}
      BY SetsOfTwo
    <3>2. SUBSET DOMAIN inputs = {{}, {1}, {2}, {1, 2}}
      BY <1>2, LargestOfTwo
    <3>3. h[{}] = none /\ h[{1}] = one /\ h[{2}] = Each(none, b) /\ h[{1, 2}] = both
      BY <3>1, <3>2
    <3>4. Grow(h)[{}] = none /\ Grow(h)[{1}] = one /\ Grow(h)[{2}] = Each(none, b)
          /\ Grow(h)[{1, 2}] = both
      <4> HIDE DEF h
      <4> QED BY <1>2, <3>1, <3>2, <3>3, LargestOfTwo
    <3>5. \A s \in SUBSET DOMAIN inputs : h[s] = Grow(h)[s]
      <4> SUFFICES ASSUME NEW s \in SUBSET DOMAIN inputs PROVE h[s] = Grow(h)[s]
        OBVIOUS
      <4> HIDE DEF h, Grow
      <4>1. s = {} \/ s = {1} \/ s = {2} \/ s = {1, 2}
        BY <3>2
      <4>2. CASE s = {}     BY <4>2, <3>3, <3>4
      <4>3. CASE s = {1}    BY <4>3, <3>3, <3>4
      <4>4. CASE s = {2}    BY <4>4, <3>3, <3>4
      <4>5. CASE s = {1, 2} BY <4>5, <3>3, <3>4
      <4> QED BY <4>1, <4>2, <4>3, <4>4, <4>5
    <3>6. h = Grow(h)
      BY <3>5
    <3> QED BY <3>6
  <2>2. iter = Grow(iter)
    <3> HIDE DEF Grow
    <3> QED BY <2>1
  <2> HIDE DEF iter
  <2>3. SUBSET DOMAIN inputs = {{}, {1}, {2}, {1, 2}}
    BY <1>2, LargestOfTwo
  <2>4. iter[{}] = none
    BY <2>2, <2>3
  <2>5. iter[{1}] = one
    <3>1. {1} # {} /\ {1} \ {1} = {} BY SetsOfTwo
    <3>2. {1} \in SUBSET DOMAIN inputs BY <2>3
    <3>3. iter[{1}] = Each(iter[{1} \ {Max({1})}], inputs[Max({1})])
      BY <2>2, <3>1, <3>2
    <3>4. Max({1}) = 1 BY LargestOfTwo
    <3> QED BY <1>2, <2>4, <3>1, <3>3, <3>4
  <2>6. iter[{1, 2}] = both
    <3>1. {1, 2} # {} /\ {1, 2} \ {2} = {1} BY SetsOfTwo
    <3>2. {1, 2} \in SUBSET DOMAIN inputs BY <2>3
    <3>3. iter[{1, 2}] = Each(iter[{1, 2} \ {Max({1, 2})}], inputs[Max({1, 2})])
      BY <2>2, <3>1, <3>2
    <3>4. Max({1, 2}) = 2 BY LargestOfTwo
    <3> QED BY <1>2, <2>5, <3>1, <3>3, <3>4
  <2> QED BY <1>2, <2>6
<1> HIDE DEF iter
<1>4. CASE d \notin DOMAIN fs.open
  <2>1. writev(fs, d, <<a, b>>, position) = Throw(fs, "EBADF")
    BY <1>1, <1>4 DEF inputs
  <2> QED BY <2>1 DEF Throw, Allowed
<1>5. CASE d \in DOMAIN fs.open
  <2>1. writev(fs, d, <<a, b>>, position) = both
    <3>1. writev(fs, d, inputs, position) = iter[DOMAIN inputs]
      <4> HIDE DEF both, one, none, Each
      <4> QED BY <1>1, <1>5
    <3> HIDE DEF both, one, none, Each
    <3> QED BY <1>3, <3>1 DEF inputs
  <2>2. PICK first : first = write(fs, d, a, position)
    OBVIOUS
  <2>3. WriteDoes(T, fs, first) /\ (first.error = Ok => first.value = Len(a))
    BY <2>2, WriteDoesThat
  <2>4. one = IF first.error = Ok
              THEN [error |-> Ok, fs |-> first.fs, value |-> 0 + first.value] ELSE first
    <3>1. (IF position = Here THEN Here ELSE position + 0) = position
      BY DEF Here
    <3> QED BY <2>2, <3>1 DEF Then, Return
  <2> HIDE DEF one
  <2>5. CASE first.error # Ok
    <3>1. both = first
      BY <2>4, <2>5 DEF Then
    <3> QED BY <2>1, <2>3, <2>5, <3>1 DEF WriteDoes, Allowed
  <2>6. CASE first.error = Ok
    <3>1. PICK place : place = IF position = Here THEN Here ELSE position + one.value
      OBVIOUS
    <3>2. PICK second : second = write(first.fs, d, b, place)
      OBVIOUS
    <3>3. both = IF second.error = Ok
                 THEN [error |-> Ok, fs |-> second.fs, value |-> one.value + second.value]
                 ELSE second
      BY <2>4, <2>6, <3>1, <3>2 DEF Then, Return
    <3>4. place \in Nat \cup {Here}
      BY <2>3, <2>4, <2>6, <3>1
    <3>5. WriteDoes(T, first.fs, second)
      <4>1. PICK g : g = first.fs OBVIOUS
      <4>2. Fine(g, T) /\ Unique(g.nodes) BY <2>3, <4>1 DEF WriteDoes
      <4> QED BY <3>2, <3>4, <4>1, <4>2, WriteDoesThat
    <3> QED BY <2>1, <2>6, <3>3, <3>5 DEF WriteDoes, Allowed
  <2> QED BY <2>5, <2>6
<1> QED BY <1>4, <1>5

\* open makes a file before it has looked at the options, but then nothing
\* can fail.
LEMMA OpenLawful ==
  ASSUME NEW T, T \subseteq TargetSet, NEW fs, Fine(fs, T), Unique(fs.nodes),
         NEW path \in Seq(STRING), NEW options
  PROVE  Lawful(fs, open(fs, path, options), T)
<1> DEFINE Find(there, p) ==
             IF there.error = Ok THEN Return(fs, there.value)
             ELSE IF there.error # "ENOENT" \/ "create" \notin options
             THEN Throw(fs, there.error)
             ELSE IF p.error # Ok THEN Throw(fs, p.error)
             ELSE IF Has(fs.nodes, p.value.dir, p.value.name) THEN Throw(fs, "ENOENT")
             ELSE create(fs, p.value.dir, p.value.name, MemoryFile(<<>>))
           Truncated(f, n) == IF {"truncate", "write"} \subseteq options
                              THEN SetNode(f, n, resize(f.nodes[n], 0)) ELSE Return(f, 0)
           Check(f, n, cut, existed) ==
             IF existed /\ "exclusive" \in options THEN Throw(f, "EEXIST")
             ELSE IF IsDirectory(f.nodes, n) THEN Throw(f, "EISDIR")
             ELSE IF "write" \in options /\ f.nodes[n].kind = "bundled" THEN Throw(f, "EROFS")
             ELSE Then(cut, Numbered(cut.fs, n, options))
           At(there, found) ==
             Then(found, Check(found.fs, found.value, Truncated(found.fs, found.value),
                               there.error = Ok))
<1>a. open(fs, path, options) =
        IF options \cap {"read", "write"} = {} THEN Throw(fs, "EINVAL")
        ELSE At(resolve(fs.nodes, path, TRUE),
                Find(resolve(fs.nodes, path, TRUE), parent(fs.nodes, path)))
  BY Zenon DEF open
<1> HIDE DEF At, Find, Check, Truncated
<1>1. PICK there : there = resolve(fs.nodes, path, TRUE)
  OBVIOUS
<1>2. PICK p : p = parent(fs.nodes, path)
  OBVIOUS
<1>3. PICK empty : empty = MemoryFile(<<>>)
  OBVIOUS
<1>b. PICK found : found = Find(there, p)
  OBVIOUS
<1>4. found =
        IF there.error = Ok THEN Return(fs, there.value)
        ELSE IF there.error # "ENOENT" \/ "create" \notin options THEN Throw(fs, there.error)
        ELSE IF p.error # Ok THEN Throw(fs, p.error)
        ELSE IF Has(fs.nodes, p.value.dir, p.value.name) THEN Throw(fs, "ENOENT")
        ELSE create(fs, p.value.dir, p.value.name, empty)
  BY <1>3, <1>b, Zenon DEF Find
<1>5. PICK f : f = found.fs
  OBVIOUS
<1>6. PICK n : n = found.value
  OBVIOUS
<1>7. PICK changed : changed = resize(f.nodes[n], 0)
  OBVIOUS
<1>c. PICK cut : cut = Truncated(f, n)
  OBVIOUS
<1>8. cut = IF {"truncate", "write"} \subseteq options
            THEN SetNode(f, n, changed) ELSE Return(f, 0)
  BY <1>7, <1>c, Zenon DEF Truncated
<1>d. PICK checked : checked = Check(f, n, cut, there.error = Ok)
  OBVIOUS
<1>9. checked =
        IF there.error = Ok /\ "exclusive" \in options THEN Throw(f, "EEXIST")
        ELSE IF IsDirectory(f.nodes, n) THEN Throw(f, "EISDIR")
        ELSE IF "write" \in options /\ f.nodes[n].kind = "bundled" THEN Throw(f, "EROFS")
        ELSE IF cut.error = Ok THEN Numbered(cut.fs, n, options) ELSE cut
  BY <1>d, Zenon DEF Check, Then
<1>10. PICK o : o = open(fs, path, options)
  OBVIOUS
<1>11. \/ o = Throw(fs, "EINVAL")
       \/ o = IF found.error = Ok THEN checked ELSE found
  <2>1. o = Throw(fs, "EINVAL") \/ o = At(there, found)
    BY <1>a, <1>b, <1>1, <1>2, <1>10
  <2>2. At(there, found) = IF found.error = Ok THEN checked ELSE found
    BY <1>5, <1>6, <1>c, <1>d, Zenon DEF At, Then
  <2> QED BY <2>1, <2>2
\* What is opened can be, if what is made of it does not throw.
<1>12. ASSUME Fine(f, T), Unique(f.nodes), n \in DOMAIN f.nodes, f.nodes[n].kind # "symlink"
       PROVE  /\ SetDoes(T, f, cut)
              /\ \/ checked.error = Ok /\ Fine(checked.fs, T) /\ Unique(checked.fs.nodes)
                 \/ /\ checked.error # Ok /\ checked.fs = f
                    /\ \/ there.error = Ok
                       \/ f.nodes[n].kind \in {"directory", "bundled"}
                       \/ cut.error # Ok
  <2>1. changed.error = Ok => Replaces(changed.value, f.nodes[n])
    BY <1>7, <1>12, NodeKinds, ResizeReplaces
  <2>2. SetDoes(T, f, cut)
    <3>1. SetDoes(T, f, SetNode(f, n, changed))
      BY <1>12, <2>1, NodeSetTo
    <3>2. SetDoes(T, f, Return(f, 0))
      BY <1>12 DEF SetDoes, SameNodes, Return
    <3> QED BY <1>8, <3>1, <3>2
  <2>3. CASE there.error = Ok /\ "exclusive" \in options
    BY <1>9, <2>2, <2>3 DEF Throw, Ok
  <2>4. CASE ~(there.error = Ok /\ "exclusive" \in options) /\ IsDirectory(f.nodes, n)
    BY <1>9, <2>2, <2>4 DEF Throw, Ok, IsDirectory
  <2>5. CASE /\ ~(there.error = Ok /\ "exclusive" \in options) /\ ~IsDirectory(f.nodes, n)
             /\ "write" \in options /\ f.nodes[n].kind = "bundled"
    BY <1>9, <2>2, <2>5 DEF Throw, Ok
  <2>6. CASE /\ ~(there.error = Ok /\ "exclusive" \in options) /\ ~IsDirectory(f.nodes, n)
             /\ ~("write" \in options /\ f.nodes[n].kind = "bundled")
             /\ cut.error # Ok
    <3>1. checked = cut BY <1>9, <2>6
    <3> QED BY <2>2, <2>6, <3>1 DEF SetDoes
  <2>7. CASE /\ ~(there.error = Ok /\ "exclusive" \in options) /\ ~IsDirectory(f.nodes, n)
             /\ ~("write" \in options /\ f.nodes[n].kind = "bundled")
             /\ cut.error = Ok
    <3>1. checked = Numbered(cut.fs, n, options) BY <1>9, <2>7
    <3>2. PICK g : g = cut.fs OBVIOUS
    <3>3. /\ Fine(g, T) /\ Unique(g.nodes) /\ n \in DOMAIN g.nodes
          /\ g.nodes[n].kind = f.nodes[n].kind
      BY <1>12, <2>2, <3>2 DEF SetDoes, SameNodes
    <3>4. /\ g.nodes[n].kind \notin {"directory", "symlink"}
          /\ "write" \in options => g.nodes[n].kind # "bundled"
      BY <1>12, <2>7, <3>3 DEF IsDirectory
    <3>5. /\ Numbered(g, n, options).error = Ok
          /\ Fine(Numbered(g, n, options).fs, T) /\ Unique(Numbered(g, n, options).fs.nodes)
      BY <3>3, <3>4, NumberedLawful
    <3> QED BY <2>2, <3>1, <3>2, <3>5
  <2> QED BY <2>2, <2>3, <2>4, <2>5, <2>6, <2>7
<1>13. CASE o = Throw(fs, "EINVAL")
  <2>1. "EINVAL" # Ok BY DEF Ok
  <2> QED BY <1>10, <1>13, <2>1, NothingDone
<1>14. CASE o = (IF found.error = Ok THEN checked ELSE found) /\ there.error = Ok
  <2>1. found.error = Ok /\ f = fs /\ n = there.value
    BY <1>4, <1>5, <1>6, <1>14 DEF Return
  <2>2. n \in DOMAIN fs.nodes /\ fs.nodes[n].kind # "symlink"
    BY <1>1, <1>14, <2>1, ResolvedPath
  <2> QED BY <1>10, <1>12, <1>14, <2>1, <2>2 DEF Lawful, Extends
<1>15. CASE /\ o = (IF found.error = Ok THEN checked ELSE found)
            /\ \E code : code # Ok /\ found = Throw(fs, code)
  <2>1. PICK code : code # Ok /\ found = Throw(fs, code)
    BY <1>15
  <2>2. o = Throw(fs, code)
    BY <1>15, <2>1 DEF Throw
  <2> QED BY <1>10, <2>1, <2>2, NothingDone
<1>16. CASE /\ o = (IF found.error = Ok THEN checked ELSE found)
            /\ there.error # Ok /\ p.error = Ok
            /\ found = create(fs, p.value.dir, p.value.name, empty)
  <2>1. /\ p.value.dir \in DOMAIN fs.nodes /\ IsDirectory(fs.nodes, p.value.dir)
        /\ p.value.name \in STRING
    BY <1>2, <1>16, ParentIsThere
  <2>2. empty \in NodeSet(T) /\ NodeOK(empty, DOMAIN fs.nodes) /\ empty.kind = "file"
    BY <1>3, NewNodes
  <2>3. CreateDoes(T, fs, p.value.dir, p.value.name, empty, found)
    BY <1>16, <2>1, <2>2, Created
  <2>4. Lawful(fs, found, T)
    BY <1>16, <2>1, <2>2, CreateLawful
  <2>5. CASE found.error # Ok
    BY <1>10, <1>16, <2>4, <2>5
  <2>6. CASE found.error = Ok
    <3>1. /\ Fine(f, T) /\ Unique(f.nodes)
          /\ n \in DOMAIN f.nodes /\ f.nodes[n] = empty
      BY <1>5, <1>6, <2>3, <2>4, <2>6 DEF CreateDoes, Lawful, Entered
    <3>2. cut.error = Ok
      <4>1. changed.error = Ok
        BY <1>3, <1>7, <2>2, <3>1, FileLimits DEF resize, Found
      <4> QED BY <1>8, <4>1 DEF SetNode, Try, Return
    <3>3. checked.error = Ok /\ Fine(checked.fs, T) /\ Unique(checked.fs.nodes)
      BY <1>12, <1>16, <2>2, <3>1, <3>2
    <3> QED BY <1>10, <1>16, <2>6, <3>3 DEF Lawful
  <2> QED BY <2>5, <2>6
<1>17. \/ there.error = Ok
       \/ \E code : code # Ok /\ found = Throw(fs, code)
       \/ /\ there.error # Ok /\ p.error = Ok
          /\ found = create(fs, p.value.dir, p.value.name, empty)
  BY <1>4 DEF Ok
<1> QED BY <1>11, <1>13, <1>14, <1>15, <1>16, <1>17

-----------------------------------------------------------------------------
(* write_file and copy_file_with_options: open, write, close.              *)

\* What a call may leave that keeps what it did by the time it throws.
Kept(fs, o, T) == Fine(o.fs, T) /\ (Unique(o.fs.nodes) \/ Extends(fs, o.fs))

\* write_file leaves a tree, though it may throw after it has opened.
LEMMA WriteFileKept ==
  ASSUME NEW T, T \subseteq TargetSet, NEW fs, Fine(fs, T), Unique(fs.nodes),
         NEW path \in Seq(STRING), NEW input \in Seq({0, 1}), NEW append
  PROVE  Kept(fs, write_file(fs, path, input, append), T)
<1>1. PICK options : options = {"write", "create"} \cup IF append THEN {"append"} ELSE {"truncate"}
  OBVIOUS
<1>2. PICK opened : opened = open(fs, path, options)
  OBVIOUS
<1>3. Lawful(fs, opened, T)
  BY <1>2, OpenLawful
<1>4. PICK wrote : wrote = write(opened.fs, opened.value, input, Here)
  OBVIOUS
<1>5. PICK closed : closed = [wrote EXCEPT !.fs = close(wrote.fs, opened.value).fs]
  OBVIOUS
<1>6. write_file(fs, path, input, append) = IF opened.error = Ok THEN closed ELSE opened
  BY <1>1, <1>2, <1>4, <1>5 DEF write_file, Then
<1>7. CASE opened.error # Ok
  BY <1>3, <1>6, <1>7 DEF Lawful, Kept
<1>8. CASE opened.error = Ok
  <2>1. PICK f : f = opened.fs
    OBVIOUS
  <2>2. Fine(f, T) /\ Unique(f.nodes)
    BY <1>3, <1>8, <2>1 DEF Lawful
  <2>3. WriteDoes(T, f, wrote)
    BY <1>4, <2>1, <2>2, WriteDoesThat
  <2>4. PICK g : g = wrote.fs
    OBVIOUS
  <2>5. Fine(g, T) /\ Unique(g.nodes)
    BY <2>3, <2>4 DEF WriteDoes
  <2>6. PICK h : h = close(g, opened.value).fs
    OBVIOUS
  <2>7. Fine(h, T) /\ Unique(h.nodes)
    BY <2>5, <2>6, CloseLawful
  <2>8. closed.fs = h
    <3>1. wrote = [error |-> wrote.error, fs |-> wrote.fs, value |-> wrote.value]
      BY <2>3 DEF WriteDoes
    <3> QED BY <1>5, <2>4, <2>6, <3>1
  <2> QED BY <1>6, <1>8, <2>7, <2>8 DEF Kept
<1> QED BY <1>7, <1>8

\* What is read from a file or a device, from its start, are bytes.
LEMMA CopyFileKept ==
  ASSUME NEW T, T \subseteq TargetSet, NEW fs, Fine(fs, T), Unique(fs.nodes),
         NEW from \in Seq(STRING), NEW to \in Seq(STRING), NEW exclusive
  PROVE  Kept(fs, copy_file_with_options(fs, from, to, exclusive), T)
<1>1. PICK n : n = resolve(fs.nodes, from, TRUE)
  OBVIOUS
<1>2. PICK o : o = copy_file_with_options(fs, from, to, exclusive)
  OBVIOUS
<1>3. PICK input : input = ReadNode(fs.nodes[n.value], 0, Size(fs.nodes[n.value]))
  OBVIOUS
<1>4. \/ \E code : code # Ok /\ o = Throw(fs, code)
      \/ n.error = Ok /\ ~IsDirectory(fs.nodes, n.value) /\ o = write_file(fs, to, input, FALSE)
  <2>1. CASE n.error # Ok
    BY <1>1, <1>2, <2>1 DEF copy_file_with_options
  <2>2. CASE n.error = Ok /\ IsDirectory(fs.nodes, n.value)
    <3>1. o = Throw(fs, "EISDIR")
      BY <1>1, <1>2, <2>2 DEF copy_file_with_options
    <3> QED BY <3>1 DEF Ok
  <2>3. CASE n.error = Ok /\ ~IsDirectory(fs.nodes, n.value)
    <3>1. o = Throw(fs, "EEXIST") \/ o = write_file(fs, to, input, FALSE)
      BY <1>1, <1>2, <1>3, <2>3 DEF copy_file_with_options
    <3> QED BY <2>3, <3>1 DEF Ok
  <2> QED BY <2>1, <2>2, <2>3
<1>5. ASSUME NEW code, code # Ok, o = Throw(fs, code)
      PROVE  Kept(fs, o, T)
  BY <1>5 DEF Throw, Kept
<1>6. CASE n.error = Ok /\ ~IsDirectory(fs.nodes, n.value) /\ o = write_file(fs, to, input, FALSE)
  <2>1. n.value \in DOMAIN fs.nodes /\ fs.nodes[n.value].kind # "symlink"
    BY <1>1, <1>6, ResolvedPath
  <2>2. input \in Seq({0, 1})
    <3>1. PICK node : node = fs.nodes[n.value]
      OBVIOUS
    <3>2. node \in NodeSet(T) /\ node.kind # "directory" /\ node.kind # "symlink"
      BY <1>6, <2>1, <3>1, NodeKinds DEF IsDirectory
    <3>3. Size(node) \in Nat
      BY <3>2 DEF Size, NodeSet, DirSet, FileSet
    <3> QED BY <1>3, <3>1, <3>2, <3>3, ReadBytes
  <2> QED BY <1>2, <1>6, <2>2, WriteFileKept
<1> QED BY <1>2, <1>4, <1>5, <1>6

-----------------------------------------------------------------------------
(* mkdir with recursive: the names are gone through in their order.        *)

\* Recursion over the subsets of a finite set, one element after the other.
FoldsOver(S, V, base, pick, step) ==
  /\ IsFiniteSet(S) /\ base \in V
  /\ pick \in [(SUBSET S) \ {{}} -> S] /\ \A s \in (SUBSET S) \ {{}} : pick[s] \in s
  /\ step \in [S \X V -> V]

Folded(g, S, base, pick, step) ==
  \A s \in SUBSET S : g[s] = IF s = {} THEN base ELSE step[<<pick[s], g[s \ {pick[s]}]>>]

\* A fold over a finite set exists.
LEMMA FoldingOver ==
  ASSUME NEW S, NEW V, NEW base, NEW pick, NEW step, FoldsOver(S, V, base, pick, step)
  PROVE  \E g \in [SUBSET S -> V] : Folded(g, S, base, pick, step)
<1>1. PICK P : P = SUBSET S
  OBVIOUS
<1> DEFINE R == {p \in P \X P : p[1] \subseteq p[2] /\ p[1] # p[2]}
           stop == {{}}
           next == [s \in P \ stop |-> s \ {pick[s]}]
           first == [s \in stop |-> base]
           more == [p \in (P \ stop) \X V |-> step[<<pick[p[1]], p[2]>>]]
<1>2. IsWellFoundedOn(R, P)
  BY <1>1, SmallerFirst DEF FoldsOver
<1>3. RecursiveOn(P, R, V, stop, first, next, more)
  <2>1. \A s \in P \ stop : pick[s] \in S /\ pick[s] \in s
    BY <1>1 DEF FoldsOver
  <2>2. next \in [P \ stop -> P]
    BY <1>1
  <2>3. \A s \in P \ stop : <<next[s], s>> \in R
    BY <1>1, <2>1, <2>2
  <2>4. first \in [stop -> V] /\ stop \in SUBSET P
    BY <1>1 DEF FoldsOver
  <2>5. more \in [(P \ stop) \X V -> V]
    <3>1. ASSUME NEW s \in P \ stop, NEW v \in V PROVE step[<<pick[s], v>>] \in V
      <4>1. <<pick[s], v>> \in S \X V BY <2>1
      <4> QED BY <4>1 DEF FoldsOver
    <3> HIDE DEF stop
    <3> QED BY <3>1
  <2> HIDE DEF R, stop, next, first, more
  <2> QED BY <1>2, <2>2, <2>3, <2>4, <2>5 DEF RecursiveOn
<1> HIDE DEF R, next, first, more
<1>4. PICK g \in [P -> V] : Solves(g, P, stop, first, next, more)
  <2> HIDE DEF stop
  <2> QED BY <1>3, Recursion
<1>5. ASSUME NEW s \in P
      PROVE  g[s] = IF s = {} THEN base ELSE step[<<pick[s], g[s \ {pick[s]}]>>]
  <2>1. CASE s = {}
    BY <1>4, <2>1 DEF Solves, first
  <2>2. CASE s # {}
    <3>1. s \in P \ stop BY <2>2
    <3>2. next[s] = s \ {pick[s]} BY <3>1 DEF next
    <3>3. s \ {pick[s]} \in P BY <1>1
    <3>4. <<s, g[next[s]]>> \in (P \ stop) \X V BY <3>1, <3>2, <3>3
    <3>5. more[<<s, g[next[s]]>>] = step[<<pick[s], g[next[s]]>>]
      BY <3>4 DEF more
    <3>6. g[s] = more[<<s, g[next[s]]>>]
      <4>1. s \notin stop BY <3>1
      <4> HIDE DEF stop
      <4> QED BY <1>4, <4>1 DEF Solves
    <3> QED BY <2>2, <3>2, <3>5, <3>6
  <2> QED BY <2>1, <2>2
<1> QED BY <1>1, <1>5 DEF Folded

\* What holds of no element and, if of all but the picked one, of all, holds
\* of the whole.
LEMMA OneByOne ==
  ASSUME NEW S, IsFiniteSet(S), NEW P, {} \in P, NEW pick,
         \A s \in (SUBSET S) \ {{}} : pick[s] \in s /\ (s \ {pick[s]} \in P => s \in P)
  PROVE  S \in P
<1> DEFINE Q == {s \in SUBSET S : s \notin P}
<1>1. SUFFICES ASSUME Q # {} PROVE FALSE
  BY DEF Q
<1>2. PICK s \in Q : \A t \in Q : t \subseteq s => t = s
  <2>1. Q \subseteq SUBSET S OBVIOUS
  <2> HIDE DEF Q
  <2> QED BY <1>1, <2>1, LeastSubset
<1>3. s \in (SUBSET S) \ {{}} BY <1>2
<1>4. s \ {pick[s]} \in SUBSET S /\ s \ {pick[s]} # s /\ s \ {pick[s]} \subseteq s
  BY <1>3
<1>5. s \ {pick[s]} \notin Q
  BY <1>2, <1>4
<1>6. s \ {pick[s]} \in P
  BY <1>4, <1>5
<1> QED BY <1>2, <1>3, <1>6

\* The directory that is reached, among those that were there or in a new one,
\* which nothing has been put into: so what comes after it does not fail.
DescentOutcomes(T) ==
  [error : {Ok, "EROFS", "EEXIST", "ENOTDIR"}, fs : FileSystems(T), value : Int]
Arrived(fs, f, at) ==
  /\ at \in DOMAIN f.nodes /\ IsDirectory(f.nodes, at)
  /\ f = fs \/ (f.nodes[at].writable = TRUE /\ DOMAIN f.nodes[at].entries = {})
Descends(fs, v, T) ==
  /\ Fine(v.fs, T)
  /\ v.error # Ok => Extends(fs, v.fs)
  /\ v.error = Ok => Unique(v.fs.nodes) /\ Arrived(fs, v.fs, v.value)

\* A step down to a directory that is made.
LEMMA CreateDescends ==
  ASSUME NEW T, NEW fs, NEW f, Fine(f, T), Unique(f.nodes), NEW at, Arrived(fs, f, at),
         NEW name \in STRING, ~Has(f.nodes, at, name)
  PROVE  /\ create(f, at, name, Directory(TRUE, Empty)) \in DescentOutcomes(T)
         /\ Descends(fs, create(f, at, name, Directory(TRUE, Empty)), T)
<1>1. PICK node : node = Directory(TRUE, Empty)
  OBVIOUS
<1>2. PICK o : o = create(f, at, name, node)
  OBVIOUS
<1>3. node \in NodeSet(T) /\ NodeOK(node, DOMAIN f.nodes)
      /\ node.kind = "directory" /\ DOMAIN node.entries = {} /\ node.writable = TRUE
  <2>1. node.writable = TRUE BY <1>1 DEF Directory
  <2> QED BY <1>1, <2>1, NewNodes
<1>4. at \in DOMAIN f.nodes /\ IsDirectory(f.nodes, at)
  BY DEF Arrived
<1>5. CreateDoes(T, f, at, name, node, o)
  BY <1>2, <1>3, <1>4, Created
<1>6. Fine(o.fs, T)
  BY <1>5 DEF CreateDoes
<1>7. o.fs \in FileSystems(T)
  BY <1>6 DEF Fine
<1>8. o \in DescentOutcomes(T)
  <2>1. PICK n : n = Fresh(DOMAIN f.nodes)
    OBVIOUS
  <2>2. n \in Int
    <3>1. IsFiniteSet(DOMAIN f.nodes) BY DEF Fine
    <3> QED BY <2>1, <3>1, FreshIsFree
  <2>3. PICK g : g = Add(f, node)
    OBVIOUS
  <2>4. \/ o = Throw(g, "EROFS") \/ o = Throw(g, "EEXIST")
        \/ \E more : o = Return(more, n)
    BY <1>2, <2>1, <2>3 DEF create, insert
  <2>5. /\ o = [error |-> o.error, fs |-> o.fs, value |-> o.value]
        /\ o.error \in {Ok, "EROFS", "EEXIST"} /\ o.value \in Int
    <3>1. CASE o = Throw(g, "EROFS") BY <3>1 DEF Throw
    <3>2. CASE o = Throw(g, "EEXIST") BY <3>2 DEF Throw
    <3>3. ASSUME NEW more, o = Return(more, n)
          PROVE  /\ o = [error |-> o.error, fs |-> o.fs, value |-> o.value]
                 /\ o.error \in {Ok, "EROFS", "EEXIST"} /\ o.value \in Int
      BY <2>2, <3>3 DEF Return
    <3> QED BY <2>4, <3>1, <3>2, <3>3
  <2> QED BY <1>7, <2>5 DEF DescentOutcomes
<1>9. CASE o.error = Ok
  <2>1. PICK n : n = o.value OBVIOUS
  <2>2. PICK after : after = o.fs OBVIOUS
  <2>3. /\ n \notin DOMAIN f.nodes /\ after.nodes[n] = node
        /\ Entered(f, after, at, name, n)
    BY <1>5, <1>9, <2>1, <2>2 DEF CreateDoes
  <2>4. Unique(after.nodes)
    BY <1>3, <1>4, <2>3, CreatedUnique
  <2>5. Arrived(fs, after, n)
    BY <1>3, <2>3 DEF Entered, IsDirectory, Arrived
  <2> QED BY <1>1, <1>2, <1>6, <1>8, <1>9, <2>1, <2>2, <2>4, <2>5 DEF Descends
<1>10. CASE o.error # Ok
  <2>1. Extends(f, o.fs) /\ Refused(f, at, name)
    BY <1>5, <1>10 DEF CreateDoes
  <2>2. f = fs
    BY <2>1 DEF Refused, Arrived
  <2> QED BY <1>1, <1>2, <1>6, <1>8, <1>10, <2>1, <2>2 DEF Descends
<1> QED BY <1>9, <1>10

\* A step down to an entry that is there.
LEMMA EntryDescends ==
  ASSUME NEW T, NEW fs, NEW f, Fine(f, T), Unique(f.nodes), NEW at, Arrived(fs, f, at),
         NEW name \in STRING, Has(f.nodes, at, name),
         NEW n, n = f.nodes[at].entries[name],
         NEW o, o = IF IsDirectory(f.nodes, n) THEN Return(f, n) ELSE Throw(f, "ENOTDIR")
  PROVE  o \in DescentOutcomes(T) /\ Descends(fs, o, T)
<1>1. f = fs
  BY DEF Arrived, Has
<1>2. n \in DOMAIN f.nodes /\ n \in Int
  <2>1. name \in DOMAIN f.nodes[at].entries BY DEF Has
  <2>2. at \in DOMAIN f.nodes /\ IsDirectory(f.nodes, at) BY DEF Arrived
  <2>3. n \in DOMAIN f.nodes BY <2>1, <2>2, EntryThere
  <2> QED BY <2>3, NodeKinds
<1>3. f \in FileSystems(T)
  BY DEF Fine
<1>4. CASE IsDirectory(f.nodes, n)
  <2>1. o = [error |-> Ok, fs |-> f, value |-> n]
    BY <1>4 DEF Return
  <2>2. Arrived(fs, f, n)
    BY <1>1, <1>2, <1>4 DEF Arrived
  <2>3. o \in DescentOutcomes(T)
    BY <1>2, <1>3, <2>1 DEF DescentOutcomes
  <2> QED BY <2>1, <2>2, <2>3 DEF Descends
<1>5. CASE ~IsDirectory(f.nodes, n)
  <2>1. o = [error |-> "ENOTDIR", fs |-> f, value |-> 0]
    BY <1>5 DEF Throw
  <2>2. Extends(fs, f) BY <1>1 DEF Extends
  <2>3. o \in DescentOutcomes(T)
    BY <1>3, <2>1 DEF DescentOutcomes
  <2> QED BY <2>1, <2>2, <2>3 DEF Descends, Ok
<1> QED BY <1>4, <1>5

\* The largest of some numbers is among them.
LEMMA LargestOfSome ==
  ASSUME NEW n \in Nat, NEW s \in SUBSET (1 .. n), s # {}
  PROVE  Max(s) \in s
<1> DEFINE Above == {m \in Nat : \A x \in s : m >= x}
<1>1. Above \subseteq Nat
  OBVIOUS
<1>2. n \in Above
  OBVIOUS
<1>3. PICK m \in Above : \A k \in Above : m <= k
  <2> HIDE DEF Above
  <2> QED BY <1>1, <1>2, LeastNat
<1>4. m \in Nat /\ \A x \in s : m >= x /\ x \in Nat /\ x >= 1
  BY <1>3
<1>5. m \in s
  <2>1. SUFFICES ASSUME m \notin s PROVE FALSE
    OBVIOUS
  <2>2. PICK x : x \in s
    OBVIOUS
  <2>3. m - 1 \in Nat /\ \A y \in s : m - 1 >= y
    BY <1>4, <2>1, <2>2
  <2>4. m - 1 \in Above
    BY <2>3
  <2>5. m <= m - 1
    <3> HIDE DEF Above
    <3> QED BY <1>3, <2>4
  <2> QED BY <1>4, <2>5
<1> QED BY <1>4, <1>5 DEF Max

\* mkdir_recursive throws where no directory was made yet: below one that it
\* made there is nothing in its way.
LEMMA MkdirRecursiveLawful ==
  ASSUME NEW T, NEW fs, Fine(fs, T), Unique(fs.nodes), NEW components \in Seq(STRING)
  PROVE  Lawful(fs, mkdir_recursive(fs, components), T)
<1> DEFINE Step(f, at, name) ==
             IF ~Has(f.nodes, at, name) THEN create(f, at, name, Directory(TRUE, Empty))
             ELSE IF IsDirectory(f.nodes, f.nodes[at].entries[name])
                  THEN Return(f, f.nodes[at].entries[name])
             ELSE Throw(f, "ENOTDIR")
           Descend(outcome, name) == Then(outcome, Step(outcome.fs, outcome.value, name))
           S == DOMAIN components
           Grow(g) == [s \in SUBSET S |->
                         IF s = {} THEN Return(fs, Root)
                         ELSE Descend(g[s \ {Max(s)}], components[Max(s)])]
           iter == CHOOSE g : g = Grow(g)
           V == {v \in DescentOutcomes(T) : Descends(fs, v, T)}
           pick == [s \in (SUBSET S) \ {{}} |-> Max(s)]
           step == [p \in S \X V |-> Descend(p[2], components[p[1]])]
<1>1. mkdir_recursive(fs, components) = iter[S]
  BY DEF mkdir_recursive, FoldLeft, MapThenFoldSet
<1>2. IsFiniteSet(S) /\ \A x \in S : components[x] \in STRING
  <2>1. S = 1 .. Len(components) /\ Len(components) \in Nat
    OBVIOUS
  <2> QED BY <2>1, FS_Interval
<1>3. \A s \in (SUBSET S) \ {{}} : Max(s) \in s
  <2>1. PICK n : n = Len(components)
    OBVIOUS
  <2>2. n \in Nat /\ S = 1 .. n
    BY <2>1
  <2> HIDE DEF S
  <2> QED BY <2>2, LargestOfSome
<1>4. Return(fs, Root) \in V
  <2>1. Root \in DOMAIN fs.nodes /\ IsDirectory(fs.nodes, Root) /\ Root \in Int
    BY DEF Fine, FixedOK, Fixed, Root, NewFileSystem, IsDirectory, Directory
  <2>2. Arrived(fs, fs, Root) /\ fs \in FileSystems(T)
    BY <2>1 DEF Arrived, Fine
  <2> QED BY <2>1, <2>2 DEF Return, DescentOutcomes, Descends
<1>5. ASSUME NEW v \in V, NEW name \in STRING PROVE Descend(v, name) \in V
  <2>1. CASE v.error # Ok
    BY <2>1 DEF Then
  <2>2. CASE v.error = Ok
    <3>1. PICK f : f = v.fs OBVIOUS
    <3>2. PICK at : at = v.value OBVIOUS
    <3>3. Fine(f, T) /\ Unique(f.nodes) /\ Arrived(fs, f, at)
      BY <2>2, <3>1, <3>2 DEF Descends
    <3>4. Descend(v, name) = Step(f, at, name)
      BY <2>2, <3>1, <3>2 DEF Then
    <3>5. Step(f, at, name) \in DescentOutcomes(T) /\ Descends(fs, Step(f, at, name), T)
      <4>1. CASE ~Has(f.nodes, at, name)
        BY <3>3, <4>1, CreateDescends
      <4>2. CASE Has(f.nodes, at, name)
        BY <3>3, <4>2, EntryDescends
      <4> QED BY <4>1, <4>2
    <3> HIDE DEF Step, Descend
    <3> QED BY <3>4, <3>5
  <2> QED BY <2>1, <2>2
<1> HIDE DEF Descend, S, V
<1>6. \E g : g = Grow(g)
  <2>1. step \in [S \X V -> V]
    BY <1>2, <1>5
  <2>2. pick \in [(SUBSET S) \ {{}} -> S] /\ \A s \in (SUBSET S) \ {{}} : pick[s] \in s
    BY <1>3
  <2>3. FoldsOver(S, V, Return(fs, Root), pick, step)
    <3> HIDE DEF step, pick
    <3> QED BY <1>2, <1>4, <2>1, <2>2 DEF FoldsOver
  <2>4. PICK g \in [SUBSET S -> V] : Folded(g, S, Return(fs, Root), pick, step)
    <3> HIDE DEF step, pick
    <3> QED BY <2>3, FoldingOver
  <2>5. ASSUME NEW s \in SUBSET S PROVE g[s] = Grow(g)[s]
    <3>1. CASE s = {} BY <2>4, <3>1 DEF Folded
    <3>2. CASE s # {}
      <4>1. pick[s] = Max(s) /\ Max(s) \in S /\ s \ {Max(s)} \in SUBSET S
        BY <1>3, <3>2
      <4>2. g[s] = step[<<Max(s), g[s \ {Max(s)}]>>]
        <5> HIDE DEF pick, step
        <5> QED BY <2>4, <3>2, <4>1 DEF Folded
      <4>3. <<Max(s), g[s \ {Max(s)}]>> \in S \X V
        BY <2>4, <4>1
      <4>4. g[s] = Descend(g[s \ {Max(s)}], components[Max(s)])
        BY <4>2, <4>3
      <4> QED BY <3>2, <4>4
    <3> QED BY <3>1, <3>2
  <2>6. g = [s \in SUBSET S |-> g[s]]
    BY <2>4
  <2>7. g = Grow(g)
    BY <2>5, <2>6
  <2> QED BY <2>7
<1>7. iter = Grow(iter)
  <2> HIDE DEF Grow
  <2> QED BY <1>6
<1> HIDE DEF iter, step
<1>8. \A s \in SUBSET S : iter[s] = IF s = {} THEN Return(fs, Root)
                                    ELSE Descend(iter[s \ {Max(s)}], components[Max(s)])
  BY <1>7
<1>9. S \in {s \in SUBSET S : iter[s] \in V}
  <2> DEFINE P == {s \in SUBSET S : iter[s] \in V}
  <2>1. {} \in P
    BY <1>4, <1>8
  <2>2. ASSUME NEW s \in (SUBSET S) \ {{}}, s \ {pick[s]} \in P PROVE s \in P
    <3>1. pick[s] = Max(s) /\ Max(s) \in S BY <1>3
    <3>2. iter[s] = Descend(iter[s \ {Max(s)}], components[Max(s)])
      <4>1. s \in SUBSET S /\ s # {} BY <2>2
      <4> QED BY <1>8, <4>1
    <3>3. iter[s \ {Max(s)}] \in V BY <2>2, <3>1
    <3>4. iter[s] \in V
      BY <1>2, <1>5, <3>1, <3>2, <3>3
    <3> QED BY <3>4
  <2>3. \A s \in (SUBSET S) \ {{}} : pick[s] \in s
    BY <1>3
  <2>4. \A s \in (SUBSET S) \ {{}} : pick[s] \in s /\ (s \ {pick[s]} \in P => s \in P)
    <3> HIDE DEF P, pick
    <3> QED BY <2>2, <2>3
  <2>5. S \in P
    <3> HIDE DEF P, pick
    <3> QED BY <1>2, <2>1, <2>4, OneByOne
  <2> QED BY <2>5
<1>10. iter[S] \in V
  BY <1>9
<1>11. Descends(fs, iter[S], T)
  BY <1>10 DEF V
<1> QED BY <1>1, <1>11 DEF Descends, Lawful

-----------------------------------------------------------------------------
(* copy: the places that are found, and numbers for their copies.          *)

\* What may be found at a place: a node that is there, or an error.
Finds(nodes) == {Found(n) : n \in DOMAIN nodes} \cup {resolve(nodes, p, TRUE) : p \in Seq(STRING)}

\* Finitely many places, the source's among them.
Walks(nodes, source) ==
  {at \in UNION {[D -> Finds(nodes)] : D \in SUBSET Seq(STRING)} :
     /\ IsFiniteSet(DOMAIN at)
     /\ <<>> \in DOMAIN at /\ at[<<>>] = Found(source)}

\* The image of a finite set is finite.
LEMMA FiniteImage ==
  ASSUME NEW S, IsFiniteSet(S), NEW f, DOMAIN f = S
  PROVE  IsFiniteSet({f[x] : x \in S})
<1> DEFINE image == {f[x] : x \in S}
           onto == [x \in S |-> f[x]]
<1>1. onto \in Surjection(S, image)
  BY DEF Surjection
<1> HIDE DEF image, onto
<1>2. IsFiniteSet(image)
  BY <1>1, FS_Surjection
<1> QED BY <1>2 DEF image

\* What is found is there.
LEMMA FindsAreThere ==
  ASSUME NEW T, T \subseteq TargetSet, NEW fs, Fine(fs, T), NEW found \in Finds(fs.nodes),
         found.error = Ok
  PROVE  found.value \in DOMAIN fs.nodes
<1>1. CASE found \in {Found(n) : n \in DOMAIN fs.nodes}
  BY <1>1 DEF Found
<1>2. ASSUME NEW p \in Seq(STRING), found = resolve(fs.nodes, p, TRUE)
      PROVE  found.value \in DOMAIN fs.nodes
  BY <1>2, ResolvedPath
<1> QED BY <1>1, <1>2 DEF Finds

\* The names in a directory at a place lead to places one level below.
LEMMA FurtherWalks ==
  ASSUME NEW T, T \subseteq TargetSet, NEW fs, Fine(fs, T), NEW source,
         NEW at \in Walks(fs.nodes, source), NEW path \in Seq(STRING), NEW dereference
  PROVE  /\ further(fs.nodes, at, path, dereference) \in Walks(fs.nodes, source)
         /\ \A rel \in DOMAIN at : at[rel].error = Ok /\ IsDirectory(fs.nodes, at[rel].value) =>
              \A name \in DOMAIN fs.nodes[at[rel].value].entries :
                Append(rel, name) \in DOMAIN further(fs.nodes, at, path, dereference)
<1>1. PICK nodes : nodes = fs.nodes
  OBVIOUS
<1> DEFINE dirs == {rel \in DOMAIN at : at[rel].error = Ok /\ IsDirectory(nodes, at[rel].value)}
           Entries(rel) == nodes[at[rel].value].entries
           Child(rel, child) ==
             IF nodes[child].kind = "symlink" /\ dereference
             THEN resolve(nodes, path \o rel, TRUE) ELSE Found(child)
           Below(dir) == {Append(dir, name) : name \in DOMAIN Entries(dir)}
           D == DOMAIN at \cup UNION {Below(dir) : dir \in dirs}
<1>2. further(nodes, at, path, dereference) =
        [rel \in D |-> IF rel \in DOMAIN at THEN at[rel]
                       ELSE Child(rel, Entries(Front(rel))[Last(rel)])]
  BY DEF further
<1>3. /\ DOMAIN at \subseteq Seq(STRING) /\ IsFiniteSet(DOMAIN at)
      /\ <<>> \in DOMAIN at /\ at[<<>>] = Found(source)
      /\ \A rel \in DOMAIN at : at[rel] \in Finds(nodes)
  BY <1>1 DEF Walks
<1>4. ASSUME NEW dir \in dirs
      PROVE  /\ at[dir].value \in DOMAIN nodes /\ IsDirectory(nodes, at[dir].value)
             /\ IsFiniteSet(DOMAIN Entries(dir)) /\ DOMAIN Entries(dir) \subseteq STRING
             /\ \A name \in DOMAIN Entries(dir) : Entries(dir)[name] \in DOMAIN nodes
  <2>1. at[dir] \in Finds(nodes) /\ at[dir].error = Ok
    BY <1>3
  <2>2. PICK n : n = at[dir].value
    OBVIOUS
  <2>3. n \in DOMAIN nodes /\ IsDirectory(nodes, n)
    BY <1>1, <2>1, <2>2, FindsAreThere
  <2>4. IsFiniteSet(DOMAIN nodes[n].entries)
    BY <1>1, <2>3 DEF Fine, NodeOK, IsDirectory
  <2>5. \A name \in DOMAIN nodes[n].entries :
          nodes[n].entries[name] \in DOMAIN nodes /\ name \in STRING
    BY <1>1, <2>3, EntryThere
  <2> QED BY <2>2, <2>3, <2>4, <2>5
<1>5. IsFiniteSet(D)
  <2>1. IsFiniteSet(dirs)
    BY <1>3, FS_Subset
  <2>2. IsFiniteSet({Below(dir) : dir \in dirs})
    <3> DEFINE g == [dir \in dirs |-> Below(dir)]
    <3>1. DOMAIN g = dirs /\ {g[dir] : dir \in dirs} = {Below(dir) : dir \in dirs}
      <4> HIDE DEF dirs, Below
      <4> QED OBVIOUS
    <3> HIDE DEF dirs, Below, g
    <3>2. IsFiniteSet({g[dir] : dir \in dirs})
      BY <2>1, <3>1, FiniteImage
    <3> QED BY <3>1, <3>2
  <2>3. ASSUME NEW dir \in dirs PROVE IsFiniteSet(Below(dir))
    <3>1. IsFiniteSet(DOMAIN Entries(dir))
      BY <1>4
    <3> DEFINE names == DOMAIN Entries(dir)
               g == [name \in names |-> Append(dir, name)]
    <3>2. DOMAIN g = names /\ {g[name] : name \in names} = Below(dir)
      <4> HIDE DEF Entries
      <4> QED OBVIOUS
    <3>3. IsFiniteSet(names) BY <3>1
    <3> HIDE DEF names, g, Below
    <3>4. IsFiniteSet({g[name] : name \in names})
      BY <3>2, <3>3, FiniteImage
    <3> QED BY <3>2, <3>4
  <2>4. \A B \in {Below(dir) : dir \in dirs} : IsFiniteSet(B)
    <3> HIDE DEF dirs, Below
    <3> QED BY <2>3
  <2>5. IsFiniteSet(UNION {Below(dir) : dir \in dirs})
    <3> HIDE DEF dirs, Below
    <3> QED BY <2>2, <2>4, FS_UNION
  <2> HIDE DEF dirs, Below
  <2> QED BY <1>3, <2>5, FS_Union
<1>6. ASSUME NEW rel \in D, rel \notin DOMAIN at
      PROVE  /\ rel \in Seq(STRING)
             /\ Child(rel, Entries(Front(rel))[Last(rel)]) \in Finds(nodes)
  <2>1. PICK dir \in dirs : rel \in Below(dir)
    BY <1>6
  <2>2. PICK name \in DOMAIN Entries(dir) : rel = Append(dir, name)
    BY <2>1
  <2>3. dir \in Seq(STRING) /\ name \in STRING
    BY <1>3, <1>4, <2>2
  <2>4. rel \in Seq(STRING) /\ Front(rel) = dir /\ Last(rel) = name
    BY <2>2, <2>3 DEF Front, Last
  <2>5. PICK child : child = Entries(dir)[name]
    OBVIOUS
  <2>6. child \in DOMAIN nodes
    BY <1>4, <2>2, <2>5
  <2>7. path \o rel \in Seq(STRING)
    BY <2>4
  <2> HIDE DEF Entries
  <2> QED BY <2>4, <2>5, <2>6, <2>7 DEF Finds
<1>7. PICK f : f = further(nodes, at, path, dereference)
  OBVIOUS
<1>8. DOMAIN f = D /\ \A rel \in D : f[rel] = IF rel \in DOMAIN at THEN at[rel]
                                            ELSE Child(rel, Entries(Front(rel))[Last(rel)])
  <2> HIDE DEF D, Child, Entries
  <2> QED BY <1>2, <1>7
<1>9. f \in [D -> Finds(nodes)] /\ D \subseteq Seq(STRING)
  <2>1. \A rel \in D : f[rel] \in Finds(nodes) /\ rel \in Seq(STRING)
    <3> HIDE DEF D, Child, Entries
    <3> QED BY <1>3, <1>6, <1>8
  <2>2. f = [rel \in D |-> f[rel]]
    <3> HIDE DEF D, Child, Entries
    <3> QED BY <1>2, <1>7
  <2> HIDE DEF D
  <2> QED BY <2>1, <2>2
<1>10. f \in Walks(nodes, source)
  <2>1. <<>> \in D BY <1>3
  <2>2. f[<<>>] = Found(source) BY <1>3, <1>8, <2>1
  <2> HIDE DEF D
  <2> QED BY <1>5, <1>8, <1>9, <2>1, <2>2 DEF Walks
<1>11. ASSUME NEW rel \in DOMAIN at, at[rel].error = Ok, IsDirectory(nodes, at[rel].value),
              NEW name \in DOMAIN nodes[at[rel].value].entries
       PROVE  Append(rel, name) \in DOMAIN f
  <2>1. rel \in dirs BY <1>11
  <2>2. Append(rel, name) \in Below(rel) OBVIOUS
  <2>3. Append(rel, name) \in D
    <3> HIDE DEF Below, dirs
    <3> QED BY <2>1, <2>2
  <2> QED BY <1>8, <2>3
<1> QED BY <1>1, <1>7, <1>10, <1>11

\* found_at is a walk through nodes that are there, from the source on.
LEMMA FoundAtWalks ==
  ASSUME NEW T, T \subseteq TargetSet, NEW fs, Fine(fs, T), NEW source \in DOMAIN fs.nodes,
         NEW path \in Seq(STRING), NEW dereference
  PROVE  found_at(fs.nodes, source, path, dereference) \in Walks(fs.nodes, source)
<1>1. PICK nodes : nodes = fs.nodes
  OBVIOUS
<1>2. PICK W : W = Walks(nodes, source)
  OBVIOUS
<1>3. PICK first : first = [rel \in {<<>>} |-> Found(source)]
  OBVIOUS
<1> DEFINE Grow(g) == [k \in Nat |-> IF k = 0 THEN first
                                     ELSE further(nodes, g[k - 1], path, dereference)]
           below == CHOOSE g : g = Grow(g)
           step == [p \in (Nat \ {0}) \X W |-> further(nodes, p[2], path, dereference)]
<1>4. found_at(nodes, source, path, dereference) = below[MaxSegments + Cardinality(DOMAIN nodes)]
  BY <1>3 DEF found_at
<1>5. first \in W
  <2>1. {<<>>} \subseteq Seq(STRING) /\ IsFiniteSet({<<>>})
    <3>1. IsFiniteSet({<<>>}) BY FS_Singleton
    <3> QED BY <3>1
  <2>2. Found(source) \in Finds(nodes)
    BY <1>1 DEF Finds
  <2>3. first \in [{<<>>} -> Finds(nodes)] /\ first[<<>>] = Found(source)
    BY <1>3, <2>2
  <2> QED BY <1>2, <2>1, <2>3 DEF Walks
<1>6. ASSUME NEW at \in W PROVE further(nodes, at, path, dereference) \in W
  BY <1>1, <1>2, FurtherWalks
<1>7. \E g : g = Grow(g)
  <2>1. step \in [(Nat \ {0}) \X W -> W]
    BY <1>6
  <2>2. CountsUp(Nat, W, first, step)
    <3> HIDE DEF step
    <3> QED BY <1>5, <2>1 DEF CountsUp
  <2>3. PICK g \in [Nat -> W] : \A k \in Nat : g[k] = IF k = 0 THEN first ELSE step[<<k, g[k - 1]>>]
    <3>1. PICK N : N = Nat OBVIOUS
    <3>2. CountsUp(N, W, first, step) BY <2>2, <3>1
    <3> HIDE DEF step
    <3>3. \E g \in [N -> W] : \A k \in N : g[k] = IF k = 0 THEN first ELSE step[<<k, g[k - 1]>>]
      BY <3>2, CountingUp
    <3> QED BY <3>1, <3>3
  <2>4. ASSUME NEW k \in Nat PROVE g[k] = Grow(g)[k]
    <3>1. CASE k = 0 BY <2>3, <3>1
    <3>2. CASE k # 0
      <4>1. k \in Nat \ {0} /\ k - 1 \in Nat BY <3>2
      <4>2. g[k] = step[<<k, g[k - 1]>>]
        <5> HIDE DEF step
        <5> QED BY <2>3, <3>2
      <4>3. <<k, g[k - 1]>> \in (Nat \ {0}) \X W BY <2>3, <4>1
      <4> QED BY <3>2, <4>2, <4>3
    <3> QED BY <3>1, <3>2
  <2>5. g = [k \in Nat |-> g[k]]
    BY <2>3
  <2>6. g = Grow(g)
    BY <2>4, <2>5
  <2> QED BY <2>6
<1>8. below = Grow(below)
  <2> HIDE DEF Grow
  <2> QED BY <1>7
<1> HIDE DEF below
<1> DEFINE P == {k \in Nat : below[k] \in W}
<1>9. 0 \in P
  BY <1>5, <1>8
<1>10. ASSUME NEW n \in Nat, n \in P PROVE n + 1 \in P
  <2>1. (n + 1) - 1 = n /\ n + 1 # 0 /\ n + 1 \in Nat OBVIOUS
  <2>2. below[n + 1] = further(nodes, below[n], path, dereference)
    BY <1>8, <2>1
  <2> QED BY <1>6, <1>10, <2>1, <2>2
<1>11. \A n \in Nat : n \in P
  <2> HIDE DEF P
  <2> QED BY <1>9, <1>10, SetInduction
<1>12. MaxSegments + Cardinality(DOMAIN nodes) \in Nat
  <2>1. Cardinality(DOMAIN nodes) \in Nat
    BY <1>1, FS_CardinalityType DEF Fine
  <2> QED BY <2>1, FileLimits
<1> QED BY <1>1, <1>2, <1>4, <1>11, <1>12

\* Numbers for copies: each its own, and none that a node has.
Numberings(taken, s) ==
  {ids \in [s -> Nat \ {0}] :
     /\ \A x \in s : ids[x] \notin taken
     /\ \A x, y \in s : ids[x] = ids[y] => x = y}

\* One more place gets a number that no other has.
LEMMA NumberMore ==
  ASSUME NEW taken, IsFiniteSet(taken), NEW s, IsFiniteSet(s), NEW ids \in Numberings(taken, s),
         NEW rel
  PROVE  With(ids, rel, Fresh(taken \cup Range(ids))) \in Numberings(taken, s \cup {rel})
<1>1. ids \in [s -> Nat \ {0}] /\ (\A x \in s : ids[x] \notin taken)
      /\ \A x, y \in s : ids[x] = ids[y] => x = y
  BY DEF Numberings
<1>2. Range(ids) = {ids[x] : x \in s}
  BY <1>1 DEF Range
<1>3. IsFiniteSet(taken \cup Range(ids))
  <2>1. IsFiniteSet({ids[x] : x \in s})
    BY <1>1, FiniteImage
  <2> QED BY <1>2, <2>1, FS_Union
<1>4. PICK n : n = Fresh(taken \cup Range(ids))
  OBVIOUS
<1>5. n \in Nat \ {0} /\ n \notin taken /\ \A x \in s : ids[x] # n
  <2>1. PICK used : used = taken \cup Range(ids)
    OBVIOUS
  <2>2. n \in Nat \ {0} /\ n \notin used
    BY <1>3, <1>4, <2>1, FreshIsFree
  <2> QED BY <1>2, <2>1, <2>2
<1>6. PICK more : more = With(ids, rel, n)
  OBVIOUS
<1>7. DOMAIN more = s \cup {rel} /\ \A x \in s \cup {rel} : more[x] = IF x = rel THEN n ELSE ids[x]
  BY <1>1, <1>6 DEF With
<1>8. more \in [s \cup {rel} -> Nat \ {0}]
  <2>1. more = [x \in s \cup {rel} |-> more[x]]
    BY <1>1, <1>6 DEF With
  <2>2. \A x \in s \cup {rel} : more[x] \in Nat \ {0}
    BY <1>1, <1>5, <1>7
  <2> QED BY <2>1, <2>2
<1>9. \A x \in s \cup {rel} : more[x] \notin taken
  BY <1>1, <1>5, <1>7
<1>10. \A x, y \in s \cup {rel} : more[x] = more[y] => x = y
  BY <1>1, <1>5, <1>7
<1> QED BY <1>4, <1>6, <1>8, <1>9, <1>10 DEF Numberings

\* The fold of copy_node, written out.
EachNumbered(taken, S) ==
  LET Number(rel, ids) == With(ids, rel, Fresh(taken \cup Range(ids)))
      iter[s \in SUBSET S] ==
        IF s = {} THEN Empty
        ELSE Number(CHOOSE x \in s : TRUE, iter[s \ {CHOOSE x \in s : TRUE}])
  IN iter[S]

\* Each place has a number of its own, which is free.
LEMMA EachIsNumbered ==
  ASSUME NEW taken, IsFiniteSet(taken), NEW S, IsFiniteSet(S)
  PROVE  EachNumbered(taken, S) \in Numberings(taken, S)
<1> DEFINE Number(rel, ids) == With(ids, rel, Fresh(taken \cup Range(ids)))
           pick == [s \in (SUBSET S) \ {{}} |-> CHOOSE x \in s : TRUE]
           V == UNION {Numberings(taken, s) : s \in SUBSET S}
           step == [p \in S \X V |-> Number(p[1], p[2])]
           Grow(g) == [s \in SUBSET S |->
                         IF s = {} THEN Empty
                         ELSE Number(CHOOSE x \in s : TRUE, g[s \ {CHOOSE x \in s : TRUE}])]
           iter == CHOOSE g : g = Grow(g)
<1>1. EachNumbered(taken, S) = iter[S]
  BY DEF EachNumbered
<1>2. \A s \in (SUBSET S) \ {{}} : pick[s] \in s /\ pick[s] = CHOOSE x \in s : TRUE
  OBVIOUS
<1>3. Empty \in Numberings(taken, {}) /\ Empty \in V
  <2>1. Empty \in Numberings(taken, {})
    BY DEF Empty, Numberings
  <2>2. {} \in SUBSET S OBVIOUS
  <2> QED BY <2>1, <2>2
<1>4. ASSUME NEW s \in SUBSET S, NEW ids \in Numberings(taken, s), NEW rel \in S
      PROVE  Number(rel, ids) \in Numberings(taken, s \cup {rel}) /\ Number(rel, ids) \in V
  <2>1. IsFiniteSet(s) BY FS_Subset
  <2>2. Number(rel, ids) = With(ids, rel, Fresh(taken \cup Range(ids)))
    OBVIOUS
  <2>3. Number(rel, ids) \in Numberings(taken, s \cup {rel})
    BY <2>1, <2>2, NumberMore
  <2>4. s \cup {rel} \in SUBSET S OBVIOUS
  <2> QED BY <2>3, <2>4
<1>5. step \in [S \X V -> V]
  <2>1. ASSUME NEW rel \in S, NEW ids \in V PROVE Number(rel, ids) \in V
    <3>1. PICK s \in SUBSET S : ids \in Numberings(taken, s) OBVIOUS
    <3> QED BY <1>4, <3>1
  <2> HIDE DEF V
  <2> QED BY <2>1
<1> HIDE DEF V, Number
<1>6. \E g : g = Grow(g)
  <2>1. pick \in [(SUBSET S) \ {{}} -> S]
    BY <1>2
  <2>2. FoldsOver(S, V, Empty, pick, step)
    <3> HIDE DEF step, pick
    <3> QED BY <1>2, <1>3, <1>5, <2>1 DEF FoldsOver
  <2>3. PICK g \in [SUBSET S -> V] : Folded(g, S, Empty, pick, step)
    <3> HIDE DEF step, pick
    <3> QED BY <2>2, FoldingOver
  <2>4. ASSUME NEW s \in SUBSET S PROVE g[s] = Grow(g)[s]
    <3>1. CASE s = {} BY <2>3, <3>1 DEF Folded
    <3>2. CASE s # {}
      <4>1. PICK x : x = CHOOSE y \in s : TRUE OBVIOUS
      <4>2. pick[s] = x /\ x \in S /\ s \ {x} \in SUBSET S
        BY <1>2, <3>2, <4>1
      <4>3. g[s] = step[<<x, g[s \ {x}]>>]
        <5> HIDE DEF pick, step
        <5> QED BY <2>3, <3>2, <4>2 DEF Folded
      <4>4. <<x, g[s \ {x}]>> \in S \X V BY <2>3, <4>2
      <4>5. g[s] = Number(x, g[s \ {x}]) BY <4>3, <4>4
      <4> QED BY <3>2, <4>1, <4>5
    <3> QED BY <3>1, <3>2
  <2>5. g = [s \in SUBSET S |-> g[s]]
    BY <2>3
  <2>6. g = Grow(g)
    BY <2>4, <2>5
  <2> QED BY <2>6
<1>7. iter = Grow(iter)
  <2> HIDE DEF Grow
  <2> QED BY <1>6
<1> HIDE DEF iter, step
<1>8. iter[{}] = Empty
  BY <1>7
<1>9. ASSUME NEW s \in (SUBSET S) \ {{}} PROVE iter[s] = Number(pick[s], iter[s \ {pick[s]}])
  BY <1>2, <1>7
<1> DEFINE P == {s \in SUBSET S : iter[s] \in Numberings(taken, s)}
<1>10. {} \in P
  BY <1>3, <1>8
<1>11. ASSUME NEW s \in (SUBSET S) \ {{}}, s \ {pick[s]} \in P PROVE s \in P
  <2>1. PICK x : x = pick[s] OBVIOUS
  <2>2. x \in S /\ x \in s BY <1>2, <2>1
  <2>3. iter[s \ {x}] \in Numberings(taken, s \ {x}) BY <1>11, <2>1
  <2>4. Number(x, iter[s \ {x}]) \in Numberings(taken, (s \ {x}) \cup {x})
    BY <1>4, <2>2, <2>3
  <2>5. (s \ {x}) \cup {x} = s BY <2>2
  <2> QED BY <1>9, <2>1, <2>4, <2>5
<1>12. S \in P
  <2>1. \A s \in (SUBSET S) \ {{}} : pick[s] \in s /\ (s \ {pick[s]} \in P => s \in P)
    <3> HIDE DEF P, pick
    <3> QED BY <1>2, <1>11
  <2> HIDE DEF P, pick
  <2> QED BY <1>10, <2>1, OneByOne
<1> QED BY <1>1, <1>12

\* The tree that copy_node makes for what it has found: for each place a node
\* with a number of its own, for a directory with entries to the numbers of
\* the places below, for a file with the same bytes, for a link with the same
\* target.
CopyOf(node, rel, id) ==
  CASE node.kind = "directory" ->
         Directory(TRUE, [name \in DOMAIN node.entries |-> id[Append(rel, name)]])
    [] node.kind = "symlink" -> node
    [] OTHER -> MemoryFile(node.data)

CopiedTo(fs, made, at, id) ==
  /\ made.open = fs.open /\ made.next = fs.next
  /\ made = [nodes |-> made.nodes, open |-> made.open, next |-> made.next]
  /\ made.nodes = [n \in DOMAIN made.nodes |-> made.nodes[n]]
  /\ DOMAIN made.nodes = DOMAIN fs.nodes \cup {id[rel] : rel \in DOMAIN at}
  /\ \A n \in DOMAIN fs.nodes : made.nodes[n] = fs.nodes[n]
  /\ \A rel \in DOMAIN at : made.nodes[id[rel]] = CopyOf(fs.nodes[at[rel].value], rel, id)

\* What can be copied: no device, and of a directory all that is in it.
Copyable(nodes, at) ==
  /\ \A rel \in DOMAIN at : at[rel].error = Ok /\ ~IsDevice(nodes, at[rel].value)
  /\ \A rel \in DOMAIN at : IsDirectory(nodes, at[rel].value) =>
       \A name \in DOMAIN nodes[at[rel].value].entries : Append(rel, name) \in DOMAIN at

\* copy_node makes a copy at each place of a walk, or throws.
LEMMA CopyNodeCopies ==
  ASSUME NEW T, T \subseteq TargetSet, NEW fs, Fine(fs, T), NEW source \in DOMAIN fs.nodes,
         NEW path \in Seq(STRING), NEW dereference
  PROVE  \E at, id, made :
           /\ at \in Walks(fs.nodes, source) /\ id \in Numberings(DOMAIN fs.nodes, DOMAIN at)
           /\ \/ copy_node(fs, source, path, dereference) = Throw(fs, "EFAULT")
              \/ /\ copy_node(fs, source, path, dereference) = Return(made, id[<<>>])
                 /\ CopiedTo(fs, made, at, id) /\ Copyable(fs.nodes, at)
<1> DEFINE nodes == fs.nodes
           at == found_at(nodes, source, path, dereference)
           Number(rel, ids) == With(ids, rel, Fresh(DOMAIN nodes \cup Range(ids)))
           iter == CHOOSE g : g = [s \in SUBSET DOMAIN at |->
                        IF s = {} THEN Empty
                        ELSE Number(CHOOSE x \in s : TRUE, g[s \ {CHOOSE x \in s : TRUE}])]
           id == iter[DOMAIN at]
           Duplicate(node, rel) ==
             CASE node.kind = "directory" ->
                    Directory(TRUE, [name \in DOMAIN node.entries |-> id[Append(rel, name)]])
               [] node.kind = "symlink" -> node
               [] OTHER -> MemoryFile(node.data)
           grown == [n \in DOMAIN nodes \cup Range(id) |->
                       IF n \in DOMAIN nodes THEN nodes[n]
                       ELSE LET rel == CHOOSE r \in DOMAIN id : id[r] = n
                            IN Duplicate(nodes[at[rel].value], rel)]
           made == [fs EXCEPT !.nodes = grown]
           bad == \/ \E rel \in DOMAIN at : at[rel].error # Ok \/ IsDevice(nodes, at[rel].value)
                  \/ DOMAIN further(nodes, at, path, dereference) # DOMAIN at
<1>1. copy_node(fs, source, path, dereference) =
        IF bad THEN Throw(fs, "EFAULT") ELSE Return(made, id[<<>>])
  BY DEF copy_node, FoldSet, MapThenFoldSet
<1>2. id = EachNumbered(DOMAIN nodes, DOMAIN at)
  BY DEF EachNumbered
<1>3. \A node, rel : Duplicate(node, rel) = CopyOf(node, rel, id)
  <2> HIDE DEF id
  <2> QED BY DEF CopyOf
<1> HIDE DEF iter, Duplicate
<1>4. /\ made.nodes = grown
      /\ made = [nodes |-> made.nodes, open |-> made.open, next |-> made.next]
      /\ made.open = fs.open /\ made.next = fs.next
  <2>1. fs = [nodes |-> fs.nodes, open |-> fs.open, next |-> fs.next]
    BY Systems DEF Fine
  <2> HIDE DEF grown
  <2> QED BY <2>1
<1>5. at \in Walks(nodes, source)
  BY FoundAtWalks
<1> HIDE DEF at
<1>6. IsFiniteSet(DOMAIN nodes) /\ IsFiniteSet(DOMAIN at)
  <2>1. IsFiniteSet(DOMAIN nodes) BY DEF Fine
  <2> QED BY <1>5, <2>1 DEF Walks
<1>7. id \in Numberings(DOMAIN nodes, DOMAIN at)
  <2> HIDE DEF id
  <2> QED BY <1>2, <1>6, EachIsNumbered
<1> HIDE DEF id, made, nodes
<1>8. /\ DOMAIN id = DOMAIN at
      /\ \A r \in DOMAIN at : id[r] \notin DOMAIN nodes
      /\ \A x, y \in DOMAIN at : id[x] = id[y] => x = y
  BY <1>7 DEF Numberings
<1>9. Range(id) = {id[rel] : rel \in DOMAIN at}
  BY <1>8 DEF Range
<1>10. CopiedTo(fs, made, at, id)
  <2>1. DOMAIN made.nodes = DOMAIN nodes \cup {id[rel] : rel \in DOMAIN at}
    BY <1>4, <1>9
  <2>2. \A n \in DOMAIN nodes : made.nodes[n] = nodes[n]
    BY <1>4
  <2>3. ASSUME NEW rel \in DOMAIN at
        PROVE  made.nodes[id[rel]] = CopyOf(nodes[at[rel].value], rel, id)
    <3>1. id[rel] \in DOMAIN nodes \cup Range(id) /\ id[rel] \notin DOMAIN nodes
      BY <1>8, <1>9
    <3>2. (CHOOSE r \in DOMAIN id : id[r] = id[rel]) = rel
      BY <1>8
    <3>3. made.nodes[id[rel]] = Duplicate(nodes[at[rel].value], rel)
      BY <1>4, <3>1, <3>2
    <3> QED BY <1>3, <3>3
  <2>4. made.nodes = [n \in DOMAIN made.nodes |-> made.nodes[n]]
    <3>1. grown = [n \in DOMAIN grown |-> grown[n]]
      OBVIOUS
    <3> HIDE DEF grown
    <3> QED BY <1>4, <3>1
  <2> QED BY <1>4, <2>1, <2>2, <2>3, <2>4 DEF CopiedTo, nodes
<1>11. ASSUME ~bad PROVE Copyable(nodes, at)
  <2>1. /\ \A rel \in DOMAIN at : at[rel].error = Ok /\ ~IsDevice(nodes, at[rel].value)
        /\ DOMAIN further(nodes, at, path, dereference) = DOMAIN at
    BY <1>11
  <2>2. ASSUME NEW rel \in DOMAIN at, IsDirectory(nodes, at[rel].value),
               NEW name \in DOMAIN nodes[at[rel].value].entries
        PROVE  Append(rel, name) \in DOMAIN at
    <3>1. at[rel].error = Ok BY <2>1
    <3>2. Append(rel, name) \in DOMAIN further(nodes, at, path, dereference)
      <4> HIDE DEF bad
      <4> QED BY <1>5, <2>2, <3>1, FurtherWalks DEF nodes
    <3> QED BY <2>1, <3>2
  <2> HIDE DEF bad
  <2> QED BY <2>1, <2>2 DEF Copyable
<1> HIDE DEF bad
<1>12. CASE bad
  BY <1>1, <1>5, <1>7, <1>12 DEF nodes
<1>13. CASE ~bad
  BY <1>1, <1>5, <1>7, <1>10, <1>11, <1>13 DEF nodes
<1> QED BY <1>12, <1>13

\* All that is in a directory has a place below.
HasPlaces(node, rel, places) ==
  node.kind = "directory" => \A name \in DOMAIN node.entries : Append(rel, name) \in places

\* The copy of a node, with its entries at the places below.
WellCopied(T, c, rel, places, id) ==
  /\ c \in NodeSet(T) /\ NodeOK(c, {id[r] : r \in places})
  /\ c.kind = "directory" =>
       /\ DOMAIN c.entries \subseteq STRING
       /\ \A name \in DOMAIN c.entries : /\ Append(rel, name) \in places
                                         /\ c.entries[name] = id[Append(rel, name)]

\* The copy of one node, with entries that are copies.
LEMMA CopyOfNode ==
  ASSUME NEW T, NEW fs, Fine(fs, T), NEW n \in DOMAIN fs.nodes, ~IsDevice(fs.nodes, n),
         NEW rel, NEW places, NEW id \in [places -> Nat \ {0}],
         HasPlaces(fs.nodes[n], rel, places)
  PROVE  WellCopied(T, CopyOf(fs.nodes[n], rel, id), rel, places, id)
<1> USE DEF HasPlaces
<1>a. PICK node : node = fs.nodes[n]
  OBVIOUS
<1>c. PICK c : c = CopyOf(node, rel, id)
  OBVIOUS
<1>1. node \in NodeSet(T) /\ NodeOK(node, DOMAIN fs.nodes) /\ node.kind \notin {"null", "full"}
  BY <1>a, NodeKinds DEF Fine, IsDevice
<1>2. /\ node.kind = "directory" <=> node \in DirSet
      /\ node.kind \in {"file", "bundled"} <=> node \in FileSet
  BY <1>a, NodeKinds
<1>3. CASE node.kind = "directory"
  <2>1. PICK N : N = DOMAIN node.entries
    OBVIOUS
  <2>2. PICK entries : entries = [name \in N |-> id[Append(rel, name)]]
    OBVIOUS
  <2>3. N \subseteq STRING /\ IsFiniteSet(N)
    BY <1>1, <1>2, <1>3, <2>1 DEF DirSet, EntryMaps, NodeOK
  <2>4. \A name \in N : Append(rel, name) \in places
    BY <1>a, <1>3, <2>1
  <2>5. /\ DOMAIN entries = N
        /\ \A name \in N : entries[name] = id[Append(rel, name)] /\ entries[name] \in Nat \ {0}
    BY <2>2, <2>4
  <2>6. entries \in EntryMaps
    <3>1. entries \in [N -> Int] BY <2>2, <2>5
    <3> QED BY <2>3, <3>1 DEF EntryMaps
  <2>7. c = [kind |-> "directory", writable |-> TRUE, entries |-> entries]
    BY <1>c, <1>3, <2>1, <2>2 DEF CopyOf, Directory
  <2>8. c \in NodeSet(T)
    <3>1. c \in DirSet BY <2>6, <2>7 DEF DirSet
    <3> QED BY <3>1 DEF NodeSet
  <2>9. NodeOK(c, {id[r] : r \in places})
    <3>1. PICK new : new = {id[r] : r \in places}
      OBVIOUS
    <3>2. \A name \in N : entries[name] \in new \ {Root}
      BY <2>4, <2>5, <3>1 DEF Root
    <3>3. c.kind = "directory" /\ c.entries = entries
      BY <2>7
    <3> QED BY <2>3, <2>5, <3>1, <3>2, <3>3 DEF NodeOK
  <2>10. WellCopied(T, c, rel, places, id)
    BY <2>3, <2>4, <2>5, <2>7, <2>8, <2>9 DEF WellCopied
  <2> QED BY <1>a, <1>c, <2>10
<1>4. CASE node.kind = "symlink"
  <2>1. c = node BY <1>c, <1>4 DEF CopyOf
  <2>2. WellCopied(T, c, rel, places, id) BY <1>1, <1>4, <2>1 DEF NodeOK, WellCopied
  <2> QED BY <1>a, <1>c, <2>2
<1>5. CASE node.kind \notin {"directory", "symlink"}
  <2>1. node \in FileSet
    BY <1>1, <1>2, <1>5 DEF NodeSet
  <2>2. node.data \in Seq({0, 1}) /\ Len(node.data) <= MaxSize
    BY <1>1, <1>2, <2>1 DEF FileSet, NodeOK
  <2>3. c = [kind |-> "file", data |-> node.data]
    BY <1>c, <1>5 DEF CopyOf, MemoryFile
  <2>4. c \in FileSet BY <2>2, <2>3 DEF FileSet
  <2>5. WellCopied(T, c, rel, places, id)
    BY <2>2, <2>3, <2>4 DEF NodeSet, NodeOK, WellCopied
  <2> QED BY <1>a, <1>c, <2>5
<1> QED BY <1>3, <1>4, <1>5

\* Nothing refers to a node.
Unnamed(nodes, n) == \A d, m : Entry(nodes, d, m) => nodes[d].entries[m] # n

CopyMade(T, fs, o) ==
  /\ Fine(o.fs, T) /\ Unique(o.fs.nodes) /\ Extends(fs, o.fs)
  /\ o.error = Ok => o.value \in DOMAIN o.fs.nodes \ {Root} /\ Unnamed(o.fs.nodes, o.value)

\* The copies are a tree of new nodes, beside what was there.
LEMMA CopiedIsMade ==
  ASSUME NEW T, T \subseteq TargetSet, NEW fs, Fine(fs, T), Unique(fs.nodes), NEW source,
         NEW at \in Walks(fs.nodes, source), NEW id \in Numberings(DOMAIN fs.nodes, DOMAIN at),
         NEW made, CopiedTo(fs, made, at, id), Copyable(fs.nodes, at)
  PROVE  CopyMade(T, fs, Return(made, id[<<>>]))
<1>1. PICK places : places = DOMAIN at
  OBVIOUS
<1>2. PICK new : new = {id[rel] : rel \in places}
  OBVIOUS
<1>3. /\ IsFiniteSet(places) /\ places \subseteq Seq(STRING) /\ <<>> \in places
      /\ \A rel \in places : at[rel] \in Finds(fs.nodes)
  BY <1>1 DEF Walks
<1>4. /\ id \in [places -> Nat \ {0}]
      /\ \A x \in places : id[x] \notin DOMAIN fs.nodes
      /\ \A x, y \in places : id[x] = id[y] => x = y
  BY <1>1 DEF Numberings
<1>5. /\ made.open = fs.open /\ made.next = fs.next
      /\ made = [nodes |-> made.nodes, open |-> made.open, next |-> made.next]
      /\ made.nodes = [n \in DOMAIN made.nodes |-> made.nodes[n]]
      /\ DOMAIN made.nodes = DOMAIN fs.nodes \cup new
      /\ \A n \in DOMAIN fs.nodes : made.nodes[n] = fs.nodes[n]
      /\ \A rel \in places : made.nodes[id[rel]] = CopyOf(fs.nodes[at[rel].value], rel, id)
  BY <1>1, <1>2 DEF CopiedTo
<1>6. ASSUME NEW rel \in places, NEW c, c = made.nodes[id[rel]]
      PROVE  /\ c \in NodeSet(T) /\ NodeOK(c, new)
             /\ c.kind = "directory" =>
                  \A name \in DOMAIN c.entries : /\ name \in STRING /\ Append(rel, name) \in places
                                                 /\ c.entries[name] = id[Append(rel, name)]
  <2>1. PICK n : n = at[rel].value
    OBVIOUS
  <2>2. n \in DOMAIN fs.nodes /\ ~IsDevice(fs.nodes, n)
    <3>1. at[rel] \in Finds(fs.nodes) /\ at[rel].error = Ok /\ ~IsDevice(fs.nodes, n)
      BY <1>1, <1>3, <2>1 DEF Copyable
    <3> QED BY <2>1, <3>1, FindsAreThere
  <2>3. HasPlaces(fs.nodes[n], rel, places)
    BY <1>1, <2>1 DEF Copyable, IsDirectory, HasPlaces
  <2>4. WellCopied(T, CopyOf(fs.nodes[n], rel, id), rel, places, id)
    BY <1>4, <2>2, <2>3, CopyOfNode
  <2>5. c = CopyOf(fs.nodes[n], rel, id)
    BY <1>5, <1>6, <2>1
  <2> QED BY <1>2, <2>4, <2>5 DEF WellCopied
<1>7. \A n \in new : \E rel \in places : n = id[rel]
  BY <1>2
<1>8. made \in FileSystems(T)
  <2>1. DOMAIN fs.nodes \subseteq Int /\ fs.nodes \in [DOMAIN fs.nodes -> NodeSet(T)]
        /\ fs \in FileSystems(T)
    BY Systems DEF Fine
  <2>2. DOMAIN made.nodes \in SUBSET Int
    BY <1>4, <1>5, <1>7, <2>1
  <2>3. \A n \in DOMAIN made.nodes : made.nodes[n] \in NodeSet(T)
    <3>1. \A n \in DOMAIN fs.nodes : made.nodes[n] \in NodeSet(T) BY <1>5, <2>1
    <3>2. \A n \in new : made.nodes[n] \in NodeSet(T) BY <1>6, <1>7
    <3> QED BY <1>5, <3>1, <3>2
  <2>4. made.nodes \in [DOMAIN made.nodes -> NodeSet(T)]
    BY <1>5, <2>3
  <2> QED BY <1>5, <2>1, <2>2, <2>4 DEF FileSystems
<1>9. IsFiniteSet(DOMAIN made.nodes)
  <2>1. DOMAIN id = places BY <1>4
  <2>2. IsFiniteSet(new) BY <1>2, <1>3, <2>1, FiniteImage
  <2>3. IsFiniteSet(DOMAIN fs.nodes) BY DEF Fine
  <2>4. IsFiniteSet(DOMAIN fs.nodes \cup new) BY <2>2, <2>3, FS_Union
  <2> QED BY <1>5, <2>4
<1>10. \A n \in DOMAIN made.nodes : NodeOK(made.nodes[n], DOMAIN made.nodes)
  <2>1. ASSUME NEW n \in DOMAIN fs.nodes PROVE NodeOK(made.nodes[n], DOMAIN made.nodes)
    <3>1. NodeOK(fs.nodes[n], DOMAIN fs.nodes) BY DEF Fine
    <3> QED BY <1>5, <3>1 DEF NodeOK
  <2>2. ASSUME NEW n \in new PROVE NodeOK(made.nodes[n], DOMAIN made.nodes)
    <3>1. NodeOK(made.nodes[n], new) BY <1>6, <1>7
    <3> QED BY <1>5, <3>1 DEF NodeOK
  <2> QED BY <1>5, <2>1, <2>2
<1>11. FixedOK(made.nodes)
  <2>1. FixedOK(fs.nodes) BY DEF Fine
  <2> QED BY <1>5, <2>1 DEF FixedOK
<1>12. \A d \in DOMAIN made.open : OpenOK(made, d)
  <2>1. \A d \in DOMAIN fs.open : OpenOK(fs, d) BY DEF Fine
  <2> QED BY <1>5, <2>1 DEF OpenOK
<1>13. Fine(made, T)
  BY <1>8, <1>9, <1>10, <1>11, <1>12 DEF Fine
\* An entry of the copy, and of what was there.
<1>14. ASSUME NEW d, NEW m, Entry(made.nodes, d, m), d \notin DOMAIN fs.nodes
       PROVE  \E rel \in places : /\ d = id[rel] /\ m \in STRING /\ Append(rel, m) \in places
                                  /\ made.nodes[d].entries[m] = id[Append(rel, m)]
  <2>1. d \in new /\ made.nodes[d].kind = "directory" /\ m \in DOMAIN made.nodes[d].entries
    BY <1>5, <1>14 DEF Entry, IsDirectory
  <2>2. PICK rel \in places : d = id[rel]
    BY <1>7, <2>1
  <2> QED BY <1>6, <2>1, <2>2
<1>15. ASSUME NEW d, NEW m, Entry(made.nodes, d, m), d \in DOMAIN fs.nodes
       PROVE  /\ Entry(fs.nodes, d, m) /\ made.nodes[d].entries[m] = fs.nodes[d].entries[m]
              /\ made.nodes[d].entries[m] \in DOMAIN fs.nodes
  <2>1. /\ Entry(fs.nodes, d, m) /\ made.nodes[d].entries[m] = fs.nodes[d].entries[m]
        /\ IsDirectory(fs.nodes, d) /\ m \in DOMAIN fs.nodes[d].entries
    BY <1>5, <1>15 DEF Entry, IsDirectory
  <2> QED BY <1>15, <2>1, EntryThere
<1>16. Unique(made.nodes)
  <2> SUFFICES ASSUME NEW d1, NEW d2, NEW n1, NEW n2, Twice(made.nodes, d1, n1, d2, n2)
               PROVE  d1 = d2 /\ n1 = n2
    BY DEF Unique
  <2>1. SUFFICES ASSUME Entry(made.nodes, d1, n1), Entry(made.nodes, d2, n2),
                        made.nodes[d1].entries[n1] = made.nodes[d2].entries[n2],
                        made.nodes[made.nodes[d1].entries[n1]].kind \in {"directory", "symlink"}
                 PROVE  d1 = d2 /\ n1 = n2
    BY DEF Twice
  <2>2. CASE d1 \in DOMAIN fs.nodes /\ d2 \in DOMAIN fs.nodes
    <3>1. /\ Entry(fs.nodes, d1, n1) /\ Entry(fs.nodes, d2, n2)
          /\ fs.nodes[d1].entries[n1] = fs.nodes[d2].entries[n2]
          /\ made.nodes[d1].entries[n1] = fs.nodes[d1].entries[n1]
          /\ fs.nodes[d1].entries[n1] \in DOMAIN fs.nodes
      BY <1>15, <2>1, <2>2
    <3>2. fs.nodes[fs.nodes[d1].entries[n1]].kind \in {"directory", "symlink"}
      BY <1>5, <2>1, <3>1
    <3>3. Twice(fs.nodes, d1, n1, d2, n2)
      BY <3>1, <3>2 DEF Twice
    <3> QED BY <3>3 DEF Unique
  <2>3. CASE d1 \in DOMAIN fs.nodes /\ d2 \notin DOMAIN fs.nodes
    <3>1. made.nodes[d1].entries[n1] \in DOMAIN fs.nodes BY <1>15, <2>1, <2>3
    <3>2. made.nodes[d2].entries[n2] \notin DOMAIN fs.nodes BY <1>4, <1>14, <2>1, <2>3
    <3> QED BY <2>1, <3>1, <3>2
  <2>4. CASE d1 \notin DOMAIN fs.nodes /\ d2 \in DOMAIN fs.nodes
    <3>1. made.nodes[d2].entries[n2] \in DOMAIN fs.nodes BY <1>15, <2>1, <2>4
    <3>2. made.nodes[d1].entries[n1] \notin DOMAIN fs.nodes BY <1>4, <1>14, <2>1, <2>4
    <3> QED BY <2>1, <3>1, <3>2
  <2>5. CASE d1 \notin DOMAIN fs.nodes /\ d2 \notin DOMAIN fs.nodes
    <3>1. PICK a \in places : /\ d1 = id[a] /\ n1 \in STRING /\ Append(a, n1) \in places
                              /\ made.nodes[d1].entries[n1] = id[Append(a, n1)]
      BY <1>14, <2>1, <2>5
    <3>2. PICK b \in places : /\ d2 = id[b] /\ n2 \in STRING /\ Append(b, n2) \in places
                              /\ made.nodes[d2].entries[n2] = id[Append(b, n2)]
      BY <1>14, <2>1, <2>5
    <3>3. id[Append(a, n1)] = id[Append(b, n2)]
      BY <2>1, <3>1, <3>2
    <3>4. Append(a, n1) = Append(b, n2)
      BY <1>4, <3>1, <3>2, <3>3
    <3>5. a \in Seq(STRING) /\ b \in Seq(STRING)
      BY <1>3
    <3>6. n1 = n2 /\ a = b
      BY <3>1, <3>2, <3>4, <3>5, AppendInjective
    <3> QED BY <3>1, <3>2, <3>6
  <2> QED BY <2>2, <2>3, <2>4, <2>5
<1>17. Unnamed(made.nodes, id[<<>>])
  <2>1. SUFFICES ASSUME NEW d, NEW m, Entry(made.nodes, d, m)
                 PROVE  made.nodes[d].entries[m] # id[<<>>]
    BY Zenon DEF Unnamed
  <2>2. id[<<>>] \notin DOMAIN fs.nodes BY <1>3, <1>4
  <2>3. CASE d \in DOMAIN fs.nodes BY <1>15, <2>1, <2>2, <2>3
  <2>4. CASE d \notin DOMAIN fs.nodes
    <3>1. PICK rel \in places : /\ m \in STRING /\ Append(rel, m) \in places
                                /\ made.nodes[d].entries[m] = id[Append(rel, m)]
      BY <1>14, <2>1, <2>4
    <3>2. Append(rel, m) # <<>>
      <4>1. rel \in Seq(STRING) BY <1>3
      <4> QED BY <3>1, <4>1
    <3> QED BY <1>3, <1>4, <3>1, <3>2
  <2> QED BY <2>3, <2>4
<1>18. Extends(fs, made)
  BY <1>5 DEF Extends
<1>19. id[<<>>] \in DOMAIN made.nodes \ {Root}
  BY <1>2, <1>3, <1>4, <1>5 DEF Root
<1> QED BY <1>13, <1>16, <1>17, <1>18, <1>19 DEF CopyMade, Return

\* copy_node as a whole.
LEMMA CopyNodeMade ==
  ASSUME NEW T, T \subseteq TargetSet, NEW fs, Fine(fs, T), Unique(fs.nodes),
         NEW source \in DOMAIN fs.nodes, NEW path \in Seq(STRING), NEW dereference
  PROVE  CopyMade(T, fs, copy_node(fs, source, path, dereference))
<1>1. PICK o : o = copy_node(fs, source, path, dereference)
  OBVIOUS
<1>2. PICK at, id, made :
        /\ at \in Walks(fs.nodes, source) /\ id \in Numberings(DOMAIN fs.nodes, DOMAIN at)
        /\ \/ o = Throw(fs, "EFAULT")
           \/ /\ o = Return(made, id[<<>>])
              /\ CopiedTo(fs, made, at, id) /\ Copyable(fs.nodes, at)
  BY <1>1, CopyNodeCopies
<1>3. CASE o = Throw(fs, "EFAULT")
  BY <1>1, <1>3 DEF CopyMade, Throw, Extends, Ok
<1>4. CASE /\ o = Return(made, id[<<>>])
           /\ CopiedTo(fs, made, at, id) /\ Copyable(fs.nodes, at)
  BY <1>1, <1>2, <1>4, CopiedIsMade
<1> QED BY <1>2, <1>3, <1>4

\* The path that copy copies to.
LEMMA CopyTargetIsPath ==
  ASSUME NEW nodes, NEW from \in Seq(STRING), NEW to \in Seq(STRING), NEW source,
         NEW target, target = copy_target(nodes, from, to, source), target.error = Ok
  PROVE  target.value \in Seq(STRING)
<1>1. PICK components : components = absolute_components(from)
  OBVIOUS
<1>2. components \in PathOutcomes
  <2>1. <<>> \in Seq(STRING) OBVIOUS
  <2> QED BY <1>1, <2>1, ComponentsAreNames DEF absolute_components
<1>3. PICK destination : destination = resolve(nodes, to, TRUE)
  OBVIOUS
<1>4. PICK above : above = parent(nodes, to)
  OBVIOUS
<1>5. \/ components.error # Ok /\ target = components
      \/ target = Missing("EINVAL")
      \/ /\ components.error = Ok /\ components.value # <<>>
         /\ target = Found(Append(to, Last(components.value)))
      \/ above.error # Ok /\ target = above
      \/ target = Found(to)
  BY <1>1, <1>3, <1>4 DEF copy_target
<1>6. CASE /\ components.error = Ok /\ components.value # <<>>
           /\ target = Found(Append(to, Last(components.value)))
  <2>1. components.value \in Seq(STRING)
    BY <1>2, <1>6 DEF PathOutcomes, Missing, Found, Ok
  <2>2. Last(components.value) \in STRING
    BY <1>6, <2>1 DEF Last
  <2> QED BY <1>6, <2>2 DEF Found
<1>7. CASE target = Found(to)
  BY <1>7 DEF Found
<1> QED BY <1>5, <1>6, <1>7 DEF Missing, Ok

\* What Replace of copy does with a copy that is made, an entry for it that
\* is there or not, and what the directory was before.
LEMMA ReplaceLawful ==
  ASSUME NEW T, NEW fs, Fine(fs, T), NEW made, Fine(made, T), Unique(made.nodes),
         Extends(fs, made), NEW dir \in DOMAIN fs.nodes, IsDirectory(fs.nodes, dir),
         NEW name \in STRING, NEW n \in DOMAIN made.nodes \ {Root}, Unnamed(made.nodes, n),
         NEW exists \in BOOLEAN,
         NEW cleared, cleared = IF exists THEN unlink(made, dir, name) ELSE Return(made, 0)
  PROVE  Lawful(fs, Then(cleared, insert(cleared.fs, dir, name, n)), T)
<1>1. dir \in DOMAIN made.nodes /\ IsDirectory(made.nodes, dir)
  BY DEF Extends, IsDirectory
<1>2. PICK c : c = cleared.fs
  OBVIOUS
<1>3. PICK i : i = insert(c, dir, name, n)
  OBVIOUS
<1>4. PICK o : o = Then(cleared, i)
  OBVIOUS
<1>5. ASSUME Fine(c, T), Unique(c.nodes), Unnamed(c.nodes, n), n \in DOMAIN c.nodes \ {Root},
             dir \in DOMAIN c.nodes, IsDirectory(c.nodes, dir)
      PROVE  /\ InsertDoes(T, c, dir, name, n, i)
             /\ Lawful(c, i, T)
  <2>1. InsertDoes(T, c, dir, name, n, i) BY <1>3, <1>5, Inserted
  <2>2. \A d, m : Entry(c.nodes, d, m) => c.nodes[d].entries[m] # n
    BY <1>5 DEF Unnamed
  <2> QED BY <1>3, <1>5, <2>1, <2>2, InsertLawful
<1>6. CASE ~exists
  <2>1. cleared.error = Ok /\ c = made
    BY <1>2, <1>6 DEF Return
  <2>2. o = i
    BY <1>4, <2>1 DEF Then
  <2>3. Lawful(made, i, T) /\ InsertDoes(T, made, dir, name, n, i)
    BY <1>1, <1>5, <2>1
  <2>4. i.error # Ok => i.fs = made
    BY <2>3 DEF InsertDoes
  <2>5. Lawful(fs, i, T)
    BY <2>3, <2>4 DEF Lawful
  <2> QED BY <1>2, <1>3, <1>4, <2>2, <2>5
<1>7. CASE exists
  <2>1. cleared = unlink(made, dir, name)
    BY <1>7
  <2>2. UnlinkDoes(T, made, dir, name, cleared)
    BY <1>1, <2>1, Unlinked
  <2>3. CASE cleared.error # Ok
    <3>1. o = cleared /\ c = made
      BY <1>2, <1>4, <2>2, <2>3 DEF Then, UnlinkDoes
    <3>2. Lawful(fs, cleared, T)
      BY <1>2, <2>3, <3>1 DEF Lawful
    <3> QED BY <1>2, <1>3, <1>4, <3>1, <3>2
  <2>4. CASE cleared.error = Ok
    <3>1. o = i
      BY <1>4, <2>4 DEF Then
    <3>2. Fine(c, T) /\ Left(made, c, dir, name)
      BY <1>2, <2>2, <2>4 DEF UnlinkDoes
    <3>3. Unique(c.nodes)
      BY <1>1, <3>2, LeftUnique
    <3>4. Unnamed(c.nodes, n)
      <4>1. SUFFICES ASSUME NEW d, NEW m, Entry(c.nodes, d, m) PROVE c.nodes[d].entries[m] # n
        BY Zenon DEF Unnamed
      <4>2. Entry(made.nodes, d, m) /\ c.nodes[d].entries[m] = made.nodes[d].entries[m]
        BY <1>1, <3>2, <4>1, EntriesLeft
      <4> QED BY <4>2 DEF Unnamed
    <3>5. /\ DOMAIN c.nodes = DOMAIN made.nodes
          /\ c.nodes[dir].kind = made.nodes[dir].kind
          /\ c.nodes[dir].writable = TRUE /\ ~Has(c.nodes, dir, name)
      BY <1>1, <3>2 DEF Left, Has, Directory, Without
    <3>6. n \in DOMAIN c.nodes \ {Root} /\ dir \in DOMAIN c.nodes /\ IsDirectory(c.nodes, dir)
      BY <1>1, <3>5 DEF IsDirectory
    <3>7. InsertDoes(T, c, dir, name, n, i) /\ Lawful(c, i, T)
      BY <1>5, <3>2, <3>3, <3>4, <3>6
    <3>8. i.error = Ok
      BY <3>5, <3>7 DEF InsertDoes, Refused
    <3>9. Lawful(fs, i, T)
      BY <3>7, <3>8 DEF Lawful
    <3> QED BY <1>2, <1>3, <1>4, <3>1, <3>9
  <2> QED BY <2>3, <2>4
<1> QED BY <1>6, <1>7

\* copy: what is thrown after the copy was made leaves it unreferred.
LEMMA CopyLawful ==
  ASSUME NEW T, T \subseteq TargetSet, NEW fs, Fine(fs, T), Unique(fs.nodes),
         NEW from \in Seq(STRING), NEW to \in Seq(STRING), NEW options
  PROVE  Lawful(fs, copy(fs, from, to, options), T)
<1>1. PICK dereference : dereference = ("dereference" \in options)
  OBVIOUS
<1>2. PICK source : source = resolve(fs.nodes, from, dereference)
  OBVIOUS
<1>3. PICK target : target = copy_target(fs.nodes, from, to, source.value)
  OBVIOUS
<1>4. PICK exists : exists = (resolve(fs.nodes, target.value, FALSE).error = Ok)
  OBVIOUS
<1>5. PICK copied : copied = copy_node(fs, source.value, from, dereference)
  OBVIOUS
<1>6. PICK p : p = parent(fs.nodes, target.value)
  OBVIOUS
<1>7. PICK cleared : cleared = IF exists THEN unlink(copied.fs, p.value.dir, p.value.name)
                               ELSE Return(copied.fs, 0)
  OBVIOUS
<1>8. PICK last_step : last_step = Then(cleared, insert(cleared.fs, p.value.dir, p.value.name,
                                                         copied.value))
  OBVIOUS
<1>9. PICK replaced : replaced = Then(copied, Try(copied.fs, p, last_step))
  OBVIOUS
<1>10. PICK o : o = copy(fs, from, to, options)
  OBVIOUS
<1>11. o = IF source.error # Ok THEN Throw(fs, source.error)
           ELSE IF target.error # Ok THEN Throw(fs, target.error)
           ELSE IF exists /\ "error_on_exist" \in options THEN Throw(fs, "EEXIST")
           ELSE IF exists /\ "force" \notin options THEN Return(fs, 0)
           ELSE IF IsDirectory(fs.nodes, source.value) /\ "recursive" \notin options
           THEN Throw(fs, "EISDIR")
           ELSE replaced
  BY <1>1, <1>2, <1>3, <1>4, <1>5, <1>6, <1>7, <1>8, <1>9, <1>10, Zenon DEF copy, Try
<1>12. \/ o = Return(fs, 0)
       \/ \E code : code # Ok /\ o = Throw(fs, code)
       \/ source.error = Ok /\ target.error = Ok /\ o = replaced
  BY <1>11 DEF Ok
<1>13. CASE source.error = Ok /\ target.error = Ok /\ o = replaced
  <2>1. dereference \in BOOLEAN /\ exists \in BOOLEAN
    BY <1>1, <1>4
  <2>2. source.value \in DOMAIN fs.nodes
    BY <1>2, <1>13, <2>1, ResolvedPath
  <2>3. target.value \in Seq(STRING)
    BY <1>3, <1>13, CopyTargetIsPath
  <2>4. CopyMade(T, fs, copied)
    BY <1>5, <2>2, CopyNodeMade
  <2>5. PICK made : made = copied.fs
    OBVIOUS
  <2>6. Fine(made, T) /\ Unique(made.nodes) /\ Extends(fs, made)
    BY <2>4, <2>5 DEF CopyMade
  <2>7. CASE copied.error # Ok
    <3>1. o = copied BY <1>9, <1>13, <2>7 DEF Then
    <3> QED BY <1>10, <2>5, <2>6, <2>7, <3>1 DEF Lawful
  <2>8. CASE copied.error = Ok /\ p.error # Ok
    <3>1. o = Throw(made, p.error) BY <1>9, <1>13, <2>5, <2>8 DEF Then, Try
    <3> QED BY <1>10, <2>6, <2>8, <3>1 DEF Lawful, Throw
  <2>9. CASE copied.error = Ok /\ p.error = Ok
    <3>1. o = last_step BY <1>9, <1>13, <2>9 DEF Then, Try
    <3>2. PICK dir : dir = p.value.dir
      OBVIOUS
    <3>3. PICK name : name = p.value.name
      OBVIOUS
    <3>4. PICK n : n = copied.value
      OBVIOUS
    <3>5. dir \in DOMAIN fs.nodes /\ IsDirectory(fs.nodes, dir) /\ name \in STRING
      BY <1>6, <2>3, <2>9, <3>2, <3>3, ParentIsThere
    <3>6. n \in DOMAIN made.nodes \ {Root} /\ Unnamed(made.nodes, n)
      BY <2>4, <2>5, <2>9, <3>4 DEF CopyMade
    <3>7. cleared = IF exists THEN unlink(made, dir, name) ELSE Return(made, 0)
      BY <1>7, <2>5, <3>2, <3>3
    <3>8. last_step = Then(cleared, insert(cleared.fs, dir, name, n))
      BY <1>8, <3>2, <3>3, <3>4
    <3>9. Lawful(fs, Then(cleared, insert(cleared.fs, dir, name, n)), T)
      BY <2>1, <2>6, <3>5, <3>6, <3>7, ReplaceLawful
    <3> QED BY <1>10, <3>1, <3>8, <3>9
  <2> QED BY <2>7, <2>8, <2>9
<1> QED BY <1>10, <1>12, <1>13, NothingDone

\* mkdir.
LEMMA MkdirLawful ==
  ASSUME NEW T, T \subseteq TargetSet, NEW fs, Fine(fs, T), Unique(fs.nodes),
         NEW path \in Seq(STRING), NEW recursive \in BOOLEAN
  PROVE  Lawful(fs, mkdir(fs, path, recursive), T)
<1>1. PICK components : components = absolute_components(path)
  OBVIOUS
<1>2. PICK there : there = resolve(fs.nodes, path, TRUE)
  OBVIOUS
<1>3. PICK p : p = parent(fs.nodes, path)
  OBVIOUS
<1>4. PICK node : node = Directory(TRUE, Empty)
  OBVIOUS
<1>5. PICK o : o = mkdir(fs, path, recursive)
  OBVIOUS
<1>6. \/ \E code : code # Ok /\ o = Throw(fs, code)
      \/ o = Return(fs, 0)
      \/ components.error = Ok /\ o = mkdir_recursive(fs, components.value)
      \/ p.error = Ok /\ o = create(fs, p.value.dir, p.value.name, node)
  BY <1>1, <1>2, <1>3, <1>4, <1>5 DEF mkdir, Try, Ok
<1>7. CASE p.error = Ok /\ o = create(fs, p.value.dir, p.value.name, node)
  <2>1. /\ p.value.dir \in DOMAIN fs.nodes /\ IsDirectory(fs.nodes, p.value.dir)
        /\ p.value.name \in STRING
    BY <1>3, <1>7, ParentIsThere
  <2>2. node \in NodeSet(T) /\ NodeOK(node, DOMAIN fs.nodes) /\ DOMAIN node.entries = {}
    BY <1>4, NewNodes
  <2> QED BY <1>5, <1>7, <2>1, <2>2, CreateLawful
<1>8. CASE components.error = Ok /\ o = mkdir_recursive(fs, components.value)
  <2>1. <<>> \in Seq(STRING)
    OBVIOUS
  <2>2. components \in PathOutcomes
    BY <1>1, <2>1, ComponentsAreNames DEF absolute_components
  <2>3. components.value \in Seq(STRING)
    BY <1>8, <2>2 DEF PathOutcomes, Missing, Found, Ok
  <2> QED BY <1>5, <1>8, <2>3, MkdirRecursiveLawful
<1> QED BY <1>5, <1>6, <1>7, <1>8, NothingDone

-----------------------------------------------------------------------------
(* A new file system. *)

\* The nodes of a new file system, one by one.
LEMMA NewNodesOfSystem ==
  ASSUME NEW nodes, nodes = NewFileSystem.nodes
  PROVE  /\ nodes = [n \in DOMAIN nodes |-> nodes[n]]
         /\ DOMAIN nodes = {-6, -5, -4, -3, -2, -1, 0}
         /\ nodes[0] = Directory(FALSE, [name \in {"tmp", "bundle", "dev"} |->
              CASE name = "tmp" -> -1 [] name = "bundle" -> -2 [] name = "dev" -> -3])
         /\ nodes[-1] = Directory(TRUE, Empty)
         /\ nodes[-2] = Directory(FALSE, [name \in {"x"} |-> -4])
         /\ nodes[-3] = Directory(FALSE, [name \in {"null", "full"} |->
              IF name = "null" THEN -5 ELSE -6])
         /\ nodes[-4] = [kind |-> "bundled", data |-> <<1>>]
         /\ nodes[-5] = [kind |-> "null"]
         /\ nodes[-6] = [kind |-> "full"]
<1>1. -6 .. 0 = {-6, -5, -4, -3, -2, -1, 0}
  OBVIOUS
<1> DEFINE root == Directory(FALSE, [name \in {"tmp", "bundle", "dev"} |->
                     CASE name = "tmp" -> -1 [] name = "bundle" -> -2 [] name = "dev" -> -3])
           dev == Directory(FALSE, [name \in {"null", "full"} |->
                    IF name = "null" THEN -5 ELSE -6])
<1>b. nodes = [n \in -6 .. 0 |->
     CASE n = 0  -> root
       [] n = -1 -> Directory(TRUE, Empty)
       [] n = -2 -> Directory(FALSE, [name \in {"x"} |-> -4])
       [] n = -3 -> dev
       [] n = -4 -> [kind |-> "bundled", data |-> <<1>>]
       [] n = -5 -> [kind |-> "null"]
       [] n = -6 -> [kind |-> "full"]]
  BY DEF NewFileSystem
<1> HIDE DEF root, dev
<1>3. DOMAIN nodes = -6 .. 0 /\ nodes = [n \in DOMAIN nodes |-> nodes[n]]
  BY <1>b
<1>4. 0 \in -6 .. 0 /\ -1 \in -6 .. 0 /\ -2 \in -6 .. 0 /\ -3 \in -6 .. 0 /\ -4 \in -6 .. 0
      /\ -5 \in -6 .. 0 /\ -6 \in -6 .. 0
  OBVIOUS
<1>5. nodes[0] = root
  BY <1>b, <1>4
<1>6. nodes[-1] = Directory(TRUE, Empty)
  BY <1>b, <1>4
<1>7. nodes[-2] = Directory(FALSE, [name \in {"x"} |-> -4])
  BY <1>b, <1>4
<1>8. nodes[-3] = dev
  BY <1>b, <1>4
<1>9. nodes[-4] = [kind |-> "bundled", data |-> <<1>>]
  BY <1>b, <1>4
<1>10. nodes[-5] = [kind |-> "null"]
  BY <1>b, <1>4
<1>11. nodes[-6] = [kind |-> "full"]
  BY <1>b, <1>4
<1> QED BY <1>1, <1>3, <1>5, <1>6, <1>7, <1>8, <1>9, <1>10, <1>11 DEF root, dev

\* Its entries, one by one.
NewEntry(d, m, n) ==
  \/ d = 0 /\ m = "tmp" /\ n = -1
  \/ d = 0 /\ m = "bundle" /\ n = -2
  \/ d = 0 /\ m = "dev" /\ n = -3
  \/ d = -2 /\ m = "x" /\ n = -4
  \/ d = -3 /\ m = "null" /\ n = -5
  \/ d = -3 /\ m = "full" /\ n = -6

\* Its entries are the six.
LEMMA NewEntries ==
  ASSUME NEW nodes, nodes = NewFileSystem.nodes, NEW d, NEW m
  PROVE  /\ Entry(nodes, d, m) => NewEntry(d, m, nodes[d].entries[m])
         /\ \A n : NewEntry(d, m, n) => Entry(nodes, d, m) /\ nodes[d].entries[m] = n
<1>1. /\ DOMAIN nodes = {-6, -5, -4, -3, -2, -1, 0}
      /\ nodes[0] = Directory(FALSE, [name \in {"tmp", "bundle", "dev"} |->
           CASE name = "tmp" -> -1 [] name = "bundle" -> -2 [] name = "dev" -> -3])
      /\ nodes[-1] = Directory(TRUE, Empty)
      /\ nodes[-2] = Directory(FALSE, [name \in {"x"} |-> -4])
      /\ nodes[-3] = Directory(FALSE, [name \in {"null", "full"} |->
           IF name = "null" THEN -5 ELSE -6])
      /\ nodes[-4] = [kind |-> "bundled", data |-> <<1>>]
      /\ nodes[-5] = [kind |-> "null"]
      /\ nodes[-6] = [kind |-> "full"]
  BY NewNodesOfSystem
<1>2. /\ nodes[0].kind = "directory" /\ nodes[-1].kind = "directory"
      /\ nodes[-2].kind = "directory" /\ nodes[-3].kind = "directory"
      /\ nodes[-4].kind # "directory" /\ nodes[-5].kind # "directory"
      /\ nodes[-6].kind # "directory"
  BY <1>1 DEF Directory
<1>3. /\ DOMAIN nodes[0].entries = {"tmp", "bundle", "dev"}
      /\ nodes[0].entries["tmp"] = -1 /\ nodes[0].entries["bundle"] = -2
      /\ nodes[0].entries["dev"] = -3
  BY <1>1 DEF Directory
<1>4. DOMAIN nodes[-1].entries = {}
  BY <1>1 DEF Directory, Empty
<1>5. DOMAIN nodes[-2].entries = {"x"} /\ nodes[-2].entries["x"] = -4
  BY <1>1 DEF Directory
<1>6. /\ DOMAIN nodes[-3].entries = {"null", "full"}
      /\ nodes[-3].entries["null"] = -5 /\ nodes[-3].entries["full"] = -6
  BY <1>1 DEF Directory
<1>7. Entry(nodes, d, m) <=> /\ d \in {0, -1, -2, -3}
                              /\ m \in DOMAIN nodes[d].entries
  <2>1. DOMAIN nodes = {-6, -5, -4, -3, -2, -1, 0}
    BY <1>1
  <2> QED BY <1>2, <2>1 DEF Entry, IsDirectory
<1>8. CASE d = 0
  BY <1>3, <1>7, <1>8 DEF NewEntry
<1>9. CASE d = -1
  BY <1>4, <1>7, <1>9 DEF NewEntry
<1>10. CASE d = -2
  BY <1>5, <1>7, <1>10 DEF NewEntry
<1>11. CASE d = -3
  BY <1>6, <1>7, <1>11 DEF NewEntry
<1>12. CASE d \notin {0, -1, -2, -3}
  BY <1>7, <1>12 DEF NewEntry
<1> QED BY <1>8, <1>9, <1>10, <1>11, <1>12

\* A new file system is well-formed, with one place for each directory.
LEMMA NewIsFine ==
  ASSUME NEW T, NEW fs, fs = NewFileSystem
  PROVE  Fine(fs, T) /\ Unique(fs.nodes)
<1>1. PICK nodes : nodes = NewFileSystem.nodes
  OBVIOUS
<1>2. /\ DOMAIN nodes = {-6, -5, -4, -3, -2, -1, 0}
      /\ nodes[0] = Directory(FALSE, [name \in {"tmp", "bundle", "dev"} |->
           CASE name = "tmp" -> -1 [] name = "bundle" -> -2 [] name = "dev" -> -3])
      /\ nodes[-1] = Directory(TRUE, Empty)
      /\ nodes[-2] = Directory(FALSE, [name \in {"x"} |-> -4])
      /\ nodes[-3] = Directory(FALSE, [name \in {"null", "full"} |->
           IF name = "null" THEN -5 ELSE -6])
      /\ nodes[-4] = [kind |-> "bundled", data |-> <<1>>]
      /\ nodes[-5] = [kind |-> "null"]
      /\ nodes[-6] = [kind |-> "full"]
  BY <1>1, NewNodesOfSystem
<1>3. fs = [nodes |-> nodes, open |-> Empty, next |-> 3]
  BY <1>1 DEF NewFileSystem
<1>4. \A d, m : Entry(nodes, d, m) => NewEntry(d, m, nodes[d].entries[m])
  BY <1>1, NewEntries
<1>5. /\ nodes[0].kind = "directory" /\ nodes[-1].kind = "directory"
      /\ nodes[-2].kind = "directory" /\ nodes[-3].kind = "directory"
      /\ nodes[-4].kind = "bundled" /\ nodes[-5].kind = "null" /\ nodes[-6].kind = "full"
  BY <1>2 DEF Directory
<1>6. {"tmp", "bundle", "dev"} \in SUBSET STRING /\ {"x"} \in SUBSET STRING
      /\ {"null", "full"} \in SUBSET STRING /\ {} \in SUBSET STRING
  BY LiteralNames
<1>7. \A n \in DOMAIN nodes : nodes[n] \in NodeSet(T) /\ NodeOK(nodes[n], DOMAIN nodes)
  <2>1. ASSUME NEW n \in {0, -1, -2, -3}
        PROVE  /\ nodes[n] \in DirSet /\ IsFiniteSet(DOMAIN nodes[n].entries)
               /\ \A name \in DOMAIN nodes[n].entries :
                    nodes[n].entries[name] \in DOMAIN nodes \ {Root}
    <3>1. PICK names : names = DOMAIN nodes[n].entries
      OBVIOUS
    <3>2. PICK entries : entries = nodes[n].entries
      OBVIOUS
    <3>3. names \in SUBSET STRING /\ IsFiniteSet(names) /\ entries \in [names -> Int]
      <4>1. CASE n = 0
        <5>1. entries = [name \in {"tmp", "bundle", "dev"} |->
                CASE name = "tmp" -> -1 [] name = "bundle" -> -2 [] name = "dev" -> -3]
          BY <1>2, <3>2, <4>1 DEF Directory
        <5>2. names = {"tmp", "bundle", "dev"} BY <3>1, <3>2, <5>1
        <5>3. IsFiniteSet({"tmp", "bundle", "dev"})
          <6>1. IsFiniteSet({"tmp"} \cup {"bundle"})
            BY FS_Singleton, FS_AddElement
          <6>2. IsFiniteSet({"tmp"} \cup {"bundle"} \cup {"dev"})
            BY <6>1, FS_AddElement
          <6>3. {"tmp", "bundle", "dev"} = {"tmp"} \cup {"bundle"} \cup {"dev"}
            OBVIOUS
          <6> QED BY <6>2, <6>3
        <5>4. entries \in [{"tmp", "bundle", "dev"} -> Int] BY <5>1
        <5> QED BY <1>6, <5>2, <5>3, <5>4
      <4>2. CASE n = -1
        <5>1. entries = [x \in {} |-> x] BY <1>2, <3>2, <4>2 DEF Directory, Empty
        <5> QED BY <1>6, <3>1, <3>2, <5>1, FS_EmptySet
      <4>3. CASE n = -2
        <5>1. entries = [name \in {"x"} |-> -4] BY <1>2, <3>2, <4>3 DEF Directory
        <5>2. names = {"x"} BY <3>1, <3>2, <5>1
        <5>3. entries \in [{"x"} -> Int] BY <5>1
        <5>4. IsFiniteSet({"x"}) BY FS_Singleton
        <5> QED BY <1>6, <5>2, <5>3, <5>4
      <4>4. CASE n = -3
        <5>1. entries = [name \in {"null", "full"} |-> IF name = "null" THEN -5 ELSE -6]
          BY <1>2, <3>2, <4>4 DEF Directory
        <5>2. IsFiniteSet({"null", "full"})
          <6>1. IsFiniteSet({"null"} \cup {"full"})
            BY FS_Singleton, FS_AddElement
          <6>2. {"null", "full"} = {"null"} \cup {"full"}
            OBVIOUS
          <6> QED BY <6>1, <6>2
        <5>3. names = {"null", "full"} BY <3>1, <3>2, <5>1
        <5>4. entries \in [{"null", "full"} -> Int] BY <5>1
        <5> QED BY <1>6, <5>2, <5>3, <5>4
      <4> QED BY <2>1, <4>1, <4>2, <4>3, <4>4
    <3>4. entries \in EntryMaps
      BY <3>3 DEF EntryMaps
    <3>5. nodes[n] = [kind |-> "directory", writable |-> nodes[n].writable, entries |-> entries]
          /\ nodes[n].writable \in BOOLEAN
      <4>1. \E writable \in BOOLEAN : \E e : nodes[n] = Directory(writable, e)
        <5>1. CASE n = 0 BY <1>2, <5>1, Zenon
        <5>2. CASE n = -1 BY <1>2, <5>2, Zenon
        <5>3. CASE n = -2 BY <1>2, <5>3, Zenon
        <5>4. CASE n = -3 BY <1>2, <5>4, Zenon
        <5> QED BY <2>1, <5>1, <5>2, <5>3, <5>4
      <4>2. PICK writable \in BOOLEAN : \E e : nodes[n] = Directory(writable, e)
        BY <4>1
      <4>3. PICK e : nodes[n] = Directory(writable, e)
        BY <4>2
      <4> QED BY <3>2, <4>3 DEF Directory
    <3>6. nodes[n] \in DirSet
      BY <3>4, <3>5 DEF DirSet
    <3>7. \A name \in names : entries[name] \in DOMAIN nodes \ {Root}
      <4>1. SUFFICES ASSUME NEW name \in names PROVE entries[name] \in DOMAIN nodes \ {Root}
        OBVIOUS
      <4>2. Entry(nodes, n, name)
        BY <1>2, <1>5, <2>1, <3>1, <4>1 DEF Entry, IsDirectory
      <4>3. nodes[n].entries[name] \in {-1, -2, -3, -4, -5, -6}
        BY <1>4, <4>2 DEF NewEntry
      <4> QED BY <1>2, <3>2, <4>3 DEF Root
    <3> QED BY <3>1, <3>2, <3>3, <3>6, <3>7
  <2>2. \A n \in {0, -1, -2, -3} : nodes[n] \in NodeSet(T) /\ NodeOK(nodes[n], DOMAIN nodes)
    BY <1>5, <2>1 DEF NodeSet, NodeOK
  <2>3. nodes[-4] \in NodeSet(T) /\ NodeOK(nodes[-4], DOMAIN nodes)
    <3>1. <<1>> \in Seq({0, 1}) /\ Len(<<1>>) = 1 OBVIOUS
    <3>2. nodes[-4] \in FileSet BY <1>2, <3>1 DEF FileSet
    <3>3. Len(nodes[-4].data) <= MaxSize
      <4>1. MaxSize \in Nat /\ MaxSize > 0 BY FileLimits
      <4> QED BY <1>2, <3>1, <4>1
    <3> QED BY <1>5, <3>2, <3>3 DEF NodeSet, NodeOK
  <2>4. nodes[-5] \in NodeSet(T) /\ NodeOK(nodes[-5], DOMAIN nodes)
    BY <1>2, <1>5 DEF NodeSet, NodeOK
  <2>5. nodes[-6] \in NodeSet(T) /\ NodeOK(nodes[-6], DOMAIN nodes)
    BY <1>2, <1>5 DEF NodeSet, NodeOK
  <2> QED BY <1>2, <2>2, <2>3, <2>4, <2>5
<1>8. fs \in FileSystems(T)
  <2>1. nodes = [n \in DOMAIN nodes |-> nodes[n]]
    BY <1>1, NewNodesOfSystem
  <2>2. nodes \in [DOMAIN nodes -> NodeSet(T)]
    BY <1>7, <2>1
  <2>3. DOMAIN nodes \in SUBSET Int
    BY <1>2
  <2>4. Empty \in [{} -> OpenSet] /\ {} \in SUBSET Nat
    BY DEF Empty
  <2> QED BY <1>3, <2>2, <2>3, <2>4 DEF FileSystems
<1>9. IsFiniteSet(DOMAIN nodes)
  <2>1. IsFiniteSet(-6 .. 0)
    <3>1. -6 \in Int /\ 0 \in Int OBVIOUS
    <3> QED BY <3>1, FS_Interval
  <2>2. -6 .. 0 = {-6, -5, -4, -3, -2, -1, 0} OBVIOUS
  <2> QED BY <1>2, <2>1, <2>2
<1>10. FixedOK(nodes)
  BY <1>1, <1>2, <1>5 DEF FixedOK, Fixed
<1>11. DOMAIN fs.open = {} /\ fs.nodes = nodes
  BY <1>3 DEF Empty
<1>12. Fine(fs, T)
  BY <1>7, <1>8, <1>9, <1>10, <1>11 DEF Fine
<1>13. Unique(nodes)
  <2> SUFFICES ASSUME NEW d1, NEW d2, NEW n1, NEW n2, Twice(nodes, d1, n1, d2, n2)
               PROVE  d1 = d2 /\ n1 = n2
    BY DEF Unique
  <2>1. SUFFICES ASSUME Entry(nodes, d1, n1), Entry(nodes, d2, n2),
                        nodes[d1].entries[n1] = nodes[d2].entries[n2]
                 PROVE  d1 = d2 /\ n1 = n2
    BY DEF Twice
  <2>2. PICK v : v = nodes[d1].entries[n1]
    OBVIOUS
  <2>3. NewEntry(d1, n1, v) /\ NewEntry(d2, n2, v)
    BY <1>4, <2>1, <2>2
  <2> QED BY <2>3 DEF NewEntry
<1> QED BY <1>11, <1>12, <1>13

\* All of it is below the root.
LEMMA NewIsGood ==
  ASSUME NEW T, NEW fs, fs = NewFileSystem
  PROVE  Good(fs, T)
<1>1. Fine(fs, T) /\ Unique(fs.nodes)
  BY NewIsFine
<1>2. PICK R : R = Referred(fs)
  OBVIOUS
<1>3. R \subseteq DOMAIN fs.nodes /\ Root \in R /\ Closed(fs.nodes, R)
  BY <1>1, <1>2, ReferredIsLeast DEF Roots
<1>4. \A d, m : Entry(fs.nodes, d, m) /\ d \in R => fs.nodes[d].entries[m] \in R
  BY <1>3 DEF Closed
<1>5. PICK nodes : nodes = fs.nodes
  OBVIOUS
<1>6. DOMAIN nodes = {-6, -5, -4, -3, -2, -1, 0}
  BY <1>5, NewNodesOfSystem
<1>7. \A d, m, v : NewEntry(d, m, v) => Entry(nodes, d, m) /\ nodes[d].entries[m] = v
  BY <1>5, NewEntries
<1>8. 0 \in R
  BY <1>3 DEF Root
<1>9. -1 \in R /\ -2 \in R /\ -3 \in R
  BY <1>4, <1>5, <1>7, <1>8 DEF NewEntry
<1>10. -4 \in R /\ -5 \in R /\ -6 \in R
  BY <1>4, <1>5, <1>7, <1>9 DEF NewEntry
<1> QED BY <1>1, <1>2, <1>3, <1>5, <1>6, <1>8, <1>9, <1>10 DEF Good

-----------------------------------------------------------------------------
(* The steps of a worker. *)

\* What a call has done, if it is not one that keeps what it did when it throws.
Does(fs, call, o, T) ==
  /\ Kept(fs, o, T)
  /\ call[1] \notin {"write_file", "writev"} /\ o.error # Ok => Extends(fs, o.fs)

\* The inductive invariant: the file system is well-formed and a tree, and
\* nothing is in it that is not referred to.
Inductive == Good(vfs, Targets)

\* A lawful call does what a call may do.
LEMMA LawfulDoes ==
  ASSUME NEW T, NEW fs, NEW call, NEW o, Lawful(fs, o, T)
  PROVE  Does(fs, call, o, T)
BY DEF Lawful, Does, Kept

\* So does one that leaves a tree, if it may keep what it did.
LEMMA KeptDoes ==
  ASSUME NEW T, NEW fs, NEW call, call[1] \in {"write_file", "writev"}, NEW o, Kept(fs, o, T)
  PROVE  Does(fs, call, o, T)
BY DEF Does

\* A call leaves a tree without anything lost, and one that throws leaves what
\* was there: the nodes that it had made are dropped.
LEMMA CallIsGood ==
  ASSUME Inductive, NEW call, NEW o, Does(vfs, call, o, Targets), Call(call, o)
  PROVE  /\ Inductive'
         /\ last'.error # Ok /\ last'.call[1] \notin {"write_file", "writev"} => vfs' = vfs
<1>1. Good(vfs, Targets) /\ Fine(o.fs, Targets)
  BY DEF Inductive, Does, Kept
<1>2. vfs' = (IF o.fs = vfs THEN vfs ELSE Drop(o.fs)) /\ last' = [call |-> call, error |-> o.error]
  BY DEF Call
<1>3. ASSUME Extends(vfs, o.fs) PROVE vfs' = vfs
  BY <1>1, <1>2, <1>3, DropUndoes
<1>4. Good(vfs', Targets)
  <2>1. CASE o.fs = vfs
    BY <1>1, <1>2, <2>1
  <2>2. CASE o.fs # vfs /\ Unique(o.fs.nodes)
    BY <1>1, <1>2, <2>2, DropIsGood
  <2>3. CASE Extends(vfs, o.fs)
    BY <1>1, <1>3, <2>3
  <2> QED BY <2>1, <2>2, <2>3 DEF Does, Kept
<1>5. ASSUME last'.error # Ok, last'.call[1] \notin {"write_file", "writev"} PROVE vfs' = vfs
  <2>1. o.error # Ok /\ call[1] \notin {"write_file", "writev"}
    BY <1>2, <1>5
  <2> QED BY <1>3, <2>1 DEF Does
<1> QED BY <1>4, <1>5 DEF Inductive

\* A call by name.
LEMMA ByNameDoes ==
  ASSUME Inductive, ByName
  PROVE  \E call, o : Does(vfs, call, o, Targets) /\ Call(call, o)
<1>1. Targets \subseteq TargetSet /\ Fine(vfs, Targets) /\ Unique(vfs.nodes)
  BY TargetShape DEF Inductive, Good, TargetSet
<1>2. PICK p \in Paths :
    \/ \E recursive \in BOOLEAN :
         \/ Mkdir(p, recursive)
         \/ RemoveDirectory(p, recursive)
         \/ \E force \in BOOLEAN : RemoveEntry(p, recursive, force)
    \/ RemoveFile(p)
    \/ \E target \in Targets : MakeSymlink(target, p)
    \/ \E candidate \in TempNames : MakeTempDir(p, candidate)
    \/ \E append \in BOOLEAN : WriteFile(p, append)
    \/ \E size \in Sizes : Truncate(p, size)
    \/ \E options \in Flags : Open(p, options)
    \/ \E to \in Paths :
         \/ Rename(p, to)
         \/ Link(p, to)
         \/ \E exclusive \in BOOLEAN : CopyFile(p, to, exclusive)
         \/ \E options \in CopyOptions : Copy(p, to, options)
  BY DEF ByName
<1>3. p \in Seq(STRING)
  BY PathShape
<1>4. ASSUME NEW recursive \in BOOLEAN, Mkdir(p, recursive)
      PROVE  \E call, o : Does(vfs, call, o, Targets) /\ Call(call, o)
  <2>1. Lawful(vfs, mkdir(vfs, p, recursive), Targets) BY <1>1, <1>3, MkdirLawful
  <2> QED BY <1>4, <2>1, LawfulDoes DEF Mkdir
<1>5. ASSUME NEW recursive \in BOOLEAN, RemoveDirectory(p, recursive)
      PROVE  \E call, o : Does(vfs, call, o, Targets) /\ Call(call, o)
  <2>1. Lawful(vfs, remove_directory(vfs, p, recursive), Targets)
    BY <1>1, <1>3, RemoveDirectoryLawful
  <2> QED BY <1>5, <2>1, LawfulDoes DEF RemoveDirectory
<1>6. ASSUME NEW recursive \in BOOLEAN, NEW force \in BOOLEAN, RemoveEntry(p, recursive, force)
      PROVE  \E call, o : Does(vfs, call, o, Targets) /\ Call(call, o)
  <2>1. Lawful(vfs, remove(vfs, p, recursive, force), Targets) BY <1>1, <1>3, RemoveLawful
  <2> QED BY <1>6, <2>1, LawfulDoes DEF RemoveEntry
<1>7. ASSUME RemoveFile(p)
      PROVE  \E call, o : Does(vfs, call, o, Targets) /\ Call(call, o)
  <2>1. Lawful(vfs, remove_file(vfs, p), Targets) BY <1>1, <1>3, RemoveFileLawful
  <2> QED BY <1>7, <2>1, LawfulDoes DEF RemoveFile
<1>8. ASSUME NEW target \in Targets, MakeSymlink(target, p)
      PROVE  \E call, o : Does(vfs, call, o, Targets) /\ Call(call, o)
  <2>1. Lawful(vfs, symlink(vfs, target, p), Targets) BY <1>1, <1>3, SymlinkLawful
  <2> QED BY <1>8, <2>1, LawfulDoes DEF MakeSymlink
<1>9. ASSUME NEW candidate \in TempNames, MakeTempDir(p, candidate)
      PROVE  \E call, o : Does(vfs, call, o, Targets) /\ Call(call, o)
  <2>1. Lawful(vfs, make_temp_dir(vfs, p, candidate), Targets)
    BY <1>1, <1>3, MakeTempDirLawful, PathShape
  <2> QED BY <1>9, <2>1, LawfulDoes DEF MakeTempDir
<1>10. ASSUME NEW append \in BOOLEAN, WriteFile(p, append)
       PROVE  \E call, o : Does(vfs, call, o, Targets) /\ Call(call, o)
  <2>1. PICK call : call = <<"write_file", p>>
    OBVIOUS
  <2>2. PICK o : o = write_file(vfs, p, <<1>>, append)
    OBVIOUS
  <2>3. <<1>> \in Seq({0, 1})
    OBVIOUS
  <2>4. Kept(vfs, o, Targets) BY <1>1, <1>3, <2>2, <2>3, WriteFileKept
  <2>5. call[1] \in {"write_file", "writev"} BY <2>1
  <2>6. Does(vfs, call, o, Targets) BY <2>4, <2>5, KeptDoes
  <2> QED BY <1>10, <2>1, <2>2, <2>6 DEF WriteFile
<1>11. ASSUME NEW size \in Sizes, Truncate(p, size)
       PROVE  \E call, o : Does(vfs, call, o, Targets) /\ Call(call, o)
  <2>1. Lawful(vfs, truncate(vfs, p, size), Targets)
    BY <1>1, <1>3, TruncateLawful, SizesNat
  <2> QED BY <1>11, <2>1, LawfulDoes DEF Truncate
<1>12. ASSUME NEW options \in Flags, Open(p, options)
       PROVE  \E call, o : Does(vfs, call, o, Targets) /\ Call(call, o)
  <2>1. Lawful(vfs, open(vfs, p, options), Targets) BY <1>1, <1>3, OpenLawful
  <2> QED BY <1>12, <2>1, LawfulDoes DEF Open
<1>13. ASSUME NEW to \in Paths, Rename(p, to)
       PROVE  \E call, o : Does(vfs, call, o, Targets) /\ Call(call, o)
  <2>1. Lawful(vfs, rename(vfs, p, to), Targets)
    BY <1>1, <1>3, RenameLawful, PathShape
  <2> QED BY <1>13, <2>1, LawfulDoes DEF Rename
<1>14. ASSUME NEW to \in Paths, Link(p, to)
       PROVE  \E call, o : Does(vfs, call, o, Targets) /\ Call(call, o)
  <2>1. Lawful(vfs, link(vfs, p, to), Targets)
    BY <1>1, <1>3, LinkLawful, PathShape
  <2> QED BY <1>14, <2>1, LawfulDoes DEF Link
<1>15. ASSUME NEW to \in Paths, NEW exclusive \in BOOLEAN, CopyFile(p, to, exclusive)
       PROVE  \E call, o : Does(vfs, call, o, Targets) /\ Call(call, o)
  <2>1. PICK call : call = <<"write_file", to>>
    OBVIOUS
  <2>2. PICK o : o = copy_file_with_options(vfs, p, to, exclusive)
    OBVIOUS
  <2>3. to \in Seq(STRING)
    BY PathShape
  <2>4. Kept(vfs, o, Targets) BY <1>1, <1>3, <2>2, <2>3, CopyFileKept
  <2>5. call[1] \in {"write_file", "writev"} BY <2>1
  <2>6. Does(vfs, call, o, Targets) BY <2>4, <2>5, KeptDoes
  <2> QED BY <1>15, <2>1, <2>2, <2>6 DEF CopyFile
<1>16. ASSUME NEW to \in Paths, NEW options \in CopyOptions, Copy(p, to, options)
       PROVE  \E call, o : Does(vfs, call, o, Targets) /\ Call(call, o)
  <2>1. Lawful(vfs, copy(vfs, p, to, options), Targets)
    BY <1>1, <1>3, CopyLawful, PathShape
  <2> QED BY <1>16, <2>1, LawfulDoes DEF Copy
<1> QED BY <1>2, <1>4, <1>5, <1>6, <1>7, <1>8, <1>9, <1>10, <1>11, <1>12, <1>13, <1>14,
           <1>15, <1>16, Zenon

\* A call on an open file, or on a number that none has.
LEMMA ByDescriptorDoes ==
  ASSUME Inductive, ByDescriptor
  PROVE  \E call, o : Does(vfs, call, o, Targets) /\ Call(call, o)
<1>1. Fine(vfs, Targets) /\ Unique(vfs.nodes)
  BY DEF Inductive, Good
<1>2. PICK d :
    \/ Close(d)
    \/ \E size \in Sizes : Ftruncate(d, size)
    \/ \E position \in {Here} \cup 0 .. MaxSize :
         \/ Read(d, position)
         \/ Readv(d, position)
         \/ Write(d, position)
         \/ Writev(d, position)
  BY DEF ByDescriptor
<1>3. {Here} \cup 0 .. MaxSize \subseteq Nat \cup {Here}
  BY FileLimits
<1>4. ASSUME Close(d)
      PROVE  \E call, o : Does(vfs, call, o, Targets) /\ Call(call, o)
  <2>1. Lawful(vfs, close(vfs, d), Targets) BY <1>1, CloseLawful
  <2> QED BY <1>4, <2>1, LawfulDoes DEF Close
<1>5. ASSUME NEW size \in Sizes, Ftruncate(d, size)
      PROVE  \E call, o : Does(vfs, call, o, Targets) /\ Call(call, o)
  <2>1. Lawful(vfs, ftruncate(vfs, d, size), Targets)
    BY <1>1, FtruncateLawful, SizesNat
  <2> QED BY <1>5, <2>1, LawfulDoes DEF Ftruncate
<1>6. ASSUME NEW position \in {Here} \cup 0 .. MaxSize, Read(d, position)
      PROVE  \E call, o : Does(vfs, call, o, Targets) /\ Call(call, o)
  <2>1. 1 \in Nat /\ position \in Nat \cup {Here} BY <1>3
  <2>2. Lawful(vfs, read(vfs, d, 1, position), Targets) BY <1>1, <2>1, ReadLawful
  <2> QED BY <1>6, <2>2, LawfulDoes DEF Read
<1>7. ASSUME NEW position \in {Here} \cup 0 .. MaxSize, Readv(d, position)
      PROVE  \E call, o : Does(vfs, call, o, Targets) /\ Call(call, o)
  <2>1. 1 \in Nat /\ position \in Nat \cup {Here} BY <1>3
  <2>2. Lawful(vfs, readv(vfs, d, <<1, 1>>, position), Targets) BY <1>1, <2>1, ReadvLawful
  <2> QED BY <1>7, <2>2, LawfulDoes DEF Readv
<1>8. ASSUME NEW position \in {Here} \cup 0 .. MaxSize, Write(d, position)
      PROVE  \E call, o : Does(vfs, call, o, Targets) /\ Call(call, o)
  <2>1. <<1>> \in Seq({0, 1}) /\ position \in Nat \cup {Here} BY <1>3
  <2>2. Lawful(vfs, write(vfs, d, <<1>>, position), Targets) BY <1>1, <2>1, WriteLawful
  <2> QED BY <1>8, <2>2, LawfulDoes DEF Write
<1>9. ASSUME NEW position \in {Here} \cup 0 .. MaxSize, Writev(d, position)
      PROVE  \E call, o : Does(vfs, call, o, Targets) /\ Call(call, o)
  <2>1. PICK call : call = <<"writev">>
    OBVIOUS
  <2>2. PICK o : o = writev(vfs, d, <<<<1>>, <<1>>>>, position)
    OBVIOUS
  <2>3. <<1>> \in Seq({0, 1}) /\ position \in Nat \cup {Here} BY <1>3
  <2>4. Allowed(o, Targets) BY <1>1, <2>2, <2>3, WritevAllowed
  <2>5. Kept(vfs, o, Targets) BY <2>4 DEF Allowed, Kept
  <2>6. call[1] \in {"write_file", "writev"} BY <2>1
  <2>7. Does(vfs, call, o, Targets) BY <2>5, <2>6, KeptDoes
  <2> QED BY <1>9, <2>1, <2>2, <2>7 DEF Writev
<1> QED BY <1>2, <1>4, <1>5, <1>6, <1>7, <1>8, <1>9, Zenon

\* Every step keeps the invariant.
LEMMA NextIsGood ==
  ASSUME Inductive, [Next]_vars
  PROVE  /\ Inductive'
         /\ last'.error # Ok /\ last'.call[1] \notin {"write_file", "writev"} /\ vars' # vars
              => vfs' = vfs
<1>1. CASE UNCHANGED vars
  BY <1>1 DEF vars, Inductive
<1>2. CASE Next
  <2>1. \E call, o : Does(vfs, call, o, Targets) /\ Call(call, o)
    BY <1>2, ByNameDoes, ByDescriptorDoes DEF Next
  <2>2. PICK call, o : Does(vfs, call, o, Targets) /\ Call(call, o)
    BY <2>1
  <2> QED BY <2>2, CallIsGood
<1> QED BY <1>1, <1>2

\* At first it holds.
LEMMA InitIsGood == Init => Inductive
BY NewIsGood DEF Init, Inductive

-----------------------------------------------------------------------------
(* What the invariant says. *)

\* The invariant has the types in it.
LEMMA GoodTypes == Inductive => TypeOK
<1> SUFFICES ASSUME Inductive PROVE TypeOK
  OBVIOUS
<1>1. Fine(vfs, Targets)
  BY DEF Inductive, Good
<1>2. ASSUME NEW n \in DOMAIN vfs.nodes, NEW node, node = vfs.nodes[n]
      PROVE  \/ /\ node.kind = "directory"
                /\ node.writable \in BOOLEAN
                /\ Range(node.entries) \subseteq DOMAIN vfs.nodes
             \/ /\ node.kind \in {"file", "bundled"}
                /\ node.data \in Seq({0, 1})
                /\ Len(node.data) <= MaxSize
             \/ node.kind = "symlink" /\ node.target \in Targets
             \/ node.kind \in {"null", "full"}
  <2>1. node \in NodeSet(Targets) /\ NodeOK(node, DOMAIN vfs.nodes)
    BY <1>1, <1>2, NodeKinds DEF Fine
  <2>2. CASE node \in DirSet
    <3>1. node.kind = "directory" /\ node.writable \in BOOLEAN
      BY <2>2 DEF DirSet
    <3>2. \A name \in DOMAIN node.entries : node.entries[name] \in DOMAIN vfs.nodes
      BY <2>1, <3>1 DEF NodeOK
    <3> QED BY <3>1, <3>2 DEF Range
  <2>3. CASE node \in FileSet
    BY <2>1, <2>3 DEF FileSet, NodeOK
  <2>4. CASE node \notin DirSet \cup FileSet
    BY <2>1, <2>4 DEF NodeSet
  <2> QED BY <2>2, <2>3, <2>4
<1>3. ASSUME NEW d \in DOMAIN vfs.open
      PROVE  /\ vfs.open[d].node \in DOMAIN vfs.nodes
             /\ vfs.open[d].position \in Nat
             /\ "write" \in vfs.open[d].options => vfs.nodes[vfs.open[d].node].kind # "bundled"
  <2>1. OpenOK(vfs, d) /\ vfs.open[d] \in OpenSet
    BY <1>1, Systems DEF Fine
  <2> QED BY <2>1 DEF OpenOK, OpenSet
<1> QED BY <1>2, <1>3 DEF TypeOK

\* EntriesTo are the entries that refer to a node.
LEMMA EntriesAre ==
  ASSUME NEW nodes, NEW n
  PROVE  /\ \A d, m : <<d, m>> \in EntriesTo(nodes, n) <=>
                        Entry(nodes, d, m) /\ nodes[d].entries[m] = n
         /\ \A e \in EntriesTo(nodes, n) : e = <<e[1], e[2]>>
BY DEF EntriesTo, Entry

\* What is not the root has an entry, since without one nothing would refer
\* to it, and a directory or a link has no second one.
LEMMA GoodIsTree == Inductive => TreeOK
<1> SUFFICES ASSUME Inductive PROVE TreeOK
  OBVIOUS
<1>1. PICK nodes : nodes = vfs.nodes
  OBVIOUS
<1>2. Fine(vfs, Targets) /\ Unique(nodes) /\ Referred(vfs) = DOMAIN nodes
  BY <1>1 DEF Inductive, Good
<1>3. SUFFICES ASSUME NEW n \in DOMAIN nodes, nodes[n].kind \in {"directory", "symlink"}
               PROVE  Cardinality(EntriesTo(nodes, n)) = IF n = Root THEN 0 ELSE 1
  BY <1>1 DEF TreeOK
<1>4. PICK places : places = EntriesTo(nodes, n)
  OBVIOUS
<1>5. /\ \A d, m : <<d, m>> \in places <=> Entry(nodes, d, m) /\ nodes[d].entries[m] = n
      /\ \A e \in places : e = <<e[1], e[2]>>
  BY <1>4, EntriesAre
<1>6. \A d, m : Entry(nodes, d, m) => nodes[d].entries[m] \in DOMAIN nodes \ {Root}
  BY <1>1, <1>2, EntryThere DEF Entry
<1>7. CASE n = Root
  <2>1. places = {}
    BY <1>5, <1>6, <1>7
  <2> QED BY <1>4, <1>7, <2>1, FS_EmptySet
<1>8. CASE n # Root
  <2>1. \E d, m : Entry(nodes, d, m) /\ nodes[d].entries[m] = n
    <3>1. SUFFICES ASSUME \A d, m : Entry(nodes, d, m) => nodes[d].entries[m] # n PROVE FALSE
      OBVIOUS
    <3>2. PICK rest : rest = DOMAIN nodes \ {n}
      OBVIOUS
    <3>3. Closed(nodes, rest)
      BY <1>6, <3>1, <3>2 DEF Closed
    <3>4. Root \in DOMAIN nodes
      BY <1>1, <1>2 DEF Fine, FixedOK, Fixed, Root
    <3>5. ASSUME NEW d \in DOMAIN vfs.open PROVE vfs.open[d].node \in rest
      <4>1. OpenOK(vfs, d)
        BY <1>2 DEF Fine
      <4> QED BY <1>1, <1>3, <3>2, <4>1 DEF OpenOK
    <3>6. Roots(vfs) \subseteq rest
      BY <1>8, <3>2, <3>4, <3>5 DEF Roots
    <3>7. Referred(vfs) \subseteq rest
      <4>1. rest \in SUBSET DOMAIN vfs.nodes BY <1>1, <3>2
      <4> QED BY <1>1, <1>2, <3>3, <3>6, <4>1, ReferredIsLeast
    <3> QED BY <1>2, <3>2, <3>7
  <2>2. PICK d, m : Entry(nodes, d, m) /\ nodes[d].entries[m] = n
    BY <2>1
  <2>3. ASSUME NEW e \in places PROVE e = <<d, m>>
    <3>1. PICK d2 : d2 = e[1] OBVIOUS
    <3>2. PICK m2 : m2 = e[2] OBVIOUS
    <3>3. e = <<d2, m2>> BY <1>5, <3>1, <3>2
    <3>4. Entry(nodes, d2, m2) /\ nodes[d2].entries[m2] = n
      BY <1>5, <3>3
    <3>5. nodes[nodes[d].entries[m]].kind \in {"directory", "symlink"}
          /\ nodes[d].entries[m] = nodes[d2].entries[m2]
      BY <1>3, <2>2, <3>4
    <3>6. d = d2 /\ m = m2
      <4>1. Twice(nodes, d, m, d2, m2)
        BY <2>2, <3>4, <3>5 DEF Twice
      <4> QED BY <1>2, <4>1 DEF Unique
    <3> QED BY <3>3, <3>6
  <2>4. places = {<<d, m>>}
    BY <1>5, <2>2, <2>3
  <2> QED BY <1>4, <1>8, <2>4, FS_Singleton
<1> QED BY <1>7, <1>8

\* The invariant has the read-only part in it.
LEMMA GoodIsKept == Inductive => ReadOnlyKept
BY DEF Inductive, Good, Fine, FixedOK, ReadOnlyKept

\* The inductive invariant: every file system that a worker's calls lead to is
\* well-formed, a tree, and without a node that nothing refers to.
THEOREM InductiveHolds == Spec => []Inductive
<1>1. Init => Inductive
  BY InitIsGood
<1>2. Inductive /\ [Next]_vars => Inductive'
  BY NextIsGood
<1> QED BY <1>1, <1>2, PTL DEF Spec

\* FileSystemOK: whatever a worker calls, each node that can be reached has the
\* shape of its kind and none is larger than it may be, a directory or a link
\* is in one place, and the root, the bundle and the devices are as at first.
\* (That a call does not make a node unreachable is NothingIsLost, not this.)
THEOREM FileSystemIsOK == Spec => []FileSystemOK
<1>1. Inductive => FileSystemOK
  BY GoodTypes, GoodIsTree, GoodIsKept DEF FileSystemOK
<1> QED BY <1>1, InductiveHolds, PTL

\* FailedCallsChangeNothing: a call that throws leaves the file system as it
\* was, though mkdir, rename, copy and open make, insert or remove before they
\* can fail; only write_file (which copies files, too) and writev keep a part.
THEOREM FailedCallsDoNothing == Spec => FailedCallsChangeNothing
<1>1. ASSUME Inductive, [Next]_vars
      PROVE  [last'.error # Ok /\ last'.call[1] \notin {"write_file", "writev"} => vfs' = vfs]_vars
  BY <1>1, NextIsGood
<1> QED BY <1>1, InductiveHolds, PTL DEF Spec, FailedCallsChangeNothing

===============================================================================
