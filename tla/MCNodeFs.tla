-------------------------------- MODULE MCNodeFs -------------------------------
(* Two names in /tmp, the file of the bundle and a device that is full.     *)
EXTENDS NodeFs
A == [absolute |-> TRUE, parts |-> <<"tmp", "a">>]
B == [absolute |-> FALSE, parts |-> <<"..", "tmp", "b">>]
X == [absolute |-> FALSE, parts |-> <<"x">>]
Full == [absolute |-> TRUE, parts |-> <<"dev", "full">>]
Tmp  == [absolute |-> TRUE, parts |-> <<"tmp">>]
Bundle == [absolute |-> FALSE, parts |-> <<>>]
Away == [absolute |-> TRUE, parts |-> <<"etc">>]

MCInputs == {A, Full}
Flag(first, plus, exclusive) == [first |-> first, plus |-> plus, exclusive |-> exclusive]
MCOpenFlags == {Flag("w", FALSE, FALSE), Flag("a", TRUE, FALSE)}
All == [offset |-> 0, length |-> Whole]
MCPathCalls ==
  {[op |-> "open", form |-> "callback", input |-> A, flags |-> Flag("w", TRUE, FALSE)],
   [op |-> "open", form |-> "sync", input |-> B, flags |-> Flag("r", TRUE, TRUE)]}
  \cup {[op |-> "writeFile", form |-> "promise", input |-> B, data |-> <<1>>,
         flags |-> Flag("w", FALSE, FALSE)],
        [op |-> "writeFile", form |-> "callback", input |-> B, data |-> <<1, 1>>,
         flags |-> Flag("a", FALSE, FALSE)],
        [op |-> "access", form |-> "sync", input |-> X, mode |-> {"write"}],
        [op |-> "exists", form |-> "callback", input |-> Away],
        [op |-> "touch", form |-> "promise", input |-> A, follow |-> TRUE],
        [op |-> "stat", form |-> "promise", input |-> A, follow |-> FALSE],
        [op |-> "readlink", form |-> "callback", input |-> B],
        [op |-> "realpath", form |-> "sync", input |-> B],
        [op |-> "readdir", form |-> "promise", input |-> Tmp, options |-> {}],
        [op |-> "opendir", form |-> "callback", input |-> Bundle, options |-> {"recursive"}],
        [op |-> "glob", form |-> "sync", input |-> A, pattern |-> <<"*">>, exclude |-> {}],
        [op |-> "glob", form |-> "promise", input |-> Tmp, pattern |-> <<"*">>,
         exclude |-> {<<"b">>}],
        [op |-> "readFile", form |-> "promise", input |-> X],
        [op |-> "blob", form |-> "promise", input |-> Bundle],
        [op |-> "appendFile", form |-> "promise", input |-> A, data |-> <<1>>],
        [op |-> "truncate", form |-> "callback", input |-> X, size |-> 0],
        [op |-> "unlink", form |-> "sync", input |-> A],
        [op |-> "rm", form |-> "promise", input |-> B, options |-> {"force"}],
        [op |-> "rmdir", form |-> "sync", input |-> B, options |-> {}],
        [op |-> "mkdir", form |-> "callback", input |-> B, options |-> {"recursive"}],
        [op |-> "mkdtemp", form |-> "sync", input |-> X, name |-> "ab"],
        [op |-> "symlink", form |-> "promise", target |-> A, input |-> X],
        [op |-> "rename", form |-> "callback", input |-> A, to |-> B],
        [op |-> "link", form |-> "sync", input |-> A, to |-> Full],
        [op |-> "copyFile", form |-> "promise", input |-> A, to |-> B, exclusive |-> TRUE],
        [op |-> "cp", form |-> "callback", input |-> Bundle, to |-> A, options |-> {"recursive"},
         forced |-> TRUE]}
MCFileCalls ==
  {[op |-> "close"], [op |-> "readFile"],
   [op |-> "ftruncate", size |-> 0],
   [op |-> "read", size |-> 1, window |-> All, position |-> 0],
   [op |-> "readv", sizes |-> <<1, 1>>, position |-> -2],
   [op |-> "write", data |-> <<0, 1>>, window |-> [offset |-> 1, length |-> 1], position |-> Here],
   [op |-> "writev", buffers |-> <<<<1>>, <<1>>>>, position |-> 0],
   [op |-> "writeFile", data |-> <<1>>, append |-> FALSE]}
MCSpelling == [name \in {"a", "b", "ab", "x"} |->
                 IF name = "ab" THEN <<"a", "b">> ELSE <<name>>]
MCMeaning ==
  <<"*", "*", "/", "b">>           :> {<<<<"*", "*">>, <<"b">>>>}
  @@ <<"{", "?", ",", "b", "/", "*", "b", "}">> :> {<<<<"?">>>>, <<<<"b">>, <<"*", "b">>>>}

\* A state without the last call and without the numbers of closed files, and up
\* to the numbers of the two nodes that a worker makes.
View ==
  LET tmp   == vfs.nodes[-1].entries
      first == IF "a" \in DOMAIN tmp THEN "a" ELSE "b"
      Swaps == first \in DOMAIN tmp /\ tmp[first] = 2
      To(n) == IF Swaps /\ n \in {1, 2} THEN 3 - n ELSE n
      Dir(node) == IF node.kind = "directory"
                   THEN [node EXCEPT !.entries = [name \in DOMAIN @ |-> To(@[name])]] ELSE node
      live  == DOMAIN vfs.open
      Obj(x) == IF x.kind \in {"dir", "glob"} THEN x
                ELSE IF x.fd \in live \/ (x.kind = "writer" /\ x.alone)
                THEN [x EXCEPT !.node = To(@)] ELSE [x EXCEPT !.fd = NoFd, !.node = 0]
  IN <<{<<To(n), Dir(vfs.nodes[n])>> : n \in DOMAIN vfs.nodes},
       [d \in live |-> [vfs.open[d] EXCEPT !.node = To(@)]], vfs.next,
       [o \in DOMAIN objects |-> Obj(objects[o])],
       [i \in DOMAIN answers |-> answers[i] \cap live], numbers \cap live, lost \cap live>>
================================================================================
