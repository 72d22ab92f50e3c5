-------------------------- MODULE MCVirtualFileSystem --------------------------
(* Two names in /tmp and two below, one file of the bundle and a device. *)
EXTENDS VirtualFileSystem
MCPaths == {<<"tmp", "a">>, <<"tmp", "b">>, <<"tmp", "a", "b">>, <<"tmp", "b", "b">>,
            <<"bundle", "x">>, <<"dev", "full">>}
MCTargets == {[absolute |-> TRUE, parts |-> <<"tmp", "a">>],
              [absolute |-> FALSE, parts |-> <<"..">>]}
MCFlags == {{"read"}, {"write", "create", "truncate"}, {"read", "create", "exclusive"}}
MCCopyOptions == {{"recursive", "force"}, {"recursive", "dereference", "error_on_exist"}}

\* A state up to the numbers of its nodes and descriptors and the last call: each node is the
\* set of its places.
View ==
  LET nodes == vfs.nodes
      named[N \in SUBSET (Seq(STRING) \X Int)] ==
        LET next == UNION {{<<Append(e[1], name), nodes[e[2]].entries[name]>> :
                              name \in DOMAIN nodes[e[2]].entries} :
                            e \in {x \in N : IsDirectory(nodes, x[2])}}
        IN IF next = {} THEN N ELSE N \cup named[next]
      all == named[{<<<<>>, Root>>}]
      Seen(n) == <<{e[1] : e \in {x \in all : x[2] = n}},
                   IF IsDirectory(nodes, n) THEN "directory" ELSE nodes[n]>>
  IN <<{Seen(n) : n \in DOMAIN nodes},
       {[vfs.open[d] EXCEPT !.node = Seen(@)] : d \in DOMAIN vfs.open}>>
================================================================================
