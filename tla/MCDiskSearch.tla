---------------------------- MODULE MCDiskSearch ---------------------------
EXTENDS DiskSearch

Graph(a, b, c, d) == (0 :> a) @@ (1 :> b) @@ (2 :> c) @@ (3 :> d)

\* Two branches, one of them longer, and a star.
MCGraphs == {Graph(<<1, 2>>, <<2>>, <<3>>, <<1>>), Graph(<<1, 2, 3>>, <<0>>, <<3>>, <<2>>)}

\* The approximate distances order the vertices in another way.
MCDistances ==
  {<<(0 :> 1) @@ (1 :> 2) @@ (2 :> 3) @@ (3 :> 0), (0 :> 3) @@ (1 :> 0) @@ (2 :> 2) @@ (3 :> 1)>>}

MCLayouts ==
  {[nodesPerSector |-> 2, sectorsPerNode |-> 1], [nodesPerSector |-> 0, sectorsPerNode |-> 2]}

MCQueries ==
  {[flat |-> FALSE, l |-> 2, k |-> 2, beam |-> 2, ioLimit |-> 3, accepts |-> {1, 2, 3}],
   [flat |-> TRUE, l |-> 3, k |-> 2, beam |-> 1, ioLimit |-> 1, accepts |-> 0 .. 3]}
============================================================================
