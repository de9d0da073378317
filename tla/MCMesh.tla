-------------------------------- MODULE MCMesh --------------------------------
(***************************************************************************)
(* Instances of MeshNode for TLC.                                          *)
(***************************************************************************)
EXTENDS MeshNode, TLC

CONSTANTS a, b, c, d,       \* the nodes
          xa, xb, xc, xd,   \* their addresses
          g1, g2            \* message ids

Home == (a :> xa) @@ (b :> xb) @@ (c :> xc) @@ (d :> xd)

\* Every node has its own address.
OwnAddress == [n \in Node |-> {Home[n]}]

\* c comes where b was.
ReusedAddress == [n \in Node |-> IF n = c THEN {xb} ELSE {Home[n]}]

Both(S) == S \cup {<<l[2], l[1]>> : l \in S}

\* a and b are connected to each other and to c, and d only to c: from a, d
\* is two hops away, or three when c hears of it from b first.
TriangleWithTail == Both({<<a, b>>, <<a, c>>, <<b, c>>, <<c, d>>})

Pair == Both({<<a, b>>})
=============================================================================
