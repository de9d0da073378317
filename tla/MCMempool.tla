------------------------------- MODULE MCMempool -------------------------------
(***************************************************************************)
(* Instances of DistributedMempool for TLC: an author and two peers.       *)
(***************************************************************************)
EXTENDS DistributedMempool, TLC

CONSTANTS a, b, c,       \* the nodes; a is the author
          t1,            \* the task
          k1, k2, k3     \* calls of claim_task

MCAuthor == [t \in Task |-> a]

\* Everybody hears everybody.
FullMesh == [o \in Node |-> [n \in Node |-> Node \ {n}]]

\* The author's packets reach everybody directly, nobody relays.
Star == [o \in Node |-> [n \in Node |-> {o} \ {n}]]

\* a -- b -- c: gossip of a reaches c through b, and back.
Line == [o \in Node |-> [n \in Node |->
           IF n = b THEN {o} \ {b} ELSE IF o = n THEN {} ELSE {b}]]

\* Two calls at b (a retry, or two callers at once) and one at c.
RetryCallNode == [k \in Call |-> IF k = k3 THEN c ELSE b]

\* The author claims for itself while b and c ask.
OwnCallNode == [k \in Call |-> CASE k = k1 -> a [] k = k2 -> b [] k = k3 -> c]

MCCallTask == [k \in Call |-> t1]
\* The author claims for itself while b asks, and asks again.
MixedCallNode == [k \in Call |-> IF k = k1 THEN a ELSE b]
=============================================================================
