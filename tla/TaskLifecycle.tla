----------------------------- MODULE TaskLifecycle -----------------------------
(***************************************************************************)
(* What the distributed pool promises about a task, whatever the network   *)
(* does: it is offered once, given to one node for good, and done only     *)
(* after that.                                                             *)
(***************************************************************************)
CONSTANTS Node, NoNode, Task

VARIABLES stage,  \* stage[t]: how far the task is, seen over all nodes
          owner   \* owner[t]: the node it was given to

Init == /\ stage = [t \in Task |-> "unknown"]
        /\ owner = [t \in Task |-> NoNode]

Offer(t) == /\ stage[t] = "unknown"
            /\ stage' = [stage EXCEPT ![t] = "open"]
            /\ UNCHANGED owner

Grant(t, n) == /\ stage[t] = "open"
               /\ stage' = [stage EXCEPT ![t] = "owned"]
               /\ owner' = [owner EXCEPT ![t] = n]

Finish(t) == /\ stage[t] = "owned"
             /\ stage' = [stage EXCEPT ![t] = "done"]
             /\ UNCHANGED owner

Next == \E t \in Task : Offer(t) \/ Finish(t) \/ \E n \in Node : Grant(t, n)

Spec == Init /\ [][Next]_<<stage, owner>>
=============================================================================
