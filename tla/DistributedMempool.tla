-------------------------- MODULE DistributedMempool --------------------------
(***************************************************************************)
(* The distributed task pool of src/mempool/src/distributed.rs: every node *)
(* keeps a pool of task copies and exchanges packets over the UDP mesh.    *)
(* The author of a task announces it by gossip; peers request the payload  *)
(* from whoever relayed the announcement; a worker claims a task from its  *)
(* author, which answers and gossips the accepted claim; a worker's result *)
(* is sent to the author and gossiped.                                     *)
(*                                                                         *)
(* Each node runs one event loop (handle_packet, one packet at a time),    *)
(* interleaved with callers of submit_and_announce, claim_task and         *)
(* complete_task in other tokio tasks.  A packet may be lost (it is never  *)
(* received), reordered (any sent packet may be received next) and, when   *)
(* it is a direct one, duplicated; the mesh's dedup filter delivers gossip *)
(* at most once.                                                           *)
(***************************************************************************)
EXTENDS TaskStates

CONSTANTS
  Task,          \* task ids; an id is the hash of author and content, so ...
  Author,        \* ... Author[t] and whether the payload is empty are fixed
  EmptyPayload,  \* the tasks whose payload has no bytes
  Relay,         \* Relay[o][n]: neighbours through which gossip of o reaches n
  Call,          \* calls of claim_task; call c is made at CallNode[c] ...
  CallNode, CallTask,   \* ... for CallTask[c]
  NoCall,
  All,           \* the destination of a gossip packet
  MayDuplicate,  \* whether the network may repeat a direct packet
  MayLag,        \* whether the event channel may overflow and drop a packet
  Stoppable,     \* the nodes on which stop() may be called
  Worker         \* the nodes whose application calls complete_task

ASSUME ConstantsAssumption ==
  /\ Author \in [Task -> Node]
  /\ EmptyPayload \subseteq Task
  /\ Relay \in [Node -> [Node -> SUBSET Node]]
  /\ CallNode \in [Call -> Node]
  /\ CallTask \in [Call -> Task]
  /\ NoCall \notin Call
  /\ All \notin Node
  /\ MayDuplicate \in BOOLEAN
  /\ MayLag \in BOOLEAN
  /\ Stoppable \subseteq Node
  /\ Worker \subseteq Node

VARIABLES
  pool,      \* pool[n][t]: n's copy of t
  requests,  \* requests[n][t]: nodes n owes the payload (pending_requests)
  waiter,    \* waiter[n][t]: call whose oneshot sender is in pending_claims
  phase,     \* phase[c]: where call c is
  answer,    \* answer[c]: what c's oneshot channel holds
  loop,      \* loop[n]: the event loop of n
  sent,      \* every packet put on the wire
  seen,      \* seen[n]: the packets n's event loop has been given
  granted    \* granted[t]: whom the author's pool has accepted (history)

vars == <<pool, requests, waiter, phase, answer, loop, sent, seen, granted>>

poolVars == <<pool, granted>>
callVars == <<waiter, phase, answer>>

(* Every claim is a packet of its own, and so is the answer to it: "call"   *)
(* tells them apart (the timestamp and the nonce), and nobody reads it.    *)
Announce(t)    == [type |-> "Announce", task |-> t, src |-> Author[t], dst |-> All]
Request(t,n,p) == [type |-> "Request", task |-> t, src |-> n, dst |-> p]
Data(t,n,p)    == [type |-> "Data", task |-> t, src |-> n, dst |-> p]
ClaimMsg(c)    == [type |-> "Claim", task |-> CallTask[c], src |-> CallNode[c],
                   dst |-> Author[CallTask[c]], call |-> c]
Result(t,n,d)  == [type |-> "Result", task |-> t, src |-> n, dst |-> d]
Ack(t,n,d,ok,c) == [type |-> "Ack", task |-> t, src |-> Author[t], dst |-> d,
                    claimant |-> n, accepted |-> ok, call |-> c]

Message ==
  [type : {"Announce", "Request", "Data", "Result"},
   task : Task, src : Node, dst : Node \cup {All}]
  \cup
  [type : {"Claim"}, task : Task, src : Node, dst : Node, call : Call]
  \cup
  [type : {"Ack"}, task : Task, src : Node, dst : Node \cup {All},
   claimant : Node, accepted : BOOLEAN, call : Call \cup {NoCall}]

Live     == {"sending", "waiting", "expired"}
Returned == {"ok", "rejected", "timeout", "error"}

TypeOK ==
  /\ pool \in [Node -> [Task -> TaskCopy]]
  /\ requests \in [Node -> [Task -> SUBSET Node]]
  /\ waiter \in [Node -> [Task -> Call \cup {NoCall}]]
  /\ phase \in [Call -> {"idle"} \cup Live \cup Returned]
  /\ answer \in [Call -> {"none", "ok", "rejected", "dropped"}]
  /\ loop \in [Node -> {"running", "stopping", "stopped"}]
  /\ sent \subseteq Message
  /\ seen \in [Node -> SUBSET Message]
  /\ granted \in [Task -> SUBSET Node]

Init ==
  /\ pool = [n \in Node |-> [t \in Task |-> Absent]]
  /\ requests = [n \in Node |-> [t \in Task |-> {}]]
  /\ waiter = [n \in Node |-> [t \in Task |-> NoCall]]
  /\ phase = [c \in Call |-> "idle"]
  /\ answer = [c \in Call |-> "none"]
  /\ loop = [n \in Node |-> "running"]
  /\ sent = {}
  /\ seen = [n \in Node |-> {}]
  /\ granted = [t \in Task |-> {}]

-----------------------------------------------------------------------------
(* Callers *)

(* submit_and_announce at the author. *)
SubmitAndAnnounce(t) ==
  LET copy == pool[Author[t]][t]
  IN /\ Submitted(copy, Available) # copy
     /\ pool' = [pool EXCEPT ![Author[t]][t] = Submitted(copy, Available)]
     /\ sent' = sent \cup {Announce(t)}
     /\ UNCHANGED <<requests, callVars, loop, seen, granted>>

(* claim_task of an unknown task: TaskNotFound. *)
ClaimUnknown(c) ==
  /\ phase[c] = "idle"
  /\ pool[CallNode[c]][CallTask[c]] = Absent
  /\ phase' = [phase EXCEPT ![c] = "error"]
  /\ UNCHANGED <<poolVars, requests, waiter, answer, loop, sent, seen>>

(* claim_task at the author: the pool decides at once, and an accepted      *)
(* claim is gossiped.                                                      *)
ClaimOwn(c) ==
  LET n == CallNode[c]
      t == CallTask[c]
      copy == pool[n][t]
  IN /\ phase[c] = "idle"
     /\ copy # Absent
     /\ Author[t] = n
     /\ pool' = [pool EXCEPT ![n][t] = Claim(copy, n)]
     /\ IF Claim(copy, n) # copy
          THEN /\ phase' = [phase EXCEPT ![c] = "ok"]
               /\ granted' = [granted EXCEPT ![t] = @ \cup {n}]
               /\ sent' = sent \cup {Ack(t, n, All, TRUE, NoCall)}
          ELSE /\ phase' = [phase EXCEPT ![c] = "error"]
               /\ UNCHANGED <<granted, sent>>
     /\ UNCHANGED <<requests, waiter, answer, loop, seen>>

(* Removing or replacing the registered sender of another call drops it,    *)
(* and the call waiting on it sees its channel closed.                     *)
DropSender(w) ==
  answer' = [c \in Call |->
               IF c = w /\ answer[c] = "none" THEN "dropped" ELSE answer[c]]

(* claim_task of someone else's task: register the oneshot sender. *)
RegisterClaim(c) ==
  LET n == CallNode[c]
      t == CallTask[c]
  IN /\ phase[c] = "idle"
     /\ pool[n][t] # Absent
     /\ Author[t] # n
     /\ phase' = [phase EXCEPT ![c] = "sending"]
     /\ waiter' = [waiter EXCEPT ![n][t] = c]
     /\ DropSender(waiter[n][t])
     /\ UNCHANGED <<poolVars, requests, loop, sent, seen>>

(* Send the claim to the author and wait ... *)
SendClaim(c) ==
  /\ phase[c] = "sending"
  /\ phase' = [phase EXCEPT ![c] = "waiting"]
  /\ sent' = sent \cup {ClaimMsg(c)}
  /\ UNCHANGED <<poolVars, requests, waiter, answer, loop, seen>>

(* ... or fail to (the peer table does not know the author, or the socket   *)
(* refuses) and unregister whatever sender is there by now.                *)
SendClaimFails(c) ==
  LET n == CallNode[c]
      t == CallTask[c]
  IN /\ phase[c] = "sending"
     /\ phase' = [phase EXCEPT ![c] = "error"]
     /\ waiter' = [waiter EXCEPT ![n][t] = NoCall]
     /\ DropSender(waiter[n][t])
     /\ UNCHANGED <<poolVars, requests, loop, sent, seen>>

(* Wrong variant: the timer runs only once an answer is there. *)
ClaimTimerTooLate(c) ==
  /\ phase[c] = "waiting"
  /\ answer[c] # "none"
  /\ phase' = [phase EXCEPT ![c] = "expired"]
  /\ UNCHANGED <<poolVars, requests, waiter, answer, loop, sent, seen>>

(* select! takes the sleep branch: the receiver is gone, an answer already  *)
(* in the channel with it, but the sender is still registered.             *)
ClaimTimerFires(c) ==
  /\ phase[c] = "waiting"
  /\ phase' = [phase EXCEPT ![c] = "expired"]
  /\ UNCHANGED <<poolVars, requests, waiter, answer, loop, sent, seen>>

(* Wrong variant: the timed-out call leaves its sender registered. *)
AbandonKeepsSender(c) ==
  /\ phase[c] = "expired"
  /\ phase' = [phase EXCEPT ![c] = "timeout"]
  /\ UNCHANGED <<poolVars, requests, waiter, answer, loop, sent, seen>>

(* The sleep branch gets the lock and unregisters by task id. *)
AbandonClaim(c) ==
  LET n == CallNode[c]
      t == CallTask[c]
  IN /\ phase[c] = "expired"
     /\ phase' = [phase EXCEPT ![c] = "timeout"]
     /\ waiter' = [waiter EXCEPT ![n][t] = NoCall]
     /\ DropSender(waiter[n][t])
     /\ UNCHANGED <<poolVars, requests, loop, sent, seen>>

(* Wrong variant: a closed channel is read as a refusal. *)
ClosedMeansRejected(c) ==
  /\ phase[c] = "waiting"
  /\ answer[c] # "none"
  /\ phase' = [phase EXCEPT ![c] = IF answer[c] = "dropped" THEN "rejected" ELSE answer[c]]
  /\ UNCHANGED <<poolVars, requests, waiter, answer, loop, sent, seen>>

(* select! takes the channel branch. *)
ClaimReturns(c) ==
  /\ phase[c] = "waiting"
  /\ answer[c] # "none"
  /\ phase' = [phase EXCEPT ![c] = IF answer[c] = "dropped" THEN "timeout" ELSE answer[c]]
  /\ UNCHANGED <<poolVars, requests, waiter, answer, loop, sent, seen>>

(* complete_task: whoever claimed the copy, mark it done, tell the author   *)
(* and gossip.                                                             *)
CompleteTask(n, t) ==
  LET copy == pool[n][t]
  IN /\ Complete(copy) # copy
     /\ pool' = [pool EXCEPT ![n][t] = Complete(copy)]
     /\ sent' = sent \cup {Result(t, n, All)}
                     \cup (IF Author[t] = n THEN {} ELSE {Result(t, n, Author[t])})
     /\ UNCHANGED <<requests, callVars, loop, seen, granted>>

(* stop(): the loop may be blocked in recv, past its test of the flag, and  *)
(* then handles one packet more.                                           *)
Stop(n) ==
  /\ n \in Stoppable
  /\ loop[n] = "running"
  /\ \E l \in {"stopping", "stopped"} : loop' = [loop EXCEPT ![n] = l]
  /\ UNCHANGED <<poolVars, requests, callVars, sent, seen>>

-----------------------------------------------------------------------------
(* The event loop: handle_packet *)

(* Packet m can reach n with "via" as its from_addr: a direct packet from   *)
(* its sender, gossip from a neighbour that has it.  A relay forwards in    *)
(* the mesh, before its own mempool sees the packet, but its event channel  *)
(* is a FIFO: what n sends back about m is behind m there, so nothing is    *)
(* lost by letting the relay's event loop go first.                        *)
Arrives(n, m, via) ==
  \/ /\ m.dst = n
     /\ via = m.src
     /\ m \notin seen[n] \/ MayDuplicate
  \/ /\ m.dst = All
     /\ m.src # n
     /\ m \notin seen[n]
     /\ via \in Relay[m.src][n]
     /\ via = m.src \/ m \in seen[via]

(* The event loop of n takes m, and ends if stop() was called before. *)
Receive(n, m, via) ==
  /\ m \in sent
  /\ Arrives(n, m, via)
  /\ loop[n] # "stopped"
  /\ seen' = [seen EXCEPT ![n] = @ \cup {m}]
  /\ loop' = [loop EXCEPT ![n] = IF @ = "stopping" THEN "stopped" ELSE @]

(* A new task is registered as Pending and its payload requested from       *)
(* whoever passed the announcement on.                                     *)
HandleAnnounce(n, m, via) ==
  /\ m.type = "Announce"
  /\ Receive(n, m, via)
  /\ IF pool[n][m.task] = Absent
       THEN /\ pool' = [pool EXCEPT ![n][m.task] = Submitted(@, Pending)]
            /\ sent' = sent \cup {Request(m.task, n, via)}
       ELSE UNCHANGED <<pool, sent>>
  /\ UNCHANGED <<requests, callVars, granted>>

HasPayload(n, t) == pool[n][t].status # "Pending" /\ t \notin EmptyPayload

(* Wrong variant: a request that comes before the payload is forgotten. *)
ForgetEarlyRequest(n, m, via) ==
  LET t == m.task
  IN /\ m.type = "Request"
     /\ Receive(n, m, via)
     /\ sent' = IF pool[n][t] # Absent /\ HasPayload(n, t)
                  THEN sent \cup {Data(t, n, m.src)}
                  ELSE sent
     /\ UNCHANGED <<requests, poolVars, callVars>>

(* Answer with the payload, or remember who asked until it arrives.  What   *)
(* the code asks is whether the payload is empty.                          *)
HandleRequest(n, m, via) ==
  LET t == m.task
  IN /\ m.type = "Request"
     /\ Receive(n, m, via)
     /\ \/ /\ pool[n][t] = Absent
           /\ UNCHANGED <<sent, requests>>
        \/ /\ pool[n][t] # Absent
           /\ HasPayload(n, t)
           /\ sent' = sent \cup {Data(t, n, m.src)}
           /\ UNCHANGED requests
        \/ /\ pool[n][t] # Absent
           /\ ~HasPayload(n, t)
           /\ requests' = [requests EXCEPT ![n][t] = @ \cup {m.src}]
           /\ UNCHANGED sent
     /\ UNCHANGED <<poolVars, callVars>>

(* The payload resolves a Pending (or unknown) task, and is passed on to    *)
(* everyone who asked meanwhile.                                           *)
HandleData(n, m, via) ==
  LET t == m.task
  IN /\ m.type = "Data"
     /\ Receive(n, m, via)
     /\ IF pool[n][t] \in {Absent, Pending}
          THEN /\ pool' = [pool EXCEPT ![n][t] =
                             IF @ = Absent THEN Submitted(@, Available) ELSE SetPayload(@)]
               /\ sent' = sent \cup {Data(t, n, p) : p \in requests[n][t]}
               /\ requests' = [requests EXCEPT ![n][t] = {}]
          ELSE UNCHANGED <<pool, sent, requests>>
     /\ UNCHANGED <<callVars, granted>>

(* The author's pool decides between claimants; the answer goes to the      *)
(* claimant, an acceptance to everybody.                                   *)
HandleClaim(n, m, via) ==
  LET t == m.task
      claimant == m.src
      copy == pool[n][t]
      accepted == Claim(copy, claimant) # copy
  IN /\ m.type = "Claim"
     /\ Receive(n, m, via)
     /\ IF copy # Absent /\ Author[t] = n
          THEN /\ pool' = [pool EXCEPT ![n][t] = Claim(copy, claimant)]
               /\ granted' = IF accepted
                               THEN [granted EXCEPT ![t] = @ \cup {claimant}]
                               ELSE granted
               /\ sent' = sent \cup {Ack(t, claimant, claimant, accepted, m.call)}
                               \cup (IF accepted THEN {Ack(t, claimant, All, TRUE, NoCall)} ELSE {})
          ELSE UNCHANGED <<pool, granted, sent>>
     /\ UNCHANGED <<requests, callVars>>

(* An acceptance marks the local copy.  If a call waits for this task, the  *)
(* answer is its answer, whoever the claimant is.                          *)
HandleAck(n, m, via) ==
  LET t == m.task
      w == waiter[n][t]
  IN /\ m.type = "Ack"
     /\ Receive(n, m, via)
     /\ pool' = IF m.accepted
                  THEN [pool EXCEPT ![n][t] = Claim(@, m.claimant)]
                  ELSE pool
     /\ waiter' = [waiter EXCEPT ![n][t] = NoCall]
     /\ answer' = [c \in Call |-> IF c = w
                                    THEN IF m.accepted THEN "ok" ELSE "rejected"
                                    ELSE answer[c]]
     /\ UNCHANGED <<phase, requests, sent, granted>>

(* A result completes a claimed copy and is ignored by any other.  No code  *)
(* in the repository sends a failure.                                      *)
HandleResult(n, m, via) ==
  /\ m.type = "Result"
  /\ Receive(n, m, via)
  /\ pool' = [pool EXCEPT ![n][m.task] = Complete(@)]
  /\ UNCHANGED <<requests, callVars, sent, granted>>

Handle(n, m, via) ==
  \/ HandleAnnounce(n, m, via)
  \/ HandleRequest(n, m, via)
  \/ HandleData(n, m, via)
  \/ HandleClaim(n, m, via)
  \/ HandleAck(n, m, via)
  \/ HandleResult(n, m, via)

(* A packet the mesh has relayed but the event loop never handles: its      *)
(* channel overflowed (Lagged), or the loop has ended.                     *)
Miss(n, m, via) ==
  /\ m \in sent
  /\ Arrives(n, m, via)
  /\ m \notin seen[n]
  /\ MayLag \/ loop[n] = "stopped"
  /\ seen' = [seen EXCEPT ![n] = @ \cup {m}]
  /\ UNCHANGED <<poolVars, requests, callVars, loop, sent>>

Next ==
  \/ \E t \in Task : SubmitAndAnnounce(t)
  \/ \E c \in Call : \/ ClaimUnknown(c)
                     \/ ClaimOwn(c)
                     \/ RegisterClaim(c)
                     \/ SendClaim(c)
                     \/ SendClaimFails(c)
                     \/ ClaimTimerFires(c)
                     \/ AbandonClaim(c)
                     \/ ClaimReturns(c)
  \/ \E n \in Worker, t \in Task : CompleteTask(n, t)
  \/ \E n \in Node : Stop(n)
  \/ \E n \in Node, via \in Node, m \in sent :
        Handle(n, m, via) \/ Miss(n, m, via)

Spec == Init /\ [][Next]_vars

(* claim_task runs to its end: the send resolves, the timer fires, the lock *)
(* is free whenever no handler runs.                                       *)
ClaimFairness ==
  \A c \in Call : /\ WF_vars(SendClaim(c) \/ SendClaimFails(c))
                  /\ WF_vars(ClaimTimerFires(c) \/ ClaimReturns(c))
                  /\ WF_vars(AbandonClaim(c))

(* A network that loses nothing: every packet is handled once at each node  *)
(* it can reach.  No fairness on duplicates, which would be a retry.       *)
HandleOnce(n, m) == m \notin seen[n] /\ \E via \in Node : Handle(n, m, via)

LiveSpec == Spec /\ ClaimFairness

ReliableSpec ==
  LiveSpec /\ \A n \in Node : WF_vars(\E m \in sent : HandleOnce(n, m))

-----------------------------------------------------------------------------
(* Properties *)

(* The author's pool serialises the claims of the whole mesh: it accepts at *)
(* most one claimant of a task, and a copy that any node shows as claimed   *)
(* names that claimant, however acknowledgements travel (pool.rs claim,     *)
(* TaskClaim and TaskClaimAck of handle_packet).                           *)
OneOwner ==
  \A t \in Task :
    /\ \A a, b \in granted[t] : a = b
    /\ \A n \in Node : pool[n][t].status = "Claimed" => pool[n][t].by \in granted[t]

(* The copy of a task is done at a node only if its author gave the task    *)
(* away: no order of results, acknowledgements and payloads completes an    *)
(* unclaimed task.                                                         *)
DoneMeansGranted ==
  \A n \in Node, t \in Task : pool[n][t].status = "Completed" => granted[t] # {}

(* A copy never goes back: what is claimed is not available again nor       *)
(* claimed by someone else, what is completed stays so.  Late payloads and  *)
(* repeated acknowledgements are the danger (set_payload looks at no state).*)
NoStepBack ==
  [][\A n \in Node, t \in Task :
       /\ pool[n][t].status = "Claimed" => pool'[n][t] \in {pool[n][t], Completed}
       /\ pool[n][t].status = "Completed" => pool'[n][t] = pool[n][t]]_vars

(* A claim fails with a refusal only if the author has given the task to    *)
(* somebody, and succeeds only then (claim_task, TaskClaimAck).            *)
AnswerMeansGranted ==
  \A c \in Call : phase[c] \in {"ok", "rejected"} => granted[CallTask[c]] # {}

(* pending_claims holds no sender of a call that has returned, and no       *)
(* sender that has been used: the table does not leak, and an answer is not *)
(* swallowed by a dead entry (claim_task's three ways out).                *)
NoStaleSender ==
  \A n \in Node, t \in Task :
    waiter[n][t] # NoCall =>
      /\ phase[waiter[n][t]] \in Live
      /\ answer[waiter[n][t]] = "none"

(* Every call of claim_task returns, with or without the network's help. *)
ClaimTaskReturns ==
  \A c \in Call : phase[c] \in Live ~> phase[c] \in Returned

(* If no packet is lost, every peer that gossip of the author reaches gets  *)
(* the payload, in whatever order announcements, requests and payloads      *)
(* cross; a peer asked before it has the payload owes it                    *)
(* (pending_requests).                                                     *)
PayloadSpreads ==
  \A t \in Task \ EmptyPayload, n \in Node :
    Relay[Author[t]][n] # {} =>
      (pool[Author[t]][t] # Absent ~> pool[n][t].status \notin {"Absent", "Pending"})

(* How far a task is, seen over all nodes, and whom it was given to. *)
Stage(t) ==
  IF \E n \in Node : pool[n][t].status = "Completed" THEN "done"
  ELSE IF granted[t] # {} THEN "owned"
  ELSE IF pool[Author[t]][t] # Absent THEN "open" ELSE "unknown"

OneOf(S) == IF S = {} THEN NoNode ELSE CHOOSE n \in S : TRUE

stages == [t \in Task |-> Stage(t)]
owners == [t \in Task |-> OneOf(granted[t])]

Lifecycle == INSTANCE TaskLifecycle WITH stage <- stages, owner <- owners

(* The pool as a whole is the task lifecycle. *)
FollowsLifecycle == Lifecycle!Spec

-----------------------------------------------------------------------------
(* What the repository says and the code does not do *)

(* A claim that returns Ok was accepted for the node that made it: "Second  *)
(* worker on Node D attempts to claim the same task -> must fail!"          *)
(* (src/mempool/tests/distributed_tests.rs:136).                           *)
OkMeansMine ==
  \A c \in Call : phase[c] = "ok" => CallNode[c] \in granted[CallTask[c]]
=============================================================================
