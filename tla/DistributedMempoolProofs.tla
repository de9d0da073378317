----------------------- MODULE DistributedMempoolProofs -----------------------
(***************************************************************************)
(* Proofs about DistributedMempool for any nodes, tasks, calls and relays. *)
(* The invariant IInv says what every packet and every pending call        *)
(* entitles its receiver to; the argument is that an author's copy leaves  *)
(* "Available" exactly when its first claim is granted, and that no packet *)
(* can make it available again.                                            *)
(***************************************************************************)
EXTENDS DistributedMempool, TLAPS

(* What a packet on the wire says about the pool: announcements come from   *)
(* the author, nobody sends the author its own payload or asks on its       *)
(* behalf, and an answer or a result stands for a granted claim.            *)
PacketInv ==
  \A m \in sent :
    /\ m.type = "Announce" => m.src = Author[m.task] /\ m.dst = All
    /\ m.type = "Request" => m.src # Author[m.task] /\ m.dst # All
    /\ m.type = "Data" => m.dst # Author[m.task] /\ m.dst # All
    /\ m.type = "Claim" => m.dst # All
    /\ m.type = "Ack" => /\ granted[m.task] # {}
                         /\ m.accepted => m.claimant \in granted[m.task]
    /\ m.type = "Result" => granted[m.task] # {}

(* The author's copy: on offer until the first grant, never after it. *)
AuthorInv ==
  \A t \in Task :
    IF granted[t] = {}
      THEN pool[Author[t]][t] \in {Absent, Available}
      ELSE pool[Author[t]][t].status \in {"Claimed", "Completed"}

RequestsInv == \A n \in Node, t \in Task : Author[t] \notin requests[n][t]

(* A registered sender belongs to a live call for that task at that node,   *)
(* whose channel is still empty.                                           *)
Registered(c, n, t) ==
  /\ CallNode[c] = n
  /\ CallTask[c] = t
  /\ phase[c] \in Live
  /\ answer[c] = "none"

WaiterInv ==
  \A n \in Node, t \in Task :
    waiter[n][t] \in Call => Registered(waiter[n][t], n, t)

CallInv ==
  \A c \in Call :
    /\ phase[c] = "idle" => answer[c] = "none"
    /\ answer[c] \in {"ok", "rejected"} => granted[CallTask[c]] # {}
    /\ phase[c] \in {"ok", "rejected"} => granted[CallTask[c]] # {}

IInv ==
  /\ PacketInv
  /\ AuthorInv
  /\ RequestsInv
  /\ WaiterInv
  /\ CallInv
  /\ OneOwner
  /\ DoneMeansGranted

-----------------------------------------------------------------------------
(* Type correctness *)

(* Each rule of the pool turns a copy into a copy. *)
LEMMA CopyTypes ==
  ASSUME NEW copy \in TaskCopy, NEW n \in Node
  PROVE  /\ Absent \in TaskCopy
         /\ Pending \in TaskCopy
         /\ Available \in TaskCopy
         /\ Completed \in TaskCopy
         /\ ClaimedBy(n) \in TaskCopy
         /\ Claim(copy, n) \in TaskCopy
         /\ Complete(copy) \in TaskCopy
         /\ Submitted(copy, Pending) \in TaskCopy
         /\ Submitted(copy, Available) \in TaskCopy
  BY DEF TaskCopy, Absent, Pending, Available, Completed, ClaimedBy,
         Unclaimed, Claim, Claimable, Complete, Completable, Submitted

(* A payload makes a new or a pending task available. *)
LEMMA Resolved ==
  ASSUME NEW copy \in {Absent, Pending}
  PROVE  (IF copy = Absent THEN Submitted(copy, Available) ELSE SetPayload(copy)) = Available
  BY DEF Submitted, SetPayload

(* The packets the code builds are packets. *)
LEMMA MessageTypes ==
  ASSUME NEW t \in Task, NEW n \in Node, NEW p \in Node, NEW ok \in BOOLEAN
  PROVE  /\ Announce(t) \in Message
         /\ Request(t, n, p) \in Message
         /\ Data(t, n, p) \in Message
         /\ Result(t, n, p) \in Message
         /\ Result(t, n, All) \in Message
         /\ \A c \in Call : /\ ClaimMsg(c) \in Message
                           /\ Ack(t, n, p, ok, c) \in Message
         /\ Ack(t, n, All, ok, NoCall) \in Message
  BY ConstantsAssumption
     DEF Message, Announce, Request, Data, ClaimMsg, Result, Ack

(* Changing one copy of a pool leaves a pool. *)
LEMMA PoolUpdate ==
  ASSUME TypeOK, NEW n \in Node, NEW t \in Task, NEW copy \in TaskCopy,
         pool' = pool \/ pool' = [pool EXCEPT ![n][t] = copy]
  PROVE  pool' \in [Node -> [Task -> TaskCopy]]
<1>1. pool \in [Node -> [Task -> TaskCopy]]
  BY DEF TypeOK
<1>2. [pool EXCEPT ![n][t] = copy] \in [Node -> [Task -> TaskCopy]]
  BY <1>1
<1>3. QED
  BY <1>1, <1>2

LEMMA RequestsUpdate ==
  ASSUME TypeOK, NEW n \in Node, NEW t \in Task, NEW S \in SUBSET Node,
         requests' = requests \/ requests' = [requests EXCEPT ![n][t] = S]
  PROVE  requests' \in [Node -> [Task -> SUBSET Node]]
<1>1. requests \in [Node -> [Task -> SUBSET Node]]
  BY DEF TypeOK
<1>2. [requests EXCEPT ![n][t] = S] \in [Node -> [Task -> SUBSET Node]]
  BY <1>1
<1>3. QED
  BY <1>1, <1>2

LEMMA GrantedUpdate ==
  ASSUME TypeOK, NEW n \in Node, NEW t \in Task,
         granted' = granted \/ granted' = [granted EXCEPT ![t] = granted[t] \cup {n}]
  PROVE  granted' \in [Task -> SUBSET Node]
<1>1. granted \in [Task -> SUBSET Node]
  BY DEF TypeOK
<1>2. [granted EXCEPT ![t] = granted[t] \cup {n}] \in [Task -> SUBSET Node]
  BY <1>1
<1>3. QED
  BY <1>1, <1>2

LEMMA InitType == Init => TypeOK
  BY NoNodeAssumption DEF Init, TypeOK, TaskCopy

(* Every step of a caller or of an event loop preserves the types. *)
LEMMA NextType == TypeOK /\ [Next]_vars => TypeOK'
<1> SUFFICES ASSUME TypeOK, [Next]_vars PROVE TypeOK'
  OBVIOUS
<1> USE ConstantsAssumption, NoNodeAssumption
<1>1. ASSUME NEW t \in Task, SubmitAndAnnounce(t) PROVE TypeOK'
  BY <1>1, CopyTypes, MessageTypes DEF SubmitAndAnnounce, TypeOK, callVars
<1>2. ASSUME NEW c \in Call, ClaimUnknown(c) PROVE TypeOK'
  BY <1>2 DEF ClaimUnknown, TypeOK, poolVars, Returned
<1>3. ASSUME NEW c \in Call, ClaimOwn(c) PROVE TypeOK'
  <2> DEFINE n == CallNode[c]
             t == CallTask[c]
  <2>1. n \in Node /\ t \in Task
    OBVIOUS
  <2>2. pool[n][t] \in TaskCopy
    BY <2>1 DEF TypeOK
  <2> HIDE DEF n, t
  <2>3. pool' \in [Node -> [Task -> TaskCopy]]
    <3>1. Claim(pool[n][t], n) \in TaskCopy
      BY <2>1, <2>2, CopyTypes
    <3>2. pool' = [pool EXCEPT ![n][t] = Claim(pool[n][t], n)]
      BY <1>3 DEF ClaimOwn, n, t
    <3>3. QED
      BY <2>1, <3>1, <3>2, PoolUpdate
  <2>4. sent' \subseteq Message
    <3>1. Ack(t, n, All, TRUE, NoCall) \in Message
      BY <2>1, MessageTypes
    <3>2. sent' = sent \/ sent' = sent \cup {Ack(t, n, All, TRUE, NoCall)}
      BY <1>3 DEF ClaimOwn, n, t
    <3>3. QED
      BY <3>1, <3>2 DEF TypeOK
  <2>5. granted' \in [Task -> SUBSET Node]
    <3>1. granted' = granted \/ granted' = [granted EXCEPT ![t] = granted[t] \cup {n}]
      BY <1>3 DEF ClaimOwn, n, t
    <3>2. QED
      BY <2>1, <3>1, GrantedUpdate
  <2>7. phase' \in [Call -> {"idle"} \cup Live \cup Returned]
    <3>1. \E p \in Returned : phase' = [phase EXCEPT ![c] = p]
      BY <1>3 DEF ClaimOwn, Returned
    <3>2. QED
      BY <3>1 DEF TypeOK
  <2>6. QED
    BY <1>3, <2>3, <2>4, <2>5, <2>7 DEF ClaimOwn, TypeOK
<1>4. ASSUME NEW c \in Call, RegisterClaim(c) PROVE TypeOK'
  BY <1>4 DEF RegisterClaim, DropSender, TypeOK, poolVars, Live
<1>5. ASSUME NEW c \in Call, SendClaim(c) PROVE TypeOK'
  BY <1>5, MessageTypes DEF SendClaim, TypeOK, poolVars, Live
<1>6. ASSUME NEW c \in Call, SendClaimFails(c) PROVE TypeOK'
  BY <1>6 DEF SendClaimFails, DropSender, TypeOK, poolVars, Returned
<1>7. ASSUME NEW c \in Call, ClaimTimerFires(c) PROVE TypeOK'
  BY <1>7 DEF ClaimTimerFires, TypeOK, poolVars, Live
<1>8. ASSUME NEW c \in Call, AbandonClaim(c) PROVE TypeOK'
  BY <1>8 DEF AbandonClaim, DropSender, TypeOK, poolVars, Returned
<1>9. ASSUME NEW c \in Call, ClaimReturns(c) PROVE TypeOK'
  BY <1>9 DEF ClaimReturns, TypeOK, poolVars, Returned
<1>10. ASSUME NEW n \in Node, NEW t \in Task, CompleteTask(n, t) PROVE TypeOK'
  BY <1>10, CopyTypes, MessageTypes DEF CompleteTask, TypeOK, callVars
<1>11. ASSUME NEW n \in Node, Stop(n) PROVE TypeOK'
  BY <1>11 DEF Stop, TypeOK, poolVars, callVars
<1>12. ASSUME NEW n \in Node, NEW m \in sent, NEW via \in Node, Handle(n, m, via)
       PROVE  TypeOK'
  <2> m \in Message /\ m.task \in Task /\ m.src \in Node
    BY DEF TypeOK, Message
  <2>0. ASSUME Receive(n, m, via)
        PROVE  /\ seen' \in [Node -> SUBSET Message]
               /\ loop' \in [Node -> {"running", "stopping", "stopped"}]
    BY <2>0 DEF Receive, TypeOK
  <2> DEFINE t == m.task
  <2>x. pool[n][t] \in TaskCopy
    BY DEF TypeOK
  <2>1. CASE HandleAnnounce(n, m, via)
    <3>1. pool' \in [Node -> [Task -> TaskCopy]]
      <4>1. Submitted(pool[n][t], Pending) \in TaskCopy
        BY <2>x, CopyTypes
      <4>2. pool' = pool \/ pool' = [pool EXCEPT ![n][t] = Submitted(pool[n][t], Pending)]
        BY <2>1 DEF HandleAnnounce
      <4>3. QED
        BY <4>1, <4>2, PoolUpdate
    <3>2. sent' \subseteq Message
      BY <2>1, MessageTypes DEF HandleAnnounce, TypeOK
    <3>3. QED
      BY <2>0, <2>1, <3>1, <3>2 DEF HandleAnnounce, TypeOK, callVars
  <2>2. CASE HandleRequest(n, m, via)
    <3>1. requests' \in [Node -> [Task -> SUBSET Node]]
      <4>1. requests[n][t] \cup {m.src} \in SUBSET Node
        BY DEF TypeOK
      <4>2. requests' = requests \/ requests' = [requests EXCEPT ![n][t] = requests[n][t] \cup {m.src}]
        BY <2>2 DEF HandleRequest
      <4>3. QED
        BY <4>1, <4>2, RequestsUpdate
    <3>2. sent' \subseteq Message
      BY <2>2, MessageTypes DEF HandleRequest, TypeOK
    <3>3. QED
      BY <2>0, <2>2, <3>1, <3>2 DEF HandleRequest, TypeOK, callVars, poolVars
  <2>3. CASE HandleData(n, m, via)
    <3>1. pool' \in [Node -> [Task -> TaskCopy]]
      <4>1. Available \in TaskCopy
        BY <2>x, CopyTypes
      <4>2. pool' = pool \/ pool' = [pool EXCEPT ![n][t] = Available]
        BY <2>3, Resolved DEF HandleData
      <4>3. QED
        BY <4>1, <4>2, PoolUpdate
    <3>2. sent' \subseteq Message
      BY <2>3, MessageTypes DEF HandleData, TypeOK
    <3>3. requests' \in [Node -> [Task -> SUBSET Node]]
      <4>1. requests' = requests \/ requests' = [requests EXCEPT ![n][t] = {}]
        BY <2>3 DEF HandleData
      <4>2. {} \in SUBSET Node
        OBVIOUS
      <4>3. QED
        BY <4>1, <4>2, RequestsUpdate
    <3>4. QED
      BY <2>0, <2>3, <3>1, <3>2, <3>3 DEF HandleData, TypeOK, callVars
  <2>4. CASE HandleClaim(n, m, via)
    <3>1. pool' \in [Node -> [Task -> TaskCopy]]
      <4>1. Claim(pool[n][t], m.src) \in TaskCopy
        BY <2>x, CopyTypes
      <4>2. pool' = pool \/ pool' = [pool EXCEPT ![n][t] = Claim(pool[n][t], m.src)]
        BY <2>4 DEF HandleClaim
      <4>3. QED
        BY <4>1, <4>2, PoolUpdate
    <3>2. sent' \subseteq Message
      <4>1. /\ \A ok \in BOOLEAN : Ack(t, m.src, m.src, ok, m.call) \in Message
            /\ Ack(t, m.src, All, TRUE, NoCall) \in Message
        <5>1. m.call \in Call
          BY <2>4 DEF HandleClaim, Message
        <5>2. QED
          BY <5>1, MessageTypes
      <4>2. \/ sent' = sent
            \/ \E ok \in BOOLEAN :
                 sent' \subseteq sent \cup {Ack(t, m.src, m.src, ok, m.call),
                                         Ack(t, m.src, All, TRUE, NoCall)}
        BY <2>4 DEF HandleClaim
      <4>3. QED
        BY <4>1, <4>2 DEF TypeOK
    <3>3. granted' \in [Task -> SUBSET Node]
      <4>1. granted' = granted \/ granted' = [granted EXCEPT ![t] = granted[t] \cup {m.src}]
        BY <2>4 DEF HandleClaim
      <4>2. QED
        BY <4>1, GrantedUpdate
    <3>4. QED
      BY <2>0, <2>4, <3>1, <3>2, <3>3 DEF HandleClaim, TypeOK, callVars
  <2>5. CASE HandleAck(n, m, via)
    <3>1. m.claimant \in Node /\ m.accepted \in BOOLEAN
      BY <2>5 DEF HandleAck, Message
    <3>2. pool' \in [Node -> [Task -> TaskCopy]]
      <4>1. Claim(pool[n][t], m.claimant) \in TaskCopy
        BY <2>x, <3>1, CopyTypes
      <4>2. \/ pool' = pool
            \/ pool' = [pool EXCEPT ![n][t] = Claim(pool[n][t], m.claimant)]
        BY <2>5 DEF HandleAck
      <4>3. QED
        BY <4>1, <4>2, PoolUpdate
    <3>3. waiter' \in [Node -> [Task -> Call \cup {NoCall}]]
      BY <2>5 DEF HandleAck, TypeOK
    <3>4. QED
      BY <2>0, <2>5, <3>2, <3>3 DEF HandleAck, TypeOK
  <2>6. CASE HandleResult(n, m, via)
    <3>1. pool' \in [Node -> [Task -> TaskCopy]]
      BY <2>6, CopyTypes DEF HandleResult, TypeOK
    <3>2. QED
      BY <2>0, <2>6, <3>1 DEF HandleResult, TypeOK, callVars
  <2>7. QED
    BY <1>12, <2>1, <2>2, <2>3, <2>4, <2>5, <2>6 DEF Handle
<1>13. ASSUME NEW n \in Node, NEW m \in sent, NEW via \in Node, Miss(n, m, via)
       PROVE  TypeOK'
  BY <1>13 DEF Miss, TypeOK, poolVars, callVars
<1>14. CASE UNCHANGED vars
  BY <1>14 DEF vars, TypeOK
<1>15. QED
  BY <1>1, <1>2, <1>3, <1>4, <1>5, <1>6, <1>7, <1>8, <1>9, <1>10, <1>11, <1>12,
     <1>13, <1>14 DEF Next

(* Every reachable state is well typed. *)
THEOREM TypeCorrect == Spec => []TypeOK
  BY InitType, NextType, PTL DEF Spec

-----------------------------------------------------------------------------
(* What one step does to the copies and the grants *)

(* The copies are told apart by their status. *)
LEMMA CopyRules ==
  ASSUME NEW copy \in TaskCopy, NEW n \in Node
  PROVE  /\ Available.status = "Available" /\ Pending.status = "Pending"
         /\ Absent.status = "Absent" /\ Completed.status = "Completed"
         /\ ClaimedBy(n).status = "Claimed" /\ ClaimedBy(n).by = n
         /\ copy.status = "Available" <=> copy = Available
         /\ copy.status = "Absent" <=> copy = Absent
         /\ copy.status = "Completed" <=> copy = Completed
         /\ copy.status = "Claimed" => copy.by \in Node /\ copy = ClaimedBy(copy.by)
         /\ Claim(copy, n) = IF copy = Available THEN ClaimedBy(n) ELSE copy
         /\ Complete(copy) = IF copy.status = "Claimed" THEN Completed ELSE copy
         /\ ClaimedBy(n) # Available
         /\ Absent # Available /\ Absent # Pending
  BY DEF TaskCopy, Absent, Pending, Available, Completed, ClaimedBy,
         Unclaimed, Claim, Claimable, Complete, Completable

(* The moves of a copy of t at n. *)
CopyStep(n, t) ==
  \/ pool'[n][t] = pool[n][t]
  \/ n # Author[t] /\ pool[n][t] = Absent /\ pool'[n][t] = Pending
  \/ n # Author[t] /\ pool[n][t] \in {Absent, Pending} /\ pool'[n][t] = Available
  \/ n = Author[t] /\ pool[n][t] = Absent /\ pool'[n][t] = Available
  \/ pool[n][t] = Available /\ \E x \in granted'[t] : pool'[n][t] = ClaimedBy(x)
  \/ pool[n][t].status = "Claimed" /\ pool'[n][t] = Completed

(* The moves of the grant of t: the first claim the author accepts. *)
GrantStep(t) ==
  \/ granted'[t] = granted[t]
  \/ /\ granted[t] = {}
     /\ pool[Author[t]][t] = Available
     /\ \E x \in Node : /\ granted'[t] = {x}
                        /\ pool'[Author[t]][t] = ClaimedBy(x)

(* Where a single copy changes, one copy has to be looked at. *)
LEMMA OneCopy ==
  ASSUME TypeOK, NEW n \in Node, NEW t \in Task, NEW copy \in TaskCopy,
         pool' = pool \/ pool' = [pool EXCEPT ![n][t] = copy],
         CopyStep(n, t)
  PROVE  \A p \in Node, u \in Task : CopyStep(p, u)
<1> SUFFICES ASSUME NEW p \in Node, NEW u \in Task, ~(p = n /\ u = t)
             PROVE  pool'[p][u] = pool[p][u]
  BY DEF CopyStep
<1>1. pool \in [Node -> [Task -> TaskCopy]]
  BY DEF TypeOK
<1>2. QED
  BY <1>1

(* The entry of the changed copy. *)
LEMMA UpdatedCopy ==
  ASSUME TypeOK, NEW n \in Node, NEW t \in Task, NEW copy \in TaskCopy,
         pool' = [pool EXCEPT ![n][t] = copy]
  PROVE  pool'[n][t] = copy
<1>1. pool \in [Node -> [Task -> TaskCopy]]
  BY DEF TypeOK
<1>2. QED
  BY <1>1

(* When the author accepts a claim, the task was free. *)
LEMMA GrantEffect ==
  ASSUME TypeOK, AuthorInv, NEW t \in Task, NEW x \in Node,
         pool[Author[t]][t] = Available,
         pool' = [pool EXCEPT ![Author[t]][t] = ClaimedBy(x)],
         granted' = [granted EXCEPT ![t] = granted[t] \cup {x}]
  PROVE  /\ \A u \in Task : GrantStep(u)
         /\ \A p \in Node, u \in Task : CopyStep(p, u)
<1> USE ConstantsAssumption
<1>1. ClaimedBy(x) \in TaskCopy /\ Available \in TaskCopy
  BY DEF TaskCopy
<1>2. pool'[Author[t]][t] = ClaimedBy(x)
  BY <1>1, UpdatedCopy
<1>3. granted[t] = {}
  BY <1>1, CopyRules DEF AuthorInv
<1>4. granted'[t] = {x} /\ \A u \in Task : u # t => granted'[u] = granted[u]
  BY <1>3 DEF TypeOK
<1>5. \A u \in Task : GrantStep(u)
  BY <1>2, <1>3, <1>4 DEF GrantStep
<1>6. CopyStep(Author[t], t)
  BY <1>2, <1>4 DEF CopyStep
<1>7. QED
  BY <1>1, <1>5, <1>6, OneCopy

(* Each step moves the copies and the grants as CopyStep and GrantStep say. *)
LEMMA StepEffects ==
  ASSUME TypeOK, IInv, [Next]_vars
  PROVE  /\ \A t \in Task : GrantStep(t)
         /\ \A n \in Node, t \in Task : CopyStep(n, t)
<1> USE ConstantsAssumption
<1> DEFINE Effects == /\ \A t \in Task : GrantStep(t)
                      /\ \A n \in Node, t \in Task : CopyStep(n, t)
<1>0. ASSUME UNCHANGED poolVars PROVE Effects
  BY <1>0 DEF poolVars, GrantStep, CopyStep
<1>1. ASSUME NEW t \in Task, SubmitAndAnnounce(t) PROVE Effects
  <2>1. Available \in TaskCopy /\ pool[Author[t]][t] \in TaskCopy
    BY DEF TaskCopy, TypeOK
  <2>2. pool[Author[t]][t] = Absent
    BY <1>1, <2>1, CopyRules DEF SubmitAndAnnounce, Submitted, IInv, AuthorInv
  <2>3. pool' = [pool EXCEPT ![Author[t]][t] = Available] /\ granted' = granted
    BY <1>1, <2>2 DEF SubmitAndAnnounce, Submitted
  <2>4. CopyStep(Author[t], t)
    BY <2>1, <2>2, <2>3, UpdatedCopy DEF CopyStep
  <2>5. QED
    BY <2>1, <2>3, <2>4, OneCopy DEF GrantStep
<1>2. ASSUME NEW c \in Call, ClaimOwn(c) PROVE Effects
  <2> DEFINE n == CallNode[c]
             t == CallTask[c]
  <2>1. n \in Node /\ t \in Task /\ Author[t] = n /\ pool[n][t] \in TaskCopy
    BY <1>2 DEF ClaimOwn, TypeOK
  <2>2. CASE pool[n][t] = Available
    <3>1. Claim(pool[n][t], n) = ClaimedBy(n) /\ ClaimedBy(n) # pool[n][t]
      BY <2>1, <2>2, CopyRules
    <3>2. /\ pool' = [pool EXCEPT ![n][t] = ClaimedBy(n)]
          /\ granted' = [granted EXCEPT ![t] = granted[t] \cup {n}]
      BY <1>2, <3>1 DEF ClaimOwn
    <3>3. QED
      BY <2>1, <2>2, <3>2, GrantEffect DEF IInv
  <2>3. CASE pool[n][t] # Available
    <3>1. Claim(pool[n][t], n) = pool[n][t]
      BY <2>1, <2>3, CopyRules
    <3>2. pool' = [pool EXCEPT ![n][t] = pool[n][t]] /\ granted' = granted
      BY <1>2, <3>1 DEF ClaimOwn
    <3>3. CopyStep(n, t)
      BY <2>1, <3>2, UpdatedCopy DEF CopyStep
    <3>4. QED
      BY <2>1, <3>2, <3>3, OneCopy DEF GrantStep
  <2>4. QED
    BY <2>2, <2>3
<1>3. ASSUME NEW n \in Node, NEW t \in Task, CompleteTask(n, t) PROVE Effects
  <2>1. Completed \in TaskCopy /\ pool[n][t] \in TaskCopy
    BY DEF TaskCopy, TypeOK
  <2>2. pool[n][t].status = "Claimed" /\ Complete(pool[n][t]) = Completed
    BY <1>3, <2>1, CopyRules DEF CompleteTask
  <2>3. pool' = [pool EXCEPT ![n][t] = Completed] /\ granted' = granted
    BY <1>3, <2>2 DEF CompleteTask
  <2>4. CopyStep(n, t)
    BY <2>1, <2>2, <2>3, UpdatedCopy DEF CopyStep
  <2>5. QED
    BY <2>1, <2>3, <2>4, OneCopy DEF GrantStep
<1>4. ASSUME NEW n \in Node, NEW m \in sent, NEW via \in Node, Handle(n, m, via)
      PROVE  Effects
  <2> DEFINE t == m.task
  <2>1. m \in Message /\ t \in Task /\ m.src \in Node /\ pool[n][t] \in TaskCopy
    BY DEF TypeOK, Message
  <2>2. {Absent, Pending, Available, Completed} \subseteq TaskCopy
    BY DEF TaskCopy
  <2>3. CASE HandleAnnounce(n, m, via)
    <3>1. n # Author[t] /\ granted' = granted
      BY <2>3 DEF HandleAnnounce, Receive, Arrives, IInv, PacketInv
    <3>2. CASE pool[n][t] = Absent
      <4>1. pool' = [pool EXCEPT ![n][t] = Pending]
        BY <2>3, <3>2 DEF HandleAnnounce, Submitted
      <4>2. CopyStep(n, t)
        BY <2>1, <2>2, <3>1, <3>2, <4>1, UpdatedCopy DEF CopyStep
      <4>3. QED
        BY <2>1, <2>2, <3>1, <4>1, <4>2, OneCopy DEF GrantStep
    <3>3. CASE pool[n][t] # Absent
      BY <1>0, <2>3, <3>1, <3>3 DEF HandleAnnounce, poolVars
    <3>4. QED
      BY <3>2, <3>3
  <2>4. CASE HandleRequest(n, m, via)
    BY <1>0, <2>4 DEF HandleRequest
  <2>5. CASE HandleData(n, m, via)
    <3>1. n # Author[t] /\ granted' = granted
      BY <2>5 DEF HandleData, Receive, Arrives, IInv, PacketInv
    <3>2. CASE pool[n][t] \in {Absent, Pending}
      <4>1. pool' = [pool EXCEPT ![n][t] = Available]
        BY <2>5, <3>2, Resolved DEF HandleData
      <4>2. CopyStep(n, t)
        BY <2>1, <2>2, <3>1, <3>2, <4>1, UpdatedCopy DEF CopyStep
      <4>3. QED
        BY <2>1, <2>2, <3>1, <4>1, <4>2, OneCopy DEF GrantStep
    <3>3. CASE pool[n][t] \notin {Absent, Pending}
      BY <1>0, <2>5, <3>1, <3>3 DEF HandleData, poolVars
    <3>4. QED
      BY <3>2, <3>3
  <2>6. CASE HandleClaim(n, m, via)
    <3>1. CASE Author[t] = n /\ pool[n][t] = Available
      <4>1. /\ Claim(pool[n][t], m.src) = ClaimedBy(m.src)
            /\ ClaimedBy(m.src) # pool[n][t]
            /\ pool[n][t] # Absent
        BY <2>1, <3>1, CopyRules
      <4>2. /\ pool' = [pool EXCEPT ![n][t] = ClaimedBy(m.src)]
            /\ granted' = [granted EXCEPT ![t] = granted[t] \cup {m.src}]
        BY <2>6, <3>1, <4>1 DEF HandleClaim
      <4>3. QED
        BY <2>1, <3>1, <4>2, GrantEffect DEF IInv
    <3>2. CASE ~(Author[t] = n /\ pool[n][t] = Available)
      <4>1. granted' = granted /\ (pool' = pool \/ pool' = [pool EXCEPT ![n][t] = pool[n][t]])
        <5>1. CASE Author[t] = n /\ pool[n][t] # Available
          <6>1. Claim(pool[n][t], m.src) = pool[n][t]
            BY <2>1, <5>1, CopyRules
          <6>2. QED
            BY <2>6, <6>1 DEF HandleClaim
        <5>2. CASE Author[t] # n
          BY <2>6, <5>2 DEF HandleClaim
        <5>3. QED
          BY <3>2, <5>1, <5>2
      <4>2. CopyStep(n, t)
        BY <2>1, <4>1, UpdatedCopy DEF CopyStep
      <4>3. QED
        BY <2>1, <4>1, <4>2, OneCopy DEF GrantStep
    <3>3. QED
      BY <3>1, <3>2
  <2>7. CASE HandleAck(n, m, via)
    <3>1. granted' = granted /\ m.type = "Ack" /\ m.claimant \in Node
      BY <2>1, <2>7 DEF HandleAck, Message
    <3>2. CASE m.accepted /\ pool[n][t] = Available
      <4>1. m.claimant \in granted'[t]
        BY <3>1, <3>2 DEF IInv, PacketInv
      <4>2. pool' = [pool EXCEPT ![n][t] = ClaimedBy(m.claimant)]
        <5>1. Claim(pool[n][t], m.claimant) = ClaimedBy(m.claimant)
          BY <2>1, <3>1, <3>2, CopyRules
        <5>2. QED
          BY <2>7, <3>2, <5>1 DEF HandleAck
      <4>3. ClaimedBy(m.claimant) \in TaskCopy
        BY <3>1 DEF TaskCopy
      <4>4. CopyStep(n, t)
        BY <2>1, <3>2, <4>1, <4>2, <4>3, UpdatedCopy DEF CopyStep
      <4>5. QED
        BY <2>1, <3>1, <4>2, <4>3, <4>4, OneCopy DEF GrantStep
    <3>3. CASE ~(m.accepted /\ pool[n][t] = Available)
      <4>1. pool' = pool \/ pool' = [pool EXCEPT ![n][t] = pool[n][t]]
        <5>1. CASE ~m.accepted
          BY <2>7, <5>1 DEF HandleAck
        <5>2. CASE m.accepted /\ pool[n][t] # Available
          <6>1. Claim(pool[n][t], m.claimant) = pool[n][t]
            BY <2>1, <3>1, <5>2, CopyRules
          <6>2. QED
            BY <2>7, <5>2, <6>1 DEF HandleAck
        <5>3. QED
          BY <3>3, <5>1, <5>2
      <4>2. CopyStep(n, t)
        BY <2>1, <4>1, UpdatedCopy DEF CopyStep
      <4>3. QED
        BY <2>1, <3>1, <4>1, <4>2, OneCopy DEF GrantStep
    <3>4. QED
      BY <3>2, <3>3
  <2>8. CASE HandleResult(n, m, via)
    <3>1. /\ granted' = granted
          /\ pool' = [pool EXCEPT ![n][t] = Complete(pool[n][t])]
      BY <2>8 DEF HandleResult
    <3>2. Complete(pool[n][t]) \in TaskCopy
      <4> HIDE DEF t
      <4>1. QED
        BY <2>1, <2>2, CopyTypes
    <3>3. CopyStep(n, t)
      BY <2>1, <3>1, <3>2, UpdatedCopy, CopyRules DEF CopyStep
    <3>4. QED
      BY <2>1, <3>1, <3>2, <3>3, OneCopy DEF GrantStep
  <2>9. QED
    BY <1>4, <2>3, <2>4, <2>5, <2>6, <2>7, <2>8 DEF Handle
<1>5. ASSUME NEW c \in Call,
             \/ ClaimUnknown(c) \/ RegisterClaim(c) \/ SendClaim(c) \/ SendClaimFails(c)
             \/ ClaimTimerFires(c) \/ AbandonClaim(c) \/ ClaimReturns(c)
      PROVE  Effects
  BY <1>0, <1>5 DEF ClaimUnknown, RegisterClaim, SendClaim, SendClaimFails,
                    ClaimTimerFires, AbandonClaim, ClaimReturns
<1>6. ASSUME NEW n \in Node, Stop(n) PROVE Effects
  BY <1>0, <1>6 DEF Stop
<1>7. ASSUME NEW n \in Node, NEW m \in sent, NEW via \in Node, Miss(n, m, via)
      PROVE  Effects
  BY <1>0, <1>7 DEF Miss
<1>8. CASE UNCHANGED vars
  BY <1>0, <1>8 DEF vars, poolVars
<1>9. QED
  BY <1>1, <1>2, <1>3, <1>4, <1>5, <1>6, <1>7, <1>8 DEF Next

-----------------------------------------------------------------------------
(* The invariant *)

LEMMA InitIInv == Init => IInv
  BY CopyRules, ConstantsAssumption
     DEF Init, IInv, PacketInv, AuthorInv, RequestsInv, WaiterInv, CallInv, OneOwner,
         DoneMeansGranted, Absent, Unclaimed, Live

(* Grants only grow. *)
LEMMA GrantsGrow ==
  ASSUME TypeOK, IInv, [Next]_vars
  PROVE  \A t \in Task : granted[t] \subseteq granted'[t]
  BY StepEffects DEF GrantStep

LEMMA OwnerInductive ==
  ASSUME TypeOK, IInv, [Next]_vars
  PROVE  AuthorInv' /\ OneOwner' /\ DoneMeansGranted'
<1> USE ConstantsAssumption
<1>0. ASSUME NEW n \in Node, NEW t \in Task
      PROVE  /\ CopyStep(n, t) /\ GrantStep(t)
             /\ pool[n][t] \in TaskCopy
             /\ granted[t] \subseteq Node
  BY StepEffects DEF TypeOK
<1>1. AuthorInv'
  <2> SUFFICES ASSUME NEW t \in Task
               PROVE  IF granted'[t] = {}
                        THEN pool'[Author[t]][t] \in {Absent, Available}
                        ELSE pool'[Author[t]][t].status \in {"Claimed", "Completed"}
    BY DEF AuthorInv
  <2>1. Author[t] \in Node
    OBVIOUS
  <2>2. CopyStep(Author[t], t) /\ GrantStep(t) /\ pool[Author[t]][t] \in TaskCopy
    BY <1>0, <2>1
  <2>3. IF granted[t] = {}
          THEN pool[Author[t]][t] \in {Absent, Available}
          ELSE pool[Author[t]][t].status \in {"Claimed", "Completed"}
    BY DEF IInv, AuthorInv
  <2>4. CASE granted'[t] # granted[t]
    <3>1. PICK x \in Node : granted'[t] = {x} /\ pool'[Author[t]][t] = ClaimedBy(x)
      BY <2>2, <2>4 DEF GrantStep
    <3>2. QED
      BY <3>1 DEF ClaimedBy
  <2>5. CASE granted'[t] = granted[t]
    BY <2>2, <2>3, <2>5, CopyRules DEF CopyStep
  <2>6. QED
    BY <2>4, <2>5
<1>2. OneOwner'
  <2>1. ASSUME NEW t \in Task PROVE \A a, b \in granted'[t] : a = b
    BY <1>0, <2>1 DEF GrantStep, IInv, OneOwner
  <2>2. ASSUME NEW t \in Task, NEW n \in Node, pool'[n][t].status = "Claimed"
        PROVE  pool'[n][t].by \in granted'[t]
    <3>1. granted[t] \subseteq granted'[t]
      BY GrantsGrow
    <3>2. granted'[t] \subseteq Node
      BY <1>0 DEF GrantStep
    <3>3. pool[n][t].status = "Claimed" => pool[n][t].by \in granted[t]
      BY DEF IInv, OneOwner
    <3>4. CopyStep(n, t) /\ pool[n][t] \in TaskCopy
      BY <1>0
    <3>5. QED
      BY <2>2, <3>1, <3>2, <3>3, <3>4, CopyRules DEF CopyStep
  <2>3. QED
    BY <2>1, <2>2 DEF OneOwner
<1>3. DoneMeansGranted'
  <2> SUFFICES ASSUME NEW n \in Node, NEW t \in Task, pool'[n][t].status = "Completed"
               PROVE  granted'[t] # {}
    BY DEF DoneMeansGranted
  <2>1. granted[t] \subseteq granted'[t]
    BY GrantsGrow
  <2>2. CopyStep(n, t) /\ pool[n][t] \in TaskCopy
    BY <1>0
  <2>3. pool[n][t].status \in {"Claimed", "Completed"} => granted[t] # {}
    BY DEF IInv, OneOwner, DoneMeansGranted
  <2>4. pool[n][t].status \in {"Claimed", "Completed"} \/ \E x \in granted'[t] : TRUE
    BY <2>2, CopyRules DEF CopyStep
  <2>5. QED
    BY <2>1, <2>3, <2>4
<1>4. QED
  BY <1>1, <1>2, <1>3

(* A packet entitles to what it says when it is sent, and grants only grow. *)
PacketOk(m) ==
  /\ m.type = "Announce" => m.src = Author[m.task] /\ m.dst = All
  /\ m.type = "Request" => m.src # Author[m.task] /\ m.dst # All
  /\ m.type = "Data" => m.dst # Author[m.task] /\ m.dst # All
  /\ m.type = "Claim" => m.dst # All
  /\ m.type = "Ack" => /\ granted'[m.task] # {}
                       /\ m.accepted => m.claimant \in granted'[m.task]
  /\ m.type = "Result" => granted'[m.task] # {}

LEMMA AcceptOk ==
  ASSUME NEW t, NEW n, NEW d, NEW k, n \in granted'[t]
  PROVE  PacketOk(Ack(t, n, d, TRUE, k))
<1> DEFINE m == Ack(t, n, d, TRUE, k)
<1>1. m.type = "Ack" /\ m.task = t /\ m.claimant = n
  BY DEF Ack
<1> HIDE DEF m
<1>2. PacketOk(m)
  BY <1>1 DEF PacketOk
<1>3. QED
  BY <1>2 DEF m

LEMMA RefuseOk ==
  ASSUME NEW t, NEW n, NEW d, NEW k, granted'[t] # {}
  PROVE  PacketOk(Ack(t, n, d, FALSE, k))
<1> DEFINE m == Ack(t, n, d, FALSE, k)
<1>1. m.type = "Ack" /\ m.task = t /\ m.accepted = FALSE
  BY DEF Ack
<1> HIDE DEF m
<1>2. PacketOk(m)
  BY <1>1 DEF PacketOk
<1>3. QED
  BY <1>2 DEF m

LEMMA DataOk ==
  ASSUME NEW t, NEW n, NEW p, p # Author[t], p # All
  PROVE  PacketOk(Data(t, n, p))
<1> DEFINE m == Data(t, n, p)
<1>1. m.type = "Data" /\ m.task = t /\ m.dst = p
  BY DEF Data
<1> HIDE DEF m
<1>2. PacketOk(m)
  BY <1>1 DEF PacketOk
<1>3. QED
  BY <1>2 DEF m

LEMMA NewPackets ==
  ASSUME TypeOK, IInv, [Next]_vars, \A m \in sent' : m \in sent \/ PacketOk(m)
  PROVE  PacketInv'
<1> SUFFICES ASSUME NEW m \in sent' PROVE PacketOk(m)
  BY DEF PacketInv, PacketOk
<1>1. CASE m \in sent
  <2>1. m.task \in Task
    BY <1>1 DEF TypeOK, Message
  <2>2. granted[m.task] \subseteq granted'[m.task]
    BY <2>1, GrantsGrow
  <2>3. QED
    BY <1>1, <2>2 DEF IInv, PacketInv, PacketOk
<1>2. QED
  BY <1>1

LEMMA PacketInductive ==
  ASSUME TypeOK, IInv, [Next]_vars
  PROVE  PacketInv'
<1> USE ConstantsAssumption
<1> DEFINE New == \A m \in sent' : m \in sent \/ PacketOk(m)
<1>0. ASSUME sent' = sent PROVE New
  BY <1>0
<1>1. ASSUME NEW t \in Task, SubmitAndAnnounce(t) PROVE New
  BY <1>1 DEF SubmitAndAnnounce, Announce, PacketOk
<1>2. ASSUME NEW c \in Call, ClaimOwn(c) PROVE New
  <2>1. CASE sent' = sent
    BY <2>1
  <2>2. CASE sent' # sent
    <3>1. /\ granted' = [granted EXCEPT ![CallTask[c]] = @ \cup {CallNode[c]}]
          /\ sent' = sent \cup {Ack(CallTask[c], CallNode[c], All, TRUE, NoCall)}
      BY <1>2, <2>2 DEF ClaimOwn
    <3>2. CallNode[c] \in granted'[CallTask[c]]
      BY <3>1 DEF TypeOK
    <3>3. PacketOk(Ack(CallTask[c], CallNode[c], All, TRUE, NoCall))
      BY <3>2, AcceptOk
    <3>4. QED
      BY <3>1, <3>3
  <2>3. QED
    BY <2>1, <2>2
<1>3. ASSUME NEW c \in Call, SendClaim(c) PROVE New
  BY <1>3 DEF SendClaim, ClaimMsg, PacketOk
<1>4. ASSUME NEW n \in Node, NEW t \in Task, CompleteTask(n, t) PROVE New
  <2>1. pool[n][t] \in TaskCopy
    BY DEF TypeOK
  <2>2. pool[n][t].status = "Claimed"
    BY <1>4, <2>1, CopyRules DEF CompleteTask
  <2>3. granted'[t] # {}
    BY <1>4, <2>2 DEF CompleteTask, IInv, OneOwner
  <2>4. sent' \subseteq sent \cup {Result(t, n, All), Result(t, n, Author[t])}
    BY <1>4 DEF CompleteTask
  <2>5. QED
    BY <2>3, <2>4 DEF Result, PacketOk
<1>5. ASSUME NEW n \in Node, NEW m \in sent, NEW via \in Node, Handle(n, m, via)
      PROVE  New
  <2> DEFINE t == m.task
  <2>1. m \in Message /\ t \in Task /\ m.src \in Node
    BY DEF TypeOK, Message
  <2>2. CASE HandleAnnounce(n, m, via)
    <3>1. n # Author[t]
      BY <2>2 DEF HandleAnnounce, Receive, Arrives, IInv, PacketInv
    <3>2. sent' \subseteq sent \cup {Request(t, n, via)}
      BY <2>2 DEF HandleAnnounce
    <3>3. QED
      BY <3>1, <3>2 DEF Request, PacketOk
  <2>3. CASE HandleRequest(n, m, via)
    <3>1. m.src # Author[t]
      BY <2>3 DEF HandleRequest, IInv, PacketInv
    <3>2. sent' \subseteq sent \cup {Data(t, n, m.src)}
      BY <2>3 DEF HandleRequest
    <3>3. QED
      BY <2>1, <3>1, <3>2, DataOk
  <2>4. CASE HandleData(n, m, via)
    <3>1. \A p \in requests[n][t] : p # Author[t] /\ p # All
      BY <2>1 DEF IInv, RequestsInv, TypeOK
    <3>2. sent' \subseteq sent \cup {Data(t, n, p) : p \in requests[n][t]}
      BY <2>4 DEF HandleData
    <3>3. ASSUME NEW p \in requests[n][t]
          PROVE  PacketOk(Data(t, n, p))
      BY <3>1, DataOk
    <3>4. QED
      <4> HIDE DEF t
      <4>1. QED
        BY <3>2, <3>3
  <2>5. CASE HandleClaim(n, m, via)
    <3>1. CASE sent' = sent
      BY <3>1
    <3>2. CASE sent' # sent
      <4>1. /\ pool[n][t] # Absent
            /\ Author[t] = n
        BY <2>5, <3>2 DEF HandleClaim
      <4>5. pool[n][t] \in TaskCopy
        BY <2>1 DEF TypeOK
      <4>2. CASE pool[n][t] = Available
        <5>1. Claim(pool[n][t], m.src) # pool[n][t]
          BY <2>1, <4>2, <4>5, CopyRules
        <5>2. /\ granted' = [granted EXCEPT ![t] = @ \cup {m.src}]
              /\ sent' = sent \cup {Ack(t, m.src, m.src, TRUE, m.call)} \cup {Ack(t, m.src, All, TRUE, NoCall)}
          BY <2>5, <4>1, <5>1 DEF HandleClaim
        <5>3. m.src \in granted'[t]
          BY <2>1, <5>2 DEF TypeOK
        <5>4. PacketOk(Ack(t, m.src, m.src, TRUE, m.call)) /\ PacketOk(Ack(t, m.src, All, TRUE, NoCall))
          BY <5>3, AcceptOk
        <5>5. QED
          BY <5>2, <5>4
      <4>3. CASE pool[n][t] # Available
        <5>1. Claim(pool[n][t], m.src) = pool[n][t]
          BY <2>1, <4>3, <4>5, CopyRules
        <5>2. granted' = granted /\ sent' = sent \cup {Ack(t, m.src, m.src, FALSE, m.call)}
          BY <2>5, <4>1, <5>1 DEF HandleClaim
        <5>3. granted[t] # {}
          BY <2>1, <4>1, <4>3 DEF IInv, AuthorInv
        <5>4. PacketOk(Ack(t, m.src, m.src, FALSE, m.call))
          BY <5>2, <5>3, RefuseOk
        <5>5. QED
          BY <5>2, <5>4
      <4>4. QED
        BY <4>2, <4>3
    <3>3. QED
      BY <3>1, <3>2
  <2>6. CASE HandleAck(n, m, via) \/ HandleResult(n, m, via)
    BY <1>0, <2>6 DEF HandleAck, HandleResult
  <2>7. QED
    BY <1>5, <2>2, <2>3, <2>4, <2>5, <2>6 DEF Handle
<1>6. ASSUME NEW c \in Call,
             \/ ClaimUnknown(c) \/ RegisterClaim(c) \/ SendClaimFails(c)
             \/ ClaimTimerFires(c) \/ AbandonClaim(c) \/ ClaimReturns(c)
      PROVE  New
  BY <1>0, <1>6 DEF ClaimUnknown, RegisterClaim, SendClaimFails, ClaimTimerFires,
                    AbandonClaim, ClaimReturns
<1>7. ASSUME NEW n \in Node, Stop(n) PROVE New
  BY <1>0, <1>7 DEF Stop
<1>8. ASSUME NEW n \in Node, NEW m \in sent, NEW via \in Node, Miss(n, m, via)
      PROVE  New
  BY <1>0, <1>8 DEF Miss
<1>9. ASSUME UNCHANGED vars PROVE New
  BY <1>0, <1>9 DEF vars
<1>10. New
  BY <1>1, <1>2, <1>3, <1>4, <1>5, <1>6, <1>7, <1>8, <1>9 DEF Next
<1>11. QED
  BY <1>10, NewPackets

(* A node owes the payload to nodes that asked, and the author never asks. *)
LEMMA RequestsInductive ==
  ASSUME TypeOK, IInv, [Next]_vars
  PROVE  RequestsInv'
<1> USE ConstantsAssumption
<1>0. ASSUME requests' = requests PROVE RequestsInv'
  BY <1>0 DEF IInv, RequestsInv
<1>1. ASSUME NEW n \in Node, NEW m \in sent, NEW via \in Node, Handle(n, m, via)
      PROVE  RequestsInv'
  <2> DEFINE t == m.task
  <2>1. t \in Task /\ m.src \in Node
    BY DEF TypeOK, Message
  <2>2. CASE HandleRequest(n, m, via)
    <3>1. m.src # Author[t]
      BY <2>2 DEF HandleRequest, IInv, PacketInv
    <3>2. requests' = requests \/ requests' = [requests EXCEPT ![n][t] = @ \cup {m.src}]
      BY <2>2 DEF HandleRequest
    <3>3. requests \in [Node -> [Task -> SUBSET Node]]
      BY DEF TypeOK
    <3>4. \A p \in requests'[n][t] : p \in requests[n][t] \/ p = m.src
      <4> HIDE DEF t
      <4>1. QED
        BY <2>1, <3>2, <3>3
    <3>5. \A p \in Node, u \in Task : ~(p = n /\ u = t) => requests'[p][u] = requests[p][u]
      <4> HIDE DEF t
      <4>1. QED
        BY <2>1, <3>2, <3>3
    <3>6. ASSUME NEW p \in Node, NEW u \in Task, NEW q \in requests'[p][u]
          PROVE  q # Author[u]
      <4>1. CASE p = n /\ u = t
        BY <3>1, <3>4, <4>1 DEF IInv, RequestsInv
      <4>2. CASE ~(p = n /\ u = t)
        BY <3>5, <4>2 DEF IInv, RequestsInv
      <4>3. QED
        BY <4>1, <4>2
    <3>7. QED
      BY <3>6 DEF RequestsInv
  <2>3. CASE HandleData(n, m, via)
    <3>1. requests' = requests \/ requests' = [requests EXCEPT ![n][t] = {}]
      BY <2>3 DEF HandleData
    <3>2. requests \in [Node -> [Task -> SUBSET Node]]
      BY DEF TypeOK
    <3>3. requests' = [requests EXCEPT ![n][t] = {}] =>
            \A p \in Node, u \in Task :
              requests'[p][u] = IF p = n /\ u = t THEN {} ELSE requests[p][u]
      BY <3>2, <2>1
    <3>4. QED
      BY <3>1, <3>3 DEF IInv, RequestsInv
  <2>4. CASE \/ HandleAnnounce(n, m, via) \/ HandleClaim(n, m, via)
             \/ HandleAck(n, m, via) \/ HandleResult(n, m, via)
    BY <1>0, <2>4 DEF HandleAnnounce, HandleClaim, HandleAck, HandleResult
  <2>5. QED
    BY <1>1, <2>2, <2>3, <2>4 DEF Handle
<1>2. ASSUME NEW t \in Task, SubmitAndAnnounce(t) PROVE RequestsInv'
  BY <1>0, <1>2 DEF SubmitAndAnnounce
<1>3. ASSUME NEW c \in Call,
             \/ ClaimUnknown(c) \/ ClaimOwn(c) \/ RegisterClaim(c) \/ SendClaim(c)
             \/ SendClaimFails(c) \/ ClaimTimerFires(c) \/ AbandonClaim(c) \/ ClaimReturns(c)
      PROVE  RequestsInv'
  BY <1>0, <1>3 DEF ClaimUnknown, ClaimOwn, RegisterClaim, SendClaim, SendClaimFails,
                    ClaimTimerFires, AbandonClaim, ClaimReturns
<1>4. ASSUME NEW n \in Node, NEW t \in Task, CompleteTask(n, t) PROVE RequestsInv'
  BY <1>0, <1>4 DEF CompleteTask
<1>5. ASSUME NEW n \in Node, Stop(n) PROVE RequestsInv'
  BY <1>0, <1>5 DEF Stop
<1>6. ASSUME NEW n \in Node, NEW m \in sent, NEW via \in Node, Miss(n, m, via)
      PROVE  RequestsInv'
  BY <1>0, <1>6 DEF Miss
<1>7. CASE UNCHANGED vars
  BY <1>0, <1>7 DEF vars
<1>8. QED
  BY <1>1, <1>2, <1>3, <1>4, <1>5, <1>6, <1>7 DEF Next

(* Calls and their senders.  Only RegisterClaim makes an entry, for an idle *)
(* call; an answer or a way out of claim_task removes it in the same step.  *)
CallsInv == WaiterInv /\ CallInv

(* Where calls stand still, grants can only help. *)
LEMMA CallsUnchanged ==
  ASSUME TypeOK, IInv, [Next]_vars, UNCHANGED callVars
  PROVE  CallsInv'
<1>1. WaiterInv'
  BY DEF callVars, IInv, WaiterInv, Registered
<1>2. \A c \in Call : granted[CallTask[c]] # {} => granted'[CallTask[c]] # {}
  BY GrantsGrow, ConstantsAssumption
<1>3. CallInv'
  BY <1>2 DEF callVars, IInv, CallInv
<1>4. QED
  BY <1>1, <1>3 DEF CallsInv

(* An entry that stays registered is not the call that moves on, because    *)
(* that one is idle, has an answer, or loses its own entry.                *)
LEMMA EntriesKept ==
  ASSUME TypeOK, WaiterInv,
         \A p \in Node, u \in Task :
           waiter'[p][u] \in Call =>
             \/ Registered(waiter[p][u], p, u)'
             \/ /\ waiter'[p][u] = waiter[p][u]
                /\ Registered(waiter[p][u], p, u) =>
                     /\ phase'[waiter[p][u]] \in Live
                     /\ answer'[waiter[p][u]] = "none"
  PROVE  WaiterInv'
<1> SUFFICES ASSUME NEW p \in Node, NEW u \in Task, waiter'[p][u] \in Call
             PROVE  Registered(waiter[p][u], p, u)'
  BY DEF WaiterInv, Registered
<1>1. CASE Registered(waiter[p][u], p, u)'
  BY <1>1
<1>2. CASE /\ waiter'[p][u] = waiter[p][u]
           /\ Registered(waiter[p][u], p, u) => /\ phase'[waiter[p][u]] \in Live
                                                /\ answer'[waiter[p][u]] = "none"
  <2>1. Registered(waiter[p][u], p, u)
    BY <1>2 DEF WaiterInv
  <2>2. QED
    BY <1>2, <2>1 DEF Registered
<1>3. QED
  BY <1>1, <1>2

LEMMA CallsInductive ==
  ASSUME TypeOK, IInv, [Next]_vars
  PROVE  CallsInv'
<1> USE ConstantsAssumption
<1>0. \A c \in Call : granted[CallTask[c]] # {} => granted'[CallTask[c]] # {}
  BY GrantsGrow
<1>a. /\ waiter \in [Node -> [Task -> Call \cup {NoCall}]]
      /\ phase \in [Call -> {"idle"} \cup Live \cup Returned]
      /\ answer \in [Call -> {"none", "ok", "rejected", "dropped"}]
  BY DEF TypeOK
<1>b. WaiterInv /\ CallInv
  BY DEF IInv
<1>1. ASSUME NEW c \in Call, ClaimUnknown(c) PROVE CallsInv'
  <2>1. phase[c] = "idle" /\ phase' = [phase EXCEPT ![c] = "error"] /\ waiter' = waiter /\ answer' = answer
    BY <1>1 DEF ClaimUnknown
  <2>2. WaiterInv'
    BY <1>a, <1>b, <2>1, EntriesKept DEF Registered, Live
  <2>3. CallInv'
    BY <1>0, <1>a, <1>b, <2>1 DEF CallInv
  <2>4. QED
    BY <2>2, <2>3 DEF CallsInv
<1>2. ASSUME NEW c \in Call, ClaimOwn(c) PROVE CallsInv'
  <2>1. /\ phase[c] = "idle"
        /\ waiter' = waiter /\ answer' = answer
        /\ \/ phase' = [phase EXCEPT ![c] = "error"]
           \/ /\ phase' = [phase EXCEPT ![c] = "ok"]
              /\ granted' = [granted EXCEPT ![CallTask[c]] = @ \cup {CallNode[c]}]
    BY <1>2 DEF ClaimOwn
  <2>2. WaiterInv'
    BY <1>a, <1>b, <2>1, EntriesKept DEF Registered, Live
  <2>3. granted \in [Task -> SUBSET Node]
    BY DEF TypeOK
  <2>4. granted' = [granted EXCEPT ![CallTask[c]] = @ \cup {CallNode[c]}] =>
          granted'[CallTask[c]] # {}
    <3> DEFINE t == CallTask[c]
    <3>1. t \in Task
      OBVIOUS
    <3> HIDE DEF t
    <3>2. granted' = [granted EXCEPT ![t] = @ \cup {CallNode[c]}] => CallNode[c] \in granted'[t]
      BY <2>3, <3>1
    <3>3. QED
      BY <3>2 DEF t
  <2>5. \A d \in Call : d # c => phase'[d] = phase[d]
    BY <1>a, <2>1
  <2>6. CallInv'
    BY <1>0, <1>a, <1>b, <2>1, <2>4, <2>5 DEF CallInv, Returned
  <2>7. QED
    BY <2>2, <2>6 DEF CallsInv
<1>3. ASSUME NEW c \in Call, RegisterClaim(c) PROVE CallsInv'
  <2> DEFINE n == CallNode[c]
             t == CallTask[c]
             w == waiter[n][t]
  <2>1. /\ phase[c] = "idle"
        /\ phase' = [phase EXCEPT ![c] = "sending"]
        /\ waiter' = [waiter EXCEPT ![n][t] = c]
        /\ answer' = [d \in Call |-> IF d = w /\ answer[d] = "none"
                                       THEN "dropped" ELSE answer[d]]
    BY <1>3 DEF RegisterClaim, DropSender
  <2>2. n \in Node /\ t \in Task
    OBVIOUS
  <2>3. w \in Call => Registered(w, n, t)
    BY <1>b, <2>2 DEF WaiterInv
  <2>4. w # c
    BY <2>1, <2>3 DEF Registered, Live
  <2>5. \A p \in Node, u \in Task :
          waiter'[p][u] = IF p = n /\ u = t THEN c ELSE waiter[p][u]
    <3> HIDE DEF n, t
    <3>1. QED
      BY <1>a, <2>1, <2>2
  <2>6. /\ \A d \in Call : phase'[d] = IF d = c THEN "sending" ELSE phase[d]
        /\ \A d \in Call : d # w => answer'[d] = answer[d]
        /\ \A d \in Call : answer'[d] \in {"ok", "rejected"} => answer[d] \in {"ok", "rejected"}
    BY <1>a, <2>1
  <2>7. WaiterInv'
    <3> HIDE DEF n, t, w
    <3>1. Registered(c, n, t)'
      BY <1>b, <2>1, <2>4, <2>6 DEF Registered, Live, CallInv, n, t
    <3>2. ASSUME NEW p \in Node, NEW u \in Task, ~(p = n /\ u = t), waiter[p][u] \in Call,
                 Registered(waiter[p][u], p, u)
          PROVE  phase'[waiter[p][u]] \in Live /\ answer'[waiter[p][u]] = "none"
      <4>1. waiter[p][u] # c
        BY <2>1, <3>2 DEF Registered, Live
      <4>2. waiter[p][u] # w
        BY <2>3, <3>2 DEF Registered
      <4>3. QED
        BY <2>6, <3>2, <4>1, <4>2 DEF Registered
    <3>3. QED
      BY <1>b, <2>5, <3>1, <3>2, EntriesKept
  <2>8. CallInv'
    <3>1. \A d \in Call : phase'[d] = "idle" => d # w /\ phase[d] = "idle"
      BY <2>3, <2>6 DEF Registered, Live
    <3>2. QED
      BY <1>0, <1>b, <2>6, <3>1 DEF CallInv
  <2>9. QED
    BY <2>7, <2>8 DEF CallsInv
<1>4. ASSUME NEW c \in Call, SendClaim(c) PROVE CallsInv'
  <2>1. phase' = [phase EXCEPT ![c] = "waiting"] /\ waiter' = waiter /\ answer' = answer
    BY <1>4 DEF SendClaim
  <2>2. WaiterInv'
    BY <1>a, <1>b, <2>1, EntriesKept DEF Registered, Live
  <2>3. CallInv'
    BY <1>0, <1>a, <1>b, <2>1 DEF CallInv
  <2>4. QED
    BY <2>2, <2>3 DEF CallsInv
<1>5. ASSUME NEW c \in Call, SendClaimFails(c) \/ AbandonClaim(c) PROVE CallsInv'
  <2> DEFINE n == CallNode[c]
             t == CallTask[c]
             w == waiter[n][t]
  <2>1. /\ phase[c] \in Live
        /\ \E p \in {"error", "timeout"} : phase' = [phase EXCEPT ![c] = p]
        /\ waiter' = [waiter EXCEPT ![n][t] = NoCall]
        /\ answer' = [d \in Call |-> IF d = w /\ answer[d] = "none"
                                       THEN "dropped" ELSE answer[d]]
    BY <1>5 DEF SendClaimFails, AbandonClaim, DropSender, Live
  <2>2. n \in Node /\ t \in Task
    OBVIOUS
  <2>3. w \in Call => Registered(w, n, t)
    BY <1>b, <2>2 DEF WaiterInv
  <2>4. \A p \in Node, u \in Task :
          waiter'[p][u] = IF p = n /\ u = t THEN NoCall ELSE waiter[p][u]
    <3> HIDE DEF n, t
    <3>1. QED
      BY <1>a, <2>1, <2>2
  <2>5. /\ phase'[c] \in {"error", "timeout"}
        /\ \A d \in Call : d # c => phase'[d] = phase[d]
        /\ \A d \in Call : d # w => answer'[d] = answer[d]
        /\ \A d \in Call : answer'[d] \in {"ok", "rejected"} => answer[d] \in {"ok", "rejected"}
    BY <1>a, <2>1
  <2>6. WaiterInv'
    <3> HIDE DEF n, t, w
    <3>1. ASSUME NEW p \in Node, NEW u \in Task, ~(p = n /\ u = t), waiter[p][u] \in Call,
                 Registered(waiter[p][u], p, u)
          PROVE  phase'[waiter[p][u]] \in Live /\ answer'[waiter[p][u]] = "none"
      <4>1. waiter[p][u] # c
        BY <3>1 DEF Registered, n, t
      <4>2. waiter[p][u] # w
        BY <2>3, <3>1 DEF Registered
      <4>3. QED
        BY <2>5, <3>1, <4>1, <4>2 DEF Registered
    <3>2. QED
      BY <1>b, <2>4, <3>1, EntriesKept
  <2>7. CallInv'
    <3>1. \A d \in Call : phase'[d] = "idle" => d # w /\ phase[d] = "idle"
      BY <2>3, <2>5 DEF Registered, Live
    <3>2. QED
      BY <1>0, <1>b, <2>5, <3>1 DEF CallInv
  <2>8. QED
    BY <2>6, <2>7 DEF CallsInv
<1>6. ASSUME NEW c \in Call, ClaimTimerFires(c) PROVE CallsInv'
  <2>1. phase' = [phase EXCEPT ![c] = "expired"] /\ waiter' = waiter /\ answer' = answer
    BY <1>6 DEF ClaimTimerFires
  <2>2. WaiterInv'
    BY <1>a, <1>b, <2>1, EntriesKept DEF Registered, Live
  <2>3. CallInv'
    BY <1>0, <1>a, <1>b, <2>1 DEF CallInv
  <2>4. QED
    BY <2>2, <2>3 DEF CallsInv
<1>7. ASSUME NEW c \in Call, ClaimReturns(c) PROVE CallsInv'
  <2>1. /\ answer[c] # "none"
        /\ phase' = [phase EXCEPT ![c] = IF answer[c] = "dropped" THEN "timeout" ELSE answer[c]]
        /\ waiter' = waiter /\ answer' = answer
    BY <1>7 DEF ClaimReturns
  <2>2. WaiterInv'
    BY <1>a, <1>b, <2>1, EntriesKept DEF Registered, Live
  <2>3. CallInv'
    BY <1>0, <1>a, <1>b, <2>1 DEF CallInv
  <2>4. QED
    BY <2>2, <2>3 DEF CallsInv
<1>8. ASSUME NEW n \in Node, NEW m \in sent, NEW via \in Node, HandleAck(n, m, via)
      PROVE  CallsInv'
  <2> DEFINE t == m.task
             w == waiter[n][t]
  <2>1. t \in Task /\ granted[t] # {}
    BY <1>8 DEF HandleAck, TypeOK, Message, IInv, PacketInv
  <2>2. /\ phase' = phase
        /\ waiter' = [waiter EXCEPT ![n][t] = NoCall]
        /\ \E ans \in {"ok", "rejected"} :
             answer' = [d \in Call |-> IF d = w THEN ans ELSE answer[d]]
    BY <1>8 DEF HandleAck
  <2>3. w \in Call => Registered(w, n, t)
    BY <1>b, <2>1 DEF WaiterInv
  <2>4. \A p \in Node, u \in Task :
          waiter'[p][u] = IF p = n /\ u = t THEN NoCall ELSE waiter[p][u]
    <3> HIDE DEF t
    <3>1. QED
      BY <1>a, <2>1, <2>2
  <2>5. \A d \in Call : d # w => answer'[d] = answer[d]
    BY <2>2
  <2>6. WaiterInv'
    <3> HIDE DEF t, w
    <3>1. ASSUME NEW p \in Node, NEW u \in Task, ~(p = n /\ u = t), waiter[p][u] \in Call,
                 Registered(waiter[p][u], p, u)
          PROVE  phase'[waiter[p][u]] \in Live /\ answer'[waiter[p][u]] = "none"
      <4>1. waiter[p][u] # w
        BY <2>3, <3>1 DEF Registered
      <4>2. QED
        BY <2>2, <2>5, <3>1, <4>1 DEF Registered
    <3>2. QED
      BY <1>b, <2>4, <3>1, EntriesKept
  <2>7. CallInv'
    <3>1. granted'[t] # {}
      BY <2>1, GrantsGrow
    <3>2. \A d \in Call : d = w => CallTask[d] = t /\ phase[d] # "idle"
      BY <2>3 DEF Registered, Live
    <3>3. QED
      BY <1>0, <1>b, <2>2, <2>5, <3>1, <3>2 DEF CallInv
  <2>8. QED
    BY <2>6, <2>7 DEF CallsInv
<1>9. ASSUME NEW n \in Node, NEW m \in sent, NEW via \in Node, Handle(n, m, via)
      PROVE  CallsInv'
  <2>1. CASE UNCHANGED callVars
    BY <2>1, CallsUnchanged
  <2>2. CASE HandleAck(n, m, via)
    BY <1>8, <2>2
  <2>3. QED
    BY <1>9, <2>1, <2>2 DEF Handle, HandleAnnounce, HandleRequest, HandleData,
                            HandleClaim, HandleResult
<1>10. ASSUME NEW t \in Task, SubmitAndAnnounce(t) PROVE CallsInv'
  BY <1>10, CallsUnchanged DEF SubmitAndAnnounce
<1>11. ASSUME NEW n \in Node, NEW t \in Task, CompleteTask(n, t) PROVE CallsInv'
  BY <1>11, CallsUnchanged DEF CompleteTask
<1>12. ASSUME NEW n \in Node, Stop(n) PROVE CallsInv'
  BY <1>12, CallsUnchanged DEF Stop
<1>13. ASSUME NEW n \in Node, NEW m \in sent, NEW via \in Node, Miss(n, m, via)
       PROVE  CallsInv'
  BY <1>13, CallsUnchanged DEF Miss
<1>14. CASE UNCHANGED vars
  BY <1>14, CallsUnchanged DEF vars, callVars
<1>15. QED
  BY <1>1, <1>2, <1>3, <1>4, <1>5, <1>6, <1>7, <1>9, <1>10, <1>11, <1>12, <1>13, <1>14
     DEF Next

-----------------------------------------------------------------------------
(* The theorems *)

(* IInv holds in every reachable state. *)
THEOREM Invariance == Spec => [](TypeOK /\ IInv)
<1>1. Init => TypeOK /\ IInv
  BY InitType, InitIInv
<1>2. TypeOK /\ IInv /\ [Next]_vars => (TypeOK /\ IInv)'
  <2> SUFFICES ASSUME TypeOK, IInv, [Next]_vars PROVE (TypeOK /\ IInv)'
    OBVIOUS
  <2>1. TypeOK'
    BY NextType
  <2>2. IInv'
    BY OwnerInductive, PacketInductive, RequestsInductive, CallsInductive DEF IInv, CallsInv
  <2>3. QED
    BY <2>1, <2>2
<1>3. QED
  BY <1>1, <1>2, PTL DEF Spec

(* No two nodes are ever given the same task, and every copy that shows a   *)
(* claim shows the one its author accepted.                                *)
THEOREM OneOwnerHolds == Spec => []OneOwner
<1>1. IInv => OneOwner
  BY DEF IInv
<1>2. QED
  BY <1>1, Invariance, PTL

(* Nothing completes a task its author has not given away. *)
THEOREM DoneMeansGrantedHolds == Spec => []DoneMeansGranted
<1>1. IInv => DoneMeansGranted
  BY DEF IInv
<1>2. QED
  BY <1>1, Invariance, PTL

(* A refusal or a success means that the author has given the task away. *)
THEOREM AnswerMeansGrantedHolds == Spec => []AnswerMeansGranted
<1>1. IInv => AnswerMeansGranted
  BY DEF IInv, CallInv, AnswerMeansGranted
<1>2. QED
  BY <1>1, Invariance, PTL

(* pending_claims holds only senders of calls that still listen. *)
THEOREM NoStaleSenderHolds == Spec => []NoStaleSender
<1>1. TypeOK /\ IInv => NoStaleSender
  <2> SUFFICES ASSUME TypeOK, IInv, NEW n \in Node, NEW t \in Task, waiter[n][t] # NoCall
               PROVE  phase[waiter[n][t]] \in Live /\ answer[waiter[n][t]] = "none"
    BY DEF NoStaleSender
  <2>1. waiter[n][t] \in Call
    BY DEF TypeOK
  <2>2. QED
    BY <2>1 DEF IInv, WaiterInv, Registered
<1>2. QED
  BY <1>1, Invariance, PTL

(* No copy of a task is ever taken back from claimed or completed. *)
THEOREM NoStepBackHolds == Spec => NoStepBack
<1>1. TypeOK /\ IInv /\ [Next]_vars =>
        [\A n \in Node, t \in Task :
           /\ pool[n][t].status = "Claimed" => pool'[n][t] \in {pool[n][t], Completed}
           /\ pool[n][t].status = "Completed" => pool'[n][t] = pool[n][t]]_vars
  <2> SUFFICES ASSUME TypeOK, IInv, [Next]_vars, NEW n \in Node, NEW t \in Task
               PROVE  /\ pool[n][t].status = "Claimed" => pool'[n][t] \in {pool[n][t], Completed}
                      /\ pool[n][t].status = "Completed" => pool'[n][t] = pool[n][t]
    OBVIOUS
  <2>1. CopyStep(n, t) /\ pool[n][t] \in TaskCopy
    BY StepEffects DEF TypeOK
  <2>2. pool[n][t].status \in {"Claimed", "Completed"} =>
          pool[n][t] \notin {Absent, Pending, Available}
    BY DEF Absent, Pending, Available, Unclaimed
  <2>3. pool[n][t].status = "Completed" => pool[n][t].status # "Claimed"
    OBVIOUS
  <2>4. QED
    BY <2>1, <2>2, <2>3 DEF CopyStep
<1>2. QED
  BY <1>1, Invariance, PTL DEF Spec, NoStepBack

-----------------------------------------------------------------------------
(* The pool refines the task lifecycle *)

(* What a step leaves alone when it is about task t. *)
OnlyTouches(t) ==
  \A u \in Task \ {t} : /\ granted'[u] = granted[u]
                        /\ \A n \in Node : pool'[n][u] = pool[n][u]

(* One copy and one grant of the same task. *)
LEMMA OneTaskUpdate ==
  ASSUME TypeOK, NEW n \in Node, NEW t \in Task, NEW copy, NEW G,
         pool' = pool \/ pool' = [pool EXCEPT ![n][t] = copy],
         granted' = granted \/ granted' = [granted EXCEPT ![t] = G]
  PROVE  OnlyTouches(t)
<1>1. pool \in [Node -> [Task -> TaskCopy]] /\ granted \in [Task -> SUBSET Node]
  BY DEF TypeOK
<1>2. ASSUME NEW u \in Task \ {t}, NEW p \in Node PROVE pool'[p][u] = pool[p][u]
  BY <1>1, <1>2
<1>3. ASSUME NEW u \in Task \ {t} PROVE granted'[u] = granted[u]
  BY <1>1, <1>3
<1>4. QED
  BY <1>2, <1>3 DEF OnlyTouches

(* Every step is about one task, if it is about the pool at all. *)
LEMMA OneTask ==
  ASSUME TypeOK, [Next]_vars
  PROVE  UNCHANGED poolVars \/ \E t \in Task : OnlyTouches(t)
<1> USE ConstantsAssumption
<1>1. ASSUME NEW t \in Task, SubmitAndAnnounce(t) PROVE OnlyTouches(t)
  BY <1>1, OneTaskUpdate DEF SubmitAndAnnounce
<1>2. ASSUME NEW c \in Call, ClaimOwn(c) PROVE OnlyTouches(CallTask[c])
  <2>1. CallNode[c] \in Node /\ CallTask[c] \in Task
    OBVIOUS
  <2>2. /\ \E copy : pool' = [pool EXCEPT ![CallNode[c]][CallTask[c]] = copy]
        /\ \/ granted' = granted
           \/ \E G : granted' = [granted EXCEPT ![CallTask[c]] = G]
    BY <1>2, Zenon DEF ClaimOwn
  <2>3. QED
    BY <2>1, <2>2, OneTaskUpdate
<1>3. ASSUME NEW n \in Node, NEW t \in Task, CompleteTask(n, t) PROVE OnlyTouches(t)
  BY <1>3, OneTaskUpdate DEF CompleteTask
<1>4. ASSUME NEW n \in Node, NEW m \in sent, NEW via \in Node, Handle(n, m, via)
      PROVE  OnlyTouches(m.task)
  <2>1. m.task \in Task
    BY DEF TypeOK, Message
  <2>2. CASE HandleAnnounce(n, m, via) \/ HandleRequest(n, m, via) \/ HandleResult(n, m, via)
    BY <2>1, <2>2, OneTaskUpdate DEF HandleAnnounce, HandleRequest, HandleResult, poolVars
  <2>3. CASE HandleData(n, m, via)
    BY <2>1, <2>3, OneTaskUpdate DEF HandleData
  <2>4. CASE HandleClaim(n, m, via)
    <3>1. /\ pool' = pool \/ \E copy : pool' = [pool EXCEPT ![n][m.task] = copy]
          /\ granted' = granted \/ \E G : granted' = [granted EXCEPT ![m.task] = G]
      BY <2>4, Zenon DEF HandleClaim
    <3>2. QED
      BY <2>1, <3>1, OneTaskUpdate
  <2>5. CASE HandleAck(n, m, via)
    BY <2>1, <2>5, OneTaskUpdate DEF HandleAck
  <2>6. QED
    BY <1>4, <2>2, <2>3, <2>4, <2>5 DEF Handle
<1>5. ASSUME NEW c \in Call, \/ ClaimUnknown(c) \/ RegisterClaim(c) \/ SendClaim(c)
                             \/ SendClaimFails(c) \/ ClaimTimerFires(c)
                             \/ AbandonClaim(c) \/ ClaimReturns(c)
      PROVE  UNCHANGED poolVars
  BY <1>5 DEF ClaimUnknown, RegisterClaim, SendClaim, SendClaimFails, ClaimTimerFires,
              AbandonClaim, ClaimReturns
<1>6. ASSUME NEW n \in Node, Stop(n) PROVE UNCHANGED poolVars
  BY <1>6 DEF Stop
<1>7. ASSUME NEW n \in Node, NEW m \in sent, NEW via \in Node, Miss(n, m, via)
      PROVE  UNCHANGED poolVars
  BY <1>7 DEF Miss
<1>8. ASSUME NEW m \in sent PROVE m.task \in Task
  BY <1>8 DEF TypeOK, Message
<1>9. CASE UNCHANGED vars
  BY <1>9 DEF vars, poolVars
<1>10. QED
  BY <1>1, <1>2, <1>3, <1>4, <1>5, <1>6, <1>7, <1>8, <1>9 DEF Next

(* A task goes from one stage to the next, and gets its owner on the way. *)
LEMMA StageStep ==
  ASSUME TypeOK, IInv, TypeOK', IInv', [Next]_vars, NEW t \in Task
  PROVE  \/ Stage(t)' = Stage(t) /\ OneOf(granted'[t]) = OneOf(granted[t])
         \/ Stage(t) = "unknown" /\ Stage(t)' = "open" /\ OneOf(granted'[t]) = OneOf(granted[t])
         \/ Stage(t) = "open" /\ Stage(t)' = "owned" /\ OneOf(granted'[t]) \in Node
         \/ Stage(t) = "owned" /\ Stage(t)' = "done" /\ OneOf(granted'[t]) = OneOf(granted[t])
<1> USE ConstantsAssumption
<1>1. /\ GrantStep(t)
      /\ \A n \in Node : CopyStep(n, t) /\ pool[n][t] \in TaskCopy /\ pool'[n][t] \in TaskCopy
  BY StepEffects DEF TypeOK
<1>2. \A n \in Node : pool[n][t].status = "Completed" => pool'[n][t].status = "Completed"
  BY <1>1, CopyRules DEF CopyStep
<1>3. \A n \in Node : /\ pool[n][t].status \in {"Claimed", "Completed"} => granted[t] # {}
                      /\ pool'[n][t].status = "Completed" =>
                           pool[n][t].status \in {"Claimed", "Completed"}
  <2>1. \A n \in Node : pool[n][t].status \in {"Claimed", "Completed"} => granted[t] # {}
    BY <1>1 DEF IInv, OneOwner, DoneMeansGranted
  <2>2. \A n \in Node : pool'[n][t].status = "Completed" =>
                           pool[n][t].status \in {"Claimed", "Completed"}
    <3> SUFFICES ASSUME NEW n \in Node, pool'[n][t].status = "Completed",
                        pool[n][t].status \notin {"Claimed", "Completed"}
                 PROVE  FALSE
      OBVIOUS
    <3>1. pool'[n][t] \in {Pending, Available} \/ \E x \in granted'[t] : pool'[n][t] = ClaimedBy(x)
      BY <1>1 DEF CopyStep
    <3>2. \A x : ClaimedBy(x).status = "Claimed"
      BY DEF ClaimedBy
    <3>3. Pending.status = "Pending" /\ Available.status = "Available"
      BY DEF Pending, Available, Unclaimed
    <3>4. QED
      BY <3>1, <3>2, <3>3
  <2>3. QED
    BY <2>1, <2>2
<1>4. CASE granted'[t] # granted[t]
  <2>1. PICK x \in Node : /\ granted[t] = {} /\ granted'[t] = {x}
                          /\ pool[Author[t]][t] = Available
    BY <1>1, <1>4 DEF GrantStep
  <2>2. Available # Absent
    BY DEF Available, Absent, Unclaimed
  <2>3. Stage(t) = "open"
    BY <1>3, <2>1, <2>2 DEF Stage
  <2>4. Stage(t)' = "owned"
    BY <1>3, <2>1 DEF Stage
  <2>5. OneOf(granted'[t]) \in Node
    BY <2>1 DEF OneOf
  <2>6. QED
    BY <2>3, <2>4, <2>5
<1>5. CASE granted'[t] = granted[t] /\ granted[t] = {}
  <2>1. OneOf(granted'[t]) = OneOf(granted[t])
    BY <1>5
  <2>2. pool[Author[t]][t] # Absent => pool'[Author[t]][t] # Absent
    BY <1>1, CopyRules, <1>5 DEF CopyStep
  <2>3. Stage(t) = IF pool[Author[t]][t] # Absent THEN "open" ELSE "unknown"
    BY <1>3, <1>5 DEF Stage
  <2>4. Stage(t)' = IF pool'[Author[t]][t] # Absent THEN "open" ELSE "unknown"
    BY <1>3, <1>5 DEF Stage
  <2>5. QED
    BY <2>1, <2>2, <2>3, <2>4
<1>6. CASE granted'[t] = granted[t] /\ granted[t] # {}
  <2>1. OneOf(granted'[t]) = OneOf(granted[t])
    BY <1>6
  <2>2. Stage(t) \in {"owned", "done"} /\ Stage(t)' \in {"owned", "done"}
    BY <1>6 DEF Stage
  <2>3. Stage(t) = "done" => Stage(t)' = "done"
    BY <1>2, <1>6 DEF Stage
  <2>4. QED
    BY <2>1, <2>2, <2>3
<1>7. QED
  BY <1>4, <1>5, <1>6

(* The distributed pool as a whole, whatever the network loses, repeats or   *)
(* reorders, is the lifecycle of its tasks: each is offered once, given to   *)
(* one node for good, and done only after that (TaskLifecycle).              *)
THEOREM FollowsLifecycleHolds == Spec => FollowsLifecycle
<1>1. Init => Lifecycle!Init
  <2> SUFFICES ASSUME Init PROVE Lifecycle!Init
    OBVIOUS
  <2>1. \A t \in Task : /\ granted[t] = {} /\ pool[Author[t]][t] = Absent
                        /\ \A n \in Node : pool[n][t].status # "Completed"
    BY ConstantsAssumption DEF Init, Absent, Unclaimed
  <2>2. QED
    BY <2>1 DEF Lifecycle!Init, stages, owners, Stage, OneOf
<1>2. TypeOK /\ IInv /\ (TypeOK /\ IInv)' /\ [Next]_vars => [Lifecycle!Next]_<<stages, owners>>
  <2> SUFFICES ASSUME TypeOK, IInv, TypeOK', IInv', [Next]_vars,
                      ~UNCHANGED <<stages, owners>>
               PROVE  Lifecycle!Next
    OBVIOUS
  <2>1. CASE UNCHANGED poolVars
    BY <2>1 DEF poolVars, stages, owners, Stage
  <2>2. ASSUME NEW t \in Task, OnlyTouches(t) PROVE Lifecycle!Next
    <3>1. \A u \in Task \ {t} : Stage(u)' = Stage(u)
      BY <2>2, ConstantsAssumption DEF OnlyTouches, Stage
    <3>2. \A u \in Task \ {t} : granted'[u] = granted[u]
      BY <2>2 DEF OnlyTouches
    <3>3. stages' = [stages EXCEPT ![t] = Stage(t)']
      BY <3>1 DEF stages
    <3>4. owners' = [owners EXCEPT ![t] = OneOf(granted'[t])]
      BY <3>2 DEF owners
    <3>5. stages[t] = Stage(t) /\ owners[t] = OneOf(granted[t])
      BY DEF stages, owners
    <3>6. \/ stages' = stages /\ owners' = owners
          \/ Lifecycle!Offer(t) \/ Lifecycle!Finish(t)
          \/ \E n \in Node : Lifecycle!Grant(t, n)
      <4>1. CASE Stage(t)' = Stage(t) /\ OneOf(granted'[t]) = OneOf(granted[t])
        <5>1. stages' = [stages EXCEPT ![t] = stages[t]]
          BY <3>3, <3>5, <4>1
        <5>2. owners' = [owners EXCEPT ![t] = owners[t]]
          BY <3>4, <3>5, <4>1
        <5>3. QED
          BY <5>1, <5>2 DEF stages, owners
      <4>2. CASE /\ OneOf(granted'[t]) = OneOf(granted[t])
                 /\ \/ Stage(t) = "unknown" /\ Stage(t)' = "open"
                    \/ Stage(t) = "owned" /\ Stage(t)' = "done"
        <5>1. owners' = owners
          <6>1. owners' = [owners EXCEPT ![t] = owners[t]]
            BY <3>4, <3>5, <4>2
          <6>2. QED
            BY <6>1 DEF owners
        <5>2. Stage(t) = "unknown" /\ Stage(t)' = "open" => Lifecycle!Offer(t)
          BY <3>3, <3>5, <5>1 DEF Lifecycle!Offer
        <5>3. Stage(t) = "owned" /\ Stage(t)' = "done" => Lifecycle!Finish(t)
          BY <3>3, <3>5, <5>1 DEF Lifecycle!Finish
        <5>4. QED
          BY <4>2, <5>2, <5>3
      <4>3. CASE Stage(t) = "open" /\ Stage(t)' = "owned" /\ OneOf(granted'[t]) \in Node
        BY <3>3, <3>4, <3>5, <4>3 DEF Lifecycle!Grant
      <4>4. QED
        BY <4>1, <4>2, <4>3, StageStep
    <3>7. QED
      BY <3>6 DEF Lifecycle!Next
  <2>3. QED
    BY <2>1, <2>2, OneTask
<1>3. QED
  BY <1>1, <1>2, Invariance, PTL DEF Spec, FollowsLifecycle, Lifecycle!Spec
=============================================================================
