---------------------------- MODULE MeshNodeProofs ----------------------------
(***************************************************************************)
(* Proofs about DedupFilter and MeshNode: the duplicate filters stay       *)
(* consistent, and no broadcast is delivered twice by a node whose filter  *)
(* has not forgotten it, for any number of nodes, any topology and any     *)
(* capacity.                                                               *)
(***************************************************************************)
EXTENDS MeshNode, SequenceTheorems, TLAPS

(* The filter *)

\* evict_expired leaves a consistent filter, without the k oldest ids.
LEMMA EvictedConsistent ==
  ASSUME NEW f \in Filter, Consistent(f), NEW k \in 0..Len(f.queue)
  PROVE  /\ Evicted(f, k) \in Filter
         /\ Consistent(Evicted(f, k))
         /\ Len(Evicted(f, k).queue) = Len(f.queue) - k
         /\ Evicted(f, k).seen \subseteq f.seen
<1> DEFINE q == f.queue
           r == SubSeq(q, k + 1, Len(q))
<1>1. f.seen \subseteq Id /\ q \in Seq(Id)
  BY DEF Filter
<1>2. Len(q) \in Nat /\ k \in Nat /\ k <= Len(q)
  BY <1>1
<1>3. /\ r \in Seq(Id)
      /\ Len(r) = Len(q) - k
      /\ \A i \in 1..(Len(q) - k) : r[i] = q[k + i]
  BY <1>1, <1>2
<1>4. Evicted(f, k) = [seen |-> f.seen \ {q[i] : i \in 1..k}, queue |-> r]
  BY DEF Evicted
<1>5. f.seen = {q[i] : i \in 1..Len(q)}
  BY DEF Consistent
<1>6. \A i, j \in 1..Len(q) : q[i] = q[j] => i = j
  BY DEF Consistent
<1>7. f.seen \ {q[i] : i \in 1..k} = {r[i] : i \in 1..Len(r)}
  <2>1. ASSUME NEW x \in f.seen \ {q[i] : i \in 1..k}
        PROVE  x \in {r[i] : i \in 1..Len(r)}
    <3>1. PICK j \in 1..Len(q) : x = q[j]
      BY <1>5, <2>1
    <3>2. j \notin 1..k
      BY <3>1, <2>1
    <3>3. j - k \in 1..Len(r) /\ k + (j - k) = j
      BY <3>1, <3>2, <1>2, <1>3
    <3>4. r[j - k] = x
      BY <3>1, <3>3, <1>3
    <3> QED BY <3>3, <3>4
  <2>2. ASSUME NEW i \in 1..Len(r)
        PROVE  r[i] \in f.seen \ {q[l] : l \in 1..k}
    <3>1. k + i \in 1..Len(q) /\ r[i] = q[k + i]
      BY <1>2, <1>3
    <3>2. r[i] \in f.seen
      BY <3>1, <1>5
    <3>3. ASSUME NEW l \in 1..k, r[i] = q[l] PROVE FALSE
      <4>1. l \in 1..Len(q) /\ l # k + i
        BY <1>2, <1>3
      <4> QED BY <3>1, <3>3, <4>1, <1>6
    <3> QED BY <3>2, <3>3
  <2> QED BY <2>1, <2>2
<1>8. \A i, j \in 1..Len(r) : r[i] = r[j] => i = j
  <2> SUFFICES ASSUME NEW i \in 1..Len(r), NEW j \in 1..Len(r), r[i] = r[j]
               PROVE  i = j
    OBVIOUS
  <2>1. k + i \in 1..Len(q) /\ k + j \in 1..Len(q)
    BY <1>2, <1>3
  <2>2. q[k + i] = q[k + j]
    BY <1>2, <1>3
  <2>3. k + i = k + j
    BY <2>1, <2>2, <1>6
  <2> QED BY <2>3, <1>2, <1>3
<1>9. Len(q) <= MostRemembered /\ MostRemembered \in Nat
  BY FilterAssumption DEF Consistent, MostRemembered
<1>10. Evicted(f, k) \in Filter
  BY <1>1, <1>3, <1>4 DEF Filter
<1>11. Consistent(Evicted(f, k))
  <2>1. Evicted(f, k) = [seen |-> {r[i] : i \in 1..Len(r)}, queue |-> r]
    BY <1>4, <1>7
  <2>2. Len(r) <= MostRemembered
    BY <1>2, <1>3, <1>9
  <2> HIDE DEF r
  <2> QED BY <2>1, <2>2, <1>8 DEF Consistent
<1> QED BY <1>3, <1>4, <1>10, <1>11

\* contains_or_insert keeps the filter consistent, and the id is in it then.
LEMMA InsertedConsistent ==
  ASSUME NEW f \in Filter, Consistent(f), NEW id \in Id
  PROVE  /\ Inserted(f, id) \in Filter
         /\ Consistent(Inserted(f, id))
         /\ id \in Inserted(f, id).seen
<1>1. CASE id \in f.seen
  BY <1>1 DEF Inserted
<1>2. CASE id \notin f.seen
  <2> DEFINE g == MakeRoom(f)
             q == g.queue
             new == Append(q, id)
  <2>1. f.queue \in Seq(Id) /\ Len(f.queue) \in Nat
    BY DEF Filter
  <2>2. /\ g \in Filter /\ Consistent(g)
        /\ Len(q) < MostRemembered
        /\ g.seen \subseteq f.seen
    <3>1. Capacity \in Nat
      BY FilterAssumption
    <3>2. CASE Len(f.queue) >= Capacity /\ f.queue # <<>>
      <4>1. Len(f.queue) >= 1
        BY <2>1, <3>2, EmptySeq
      <4>2. g = Evicted(f, 1) /\ 1 \in 0..Len(f.queue)
        BY <3>2, <4>1, <2>1 DEF MakeRoom
      <4>3. Len(f.queue) <= MostRemembered
        BY DEF Consistent
      <4> QED BY <4>1, <4>2, <4>3, <2>1, <3>1, EvictedConsistent
              DEF MostRemembered
    <3>3. CASE ~(Len(f.queue) >= Capacity /\ f.queue # <<>>)
      <4>1. g = f
        BY <3>3 DEF MakeRoom
      <4>2. Len(f.queue) < Capacity \/ Len(f.queue) = 0
        BY <3>1, <3>3, <2>1, EmptySeq
      <4> QED BY <4>1, <4>2, <2>1, <3>1 DEF MostRemembered
    <3> QED BY <3>2, <3>3
  <2>3. q \in Seq(Id) /\ g.seen \subseteq Id /\ Len(q) \in Nat
    BY <2>2 DEF Filter
  <2>4. /\ new \in Seq(Id)
        /\ Len(new) = Len(q) + 1
        /\ \A i \in 1..Len(q) : new[i] = q[i]
        /\ new[Len(q) + 1] = id
    BY <2>3
  <2>5. Inserted(f, id) = [seen |-> g.seen \cup {id}, queue |-> new]
    BY <1>2 DEF Inserted, Remember
  <2>6. g.seen = {q[i] : i \in 1..Len(q)} /\ id \notin g.seen
    BY <1>2, <2>2 DEF Consistent
  <2>7. g.seen \cup {id} = {new[i] : i \in 1..Len(new)}
    <3>1. 1..Len(new) = (1..Len(q)) \cup {Len(q) + 1}
      BY <2>3, <2>4
    <3> QED BY <3>1, <2>4, <2>6
  <2>8. \A i, j \in 1..Len(new) : new[i] = new[j] => i = j
    <3> SUFFICES ASSUME NEW i \in 1..Len(new), NEW j \in 1..Len(new),
                        new[i] = new[j]
                 PROVE  i = j
      OBVIOUS
    <3>1. CASE i = Len(q) + 1 /\ j = Len(q) + 1
      BY <3>1
    <3>2. CASE i \in 1..Len(q) /\ j \in 1..Len(q)
      BY <3>2, <2>2, <2>4 DEF Consistent
    <3>3. CASE i \in 1..Len(q) /\ j = Len(q) + 1
      BY <3>3, <2>4, <2>6
    <3>4. CASE i = Len(q) + 1 /\ j \in 1..Len(q)
      BY <3>4, <2>4, <2>6
    <3> QED BY <3>1, <3>2, <3>3, <3>4, <2>3, <2>4
  <2>9. Len(new) <= MostRemembered
    BY <2>2, <2>3, <2>4, FilterAssumption DEF MostRemembered
  <2>10. Inserted(f, id) \in Filter
    BY <2>3, <2>4, <2>5 DEF Filter
  <2>11. Consistent(Inserted(f, id))
    BY <2>5, <2>7, <2>8, <2>9 DEF Consistent
  <2> QED BY <2>5, <2>10, <2>11
<1> QED BY <1>1, <1>2

-----------------------------------------------------------------------------
(* The invariant *)

Loop == {"recv", "heart"}

FilterInv ==
  /\ filter \in [Node -> Filter]
  /\ FiltersConsistent

\* Only what somebody has broadcast is on the wire.
WireInv ==
  /\ origin \in [Id -> Node \cup {NoNode}]
  /\ \A m \in wire : m.type = "Gossip" => m.id \in Id /\ origin[m.id] # NoNode

\* Only a node that was bound has a socket, a loop, or a broadcast.
ProcessInv ==
  /\ addr \in [Node -> Addr \cup {NoAddr}]
  /\ loops \in [Node -> SUBSET Loop]
  /\ starts \in [Node -> Nat]
  /\ \A n \in Node : addr[n] # NoAddr \/ loops[n] # {} => starts[n] >= 1
  /\ \A n \in Node, g \in Id : origin[g] = n => starts[n] >= 1

\* What a running process has delivered or broadcast is in its filter, or has
\* left it.
DeliveryInv ==
  /\ delivered \in [Node -> [Task -> 0..2]]
  /\ forgotten \in [Node -> SUBSET Id]
  /\ \A n \in Node, g \in Task : delivered[n][g] > 0 => origin[g] # NoNode
  /\ \A n \in Node, g \in Task :
       \/ delivered[n][g] > 0
       \/ origin[g] = n /\ starts[n] = 1 /\ loops[n] # {}
       => g \in filter[n].seen \cup forgotten[n]
  /\ DeliveredOnce

IInv == FilterInv /\ WireInv /\ ProcessInv /\ DeliveryInv

\* The invariant holds in the initial states.
THEOREM InitIInv == Init => IInv
<1> SUFFICES ASSUME Init PROVE IInv
  OBVIOUS
<1> USE MeshAssumption, FilterAssumption
<1>1. EmptyFilter \in Filter /\ Consistent(EmptyFilter)
  BY DEF EmptyFilter, Filter, Consistent, MostRemembered
<1>2. FilterInv
  BY <1>1 DEF Init, FilterInv, FiltersConsistent
<1>3. WireInv
  BY DEF Init, WireInv
<1>4. ProcessInv
  <2> DEFINE up == {l[1] : l \in Linked} \cup {l[2] : l \in Linked}
             at == [n \in Node |-> IF n \in up THEN CHOOSE x \in Bindable[n] : TRUE
                                   ELSE NoAddr]
  <2>1. \A n \in Node : (CHOOSE x \in Bindable[n] : TRUE) \in Addr
    <3> SUFFICES ASSUME NEW n \in Node
                 PROVE  (CHOOSE x \in Bindable[n] : TRUE) \in Addr
      OBVIOUS
    <3>1. Bindable[n] # {} /\ Bindable[n] \subseteq Addr
      OBVIOUS
    <3>2. (CHOOSE x \in Bindable[n] : TRUE) \in Bindable[n]
      BY <3>1
    <3> QED BY <3>1, <3>2
  <2>2. /\ addr = at
        /\ loops = [n \in Node |-> IF n \in up THEN Loop ELSE {}]
        /\ starts = [n \in Node |-> IF n \in up THEN 1 ELSE 0]
        /\ origin = [g \in Id |-> NoNode]
    BY DEF Init, Loop
  <2>3. addr \in [Node -> Addr \cup {NoAddr}]
    BY <2>1, <2>2
  <2>4. \A n \in Node : addr[n] # NoAddr \/ loops[n] # {} => starts[n] >= 1
    BY <2>2
  <2> HIDE DEF up, at
  <2> QED BY <2>2, <2>3, <2>4 DEF ProcessInv
<1>5. DeliveryInv
  BY DEF Init, DeliveryInv, DeliveredOnce
<1> QED BY <1>2, <1>3, <1>4, <1>5 DEF IInv

-----------------------------------------------------------------------------
(* The steps *)

\* Steps that leave filters, broadcasts and deliveries alone.
Quiet ==
  /\ UNCHANGED <<addr, filter, origin, delivered, forgotten, starts>>
  /\ loops' \in [Node -> SUBSET Loop]
  /\ \A n \in Node : loops'[n] \subseteq loops[n]
  /\ \A m \in wire' : m.type = "Gossip" => m \in wire

\* Such steps keep the invariant.
LEMMA QuietStep ==
  ASSUME IInv, Quiet
  PROVE  IInv'
<1>1. FilterInv'
  BY DEF IInv, FilterInv, FiltersConsistent, Quiet
<1>2. WireInv'
  BY DEF IInv, WireInv, Quiet
<1>3. ProcessInv'
  BY DEF IInv, ProcessInv, Quiet
<1>4. DeliveryInv'
  BY DEF IInv, DeliveryInv, DeliveredOnce, Quiet
<1> QED BY <1>1, <1>2, <1>3, <1>4 DEF IInv

\* What contains_or_insert does to the filter of one node.
LEMMA InsertStep ==
  ASSUME FilterInv, forgotten \in [Node -> SUBSET Id],
         NEW n \in Node, NEW k \in Expiring(filter[n]), NEW g \in Id,
         Insert(n, k, g)
  PROVE  /\ FilterInv'
         /\ forgotten' \in [Node -> SUBSET Id]
         /\ \A p \in Node : forgotten[p] \subseteq forgotten'[p]
         /\ \A p \in Node : filter[p].seen \cup forgotten[p]
                              \subseteq filter'[p].seen \cup forgotten'[p]
         /\ g \in filter'[n].seen
         /\ g \in filter[n].seen \ Evicted(filter[n], k).seen
              => g \in forgotten'[n]
<1> DEFINE left == Evicted(filter[n], k)
           new  == Inserted(left, g)
<1>1. filter[n] \in Filter /\ Consistent(filter[n])
  BY DEF FilterInv, FiltersConsistent
<1>2. k \in 0..Len(filter[n].queue)
  <2>1. Len(filter[n].queue) \in Nat
    BY <1>1 DEF Filter
  <2> QED BY <2>1 DEF Expiring
<1>3. left \in Filter /\ Consistent(left)
  BY <1>1, <1>2, EvictedConsistent
<1>4. new \in Filter /\ Consistent(new) /\ g \in new.seen
  BY <1>3, InsertedConsistent
<1>5. /\ filter' = [filter EXCEPT ![n] = new]
      /\ forgotten' = [forgotten EXCEPT ![n] =
                         @ \cup (filter[n].seen \ (left.seen \cap new.seen))]
  BY DEF Insert
<1>6. filter[n].seen \subseteq Id
  BY <1>1 DEF Filter
<1> HIDE DEF left, new
<1>7. FilterInv'
  BY <1>4, <1>5 DEF FilterInv, FiltersConsistent
<1>8. /\ forgotten'[n] = forgotten[n] \cup (filter[n].seen \ (left.seen \cap new.seen))
      /\ filter'[n] = new
      /\ \A p \in Node \ {n} : forgotten'[p] = forgotten[p] /\ filter'[p] = filter[p]
      /\ forgotten' \in [Node -> SUBSET Id]
  BY <1>5, <1>6 DEF FilterInv
<1>9. \A p \in Node : forgotten[p] \subseteq forgotten'[p]
  BY <1>8
<1>10. \A p \in Node : filter[p].seen \cup forgotten[p]
                         \subseteq filter'[p].seen \cup forgotten'[p]
  BY <1>8
<1>11. g \in filter[n].seen \ left.seen => g \in forgotten'[n]
  BY <1>8
<1> QED BY <1>4, <1>7, <1>8, <1>9, <1>10, <1>11 DEF left

\* The receive loop takes a packet and sends nothing but direct packets.
LEMMA TakeQuiet ==
  ASSUME IInv, NEW n \in Node, NEW m, NEW out, Take(n, m, out),
         \A x \in out : x.type # "Gossip",
         UNCHANGED <<filters, delivered>>
  PROVE  Quiet
<1>1. /\ UNCHANGED <<addr, origin, starts>>
      /\ loops' = [loops EXCEPT ![n] = IF running[n] THEN @ ELSE @ \ {"recv"}]
      /\ wire' \subseteq wire \cup out
  BY DEF Take, Fault
<1>2. loops \in [Node -> SUBSET Loop]
  BY DEF IInv, ProcessInv
<1>3. loops' \in [Node -> SUBSET Loop] /\ \A p \in Node : loops'[p] \subseteq loops[p]
  BY <1>1, <1>2
<1> QED BY <1>1, <1>3 DEF Quiet, filters

\* All packets but gossip.
LEMMA DirectStep ==
  ASSUME IInv, NEW n \in Node, NEW m \in wire, HandleDirect(n, m)
  PROVE  IInv'
<1>1. CASE HandleOwn(n, m)
  BY <1>1, TakeQuiet, QuietStep DEF HandleOwn
<1>2. CASE HandleHandshake(n, m)
  <2>1. HandshakeAck(n, addr[n], m.from).type # "Gossip"
    BY DEF HandshakeAck
  <2> QED BY <1>2, <2>1, TakeQuiet, QuietStep DEF HandleHandshake
<1>3. CASE HandleHandshakeAck(n, m)
  BY <1>3, TakeQuiet, QuietStep DEF HandleHandshakeAck
<1>4. CASE HandlePing(n, m)
  <2>1. Pong(addr[n], m.from).type # "Gossip"
    BY DEF Pong
  <2> QED BY <1>4, <2>1, TakeQuiet, QuietStep DEF HandlePing
<1>5. CASE HandlePong(n, m)
  BY <1>5, TakeQuiet, QuietStep DEF HandlePong
<1>6. CASE HandlePeerRequest(n, m)
  <2>1. PICK l \in Listings(peers[n]) : Take(n, m, {PeerAnnounce(l, addr[n], m.from)})
    BY <1>6 DEF HandlePeerRequest
  <2>2. PeerAnnounce(l, addr[n], m.from).type # "Gossip"
    BY DEF PeerAnnounce
  <2>3. UNCHANGED <<filters, delivered>>
    BY <1>6 DEF HandlePeerRequest
  <2> QED BY <2>1, <2>2, <2>3, TakeQuiet, QuietStep
<1>7. CASE HandlePeerAnnounce(n, m)
  BY <1>7, TakeQuiet, QuietStep DEF HandlePeerAnnounce
<1> QED BY <1>1, <1>2, <1>3, <1>4, <1>5, <1>6, <1>7 DEF HandleDirect

\* A node starts: its own earlier broadcasts are no longer excluded.
LEMMA BindStep ==
  ASSUME IInv, NEW n \in Node, NEW x \in Addr, Bind(n, x)
  PROVE  IInv'
<1> USE DEF IInv
<1>1. /\ addr' = [addr EXCEPT ![n] = x]
      /\ loops' = [loops EXCEPT ![n] = Loop]
      /\ starts' = [starts EXCEPT ![n] = @ + 1]
      /\ UNCHANGED <<filter, forgotten, wire, origin, delivered>>
  BY DEF Bind, filters, Loop
<1>2. FilterInv' /\ WireInv'
  BY <1>1 DEF FilterInv, FiltersConsistent, WireInv
<1>3. ProcessInv'
  BY <1>1 DEF ProcessInv
<1>4. \A g \in Task : origin[g] = n => starts'[n] # 1
  BY <1>1, MeshAssumption DEF ProcessInv
<1>5. \A p \in Node \ {n} : starts'[p] = starts[p] /\ loops'[p] = loops[p]
  BY <1>1 DEF ProcessInv
<1>6. \A p \in Node, g \in Task :
        \/ delivered[p][g] > 0
        \/ origin[g] = p /\ starts'[p] = 1 /\ loops'[p] # {}
        => g \in filter[p].seen \cup forgotten[p]
  BY <1>4, <1>5 DEF DeliveryInv
<1>7. DeliveredOnce'
  <2> SUFFICES ASSUME NEW p \in Node, NEW g \in Task, g \notin forgotten[p]
               PROVE  delivered[p][g] <= IF origin[g] = p /\ starts'[p] = 1 THEN 0 ELSE 1
    BY <1>1 DEF DeliveredOnce
  <2>1. delivered[p][g] <= IF origin[g] = p /\ starts[p] = 1 THEN 0 ELSE 1
    BY DEF DeliveryInv, DeliveredOnce
  <2>2. delivered[p][g] \in 0..2
    BY DEF DeliveryInv
  <2> QED BY <2>1, <2>2, <1>4, <1>5
<1>8. DeliveryInv'
  BY <1>1, <1>6, <1>7 DEF DeliveryInv
<1> QED BY <1>2, <1>3, <1>8

\* A process ends and takes its filter and its deliveries with it.
LEMMA ExitStep ==
  ASSUME IInv, NEW n \in Node, Exit(n)
  PROVE  IInv'
<1> USE DEF IInv
<1>1. /\ addr' = [addr EXCEPT ![n] = NoAddr]
      /\ loops' = [loops EXCEPT ![n] = {}]
      /\ filter' = [filter EXCEPT ![n] = EmptyFilter]
      /\ forgotten' = [forgotten EXCEPT ![n] = {}]
      /\ delivered' = [delivered EXCEPT ![n] = [g \in Task |-> 0]]
      /\ UNCHANGED <<wire, origin, starts>>
  BY DEF Exit
<1>2. EmptyFilter \in Filter /\ Consistent(EmptyFilter)
  BY FilterAssumption DEF EmptyFilter, Filter, Consistent, MostRemembered
<1>3. FilterInv'
  BY <1>1, <1>2 DEF FilterInv, FiltersConsistent
<1>4. WireInv'
  BY <1>1 DEF WireInv
<1>5. ProcessInv'
  BY <1>1 DEF ProcessInv
<1>6. DeliveryInv'
  <2>1. /\ delivered'[n] = [g \in Task |-> 0]
        /\ loops'[n] = {}
    BY <1>1 DEF DeliveryInv, ProcessInv
  <2>2. \A p \in Node \ {n} : /\ delivered'[p] = delivered[p]
                              /\ loops'[p] = loops[p]
                              /\ filter'[p] = filter[p]
                              /\ forgotten'[p] = forgotten[p]
    BY <1>1 DEF DeliveryInv, ProcessInv, FilterInv
  <2>3. delivered' \in [Node -> [Task -> 0..2]] /\ forgotten' \in [Node -> SUBSET Id]
    BY <1>1 DEF DeliveryInv
  <2> QED BY <1>1, <2>1, <2>2, <2>3 DEF DeliveryInv, DeliveredOnce
<1> QED BY <1>3, <1>4, <1>5, <1>6

\* A broadcast, of a task or of a list of peers.
LEMMA BroadcastStep ==
  ASSUME IInv, NEW n \in Node, NEW g \in Id, Broadcast(n, g),
         addr[n] # NoAddr \/ loops[n] # {},
         UNCHANGED <<addr, starts, delivered>>,
         loops' \in [Node -> SUBSET Loop],
         \A p \in Node : loops'[p] \subseteq loops[p],
         \A m \in wire' : m.type = "Gossip" => m \in wire \/ m.id = g
  PROVE  IInv'
<1> USE DEF IInv
<1>1. PICK k \in Expiring(filter[n]) : Insert(n, k, g)
  BY DEF Broadcast
<1>2. /\ FilterInv'
      /\ forgotten' \in [Node -> SUBSET Id]
      /\ \A p \in Node : forgotten[p] \subseteq forgotten'[p]
      /\ \A p \in Node : filter[p].seen \cup forgotten[p]
                           \subseteq filter'[p].seen \cup forgotten'[p]
      /\ g \in filter'[n].seen
  BY <1>1, InsertStep DEF DeliveryInv
<1>3. /\ origin[g] = NoNode
      /\ origin' = [origin EXCEPT ![g] = n]
      /\ origin \in [Id -> Node \cup {NoNode}]
      /\ n # NoNode
  BY MeshAssumption DEF Broadcast, WireInv
<1>4. /\ origin'[g] = n
      /\ \A h \in Id \ {g} : origin'[h] = origin[h]
  BY <1>3
<1>5. WireInv'
  BY <1>3, <1>4 DEF WireInv
<1>6. starts[n] >= 1
  BY DEF ProcessInv
<1>7. ProcessInv'
  BY <1>4, <1>6 DEF ProcessInv
<1>8. DeliveryInv'
  <2>1. \A p \in Node, h \in Task : delivered[p][h] > 0 => origin'[h] # NoNode
    BY <1>3, <1>4, MeshAssumption DEF DeliveryInv
  <2>2. ASSUME NEW p \in Node, NEW h \in Task,
               \/ delivered[p][h] > 0
               \/ origin'[h] = p /\ starts[p] = 1 /\ loops'[p] # {}
        PROVE  h \in filter'[p].seen \cup forgotten'[p]
    <3>1. CASE h = g
      <4>1. p = n
        BY <1>3, <1>4, <2>2, <3>1 DEF DeliveryInv
      <4> QED BY <3>1, <4>1, <1>2
    <3>2. CASE h # g
      <4>1. origin'[h] = origin[h]
        BY <3>2, <1>4, MeshAssumption
      <4>2. h \in filter[p].seen \cup forgotten[p]
        BY <4>1, <2>2 DEF DeliveryInv
      <4> QED BY <4>2, <1>2
    <3> QED BY <3>1, <3>2
  <2>3. DeliveredOnce'
    <3> SUFFICES ASSUME NEW p \in Node, NEW h \in Task, h \notin forgotten'[p]
                 PROVE  delivered[p][h] <= IF origin'[h] = p /\ starts[p] = 1
                                           THEN 0 ELSE 1
      BY DEF DeliveredOnce
    <3>1. delivered[p][h] \in 0..2
      BY DEF DeliveryInv
    <3>2. CASE h = g
      <4>1. ~(delivered[p][h] > 0)
        BY <3>2, <1>3 DEF DeliveryInv
      <4> QED BY <3>1, <4>1
    <3>3. CASE h # g
      <4>1. origin'[h] = origin[h] /\ h \notin forgotten[p]
        BY <3>3, <1>2, <1>4, MeshAssumption
      <4>2. delivered[p][h] <= IF origin[h] = p /\ starts[p] = 1 THEN 0 ELSE 1
        BY <4>1 DEF DeliveryInv, DeliveredOnce
      <4> QED BY <4>1, <4>2
    <3> QED BY <3>2, <3>3
  <2> QED BY <1>2, <2>1, <2>2, <2>3 DEF DeliveryInv
<1> QED BY <1>2, <1>5, <1>7, <1>8

\* A relayed copy carries the id of the packet it was made from.
LEMMA ForwardedSameId ==
  ASSUME NEW n, NEW m, NEW x \in Forwarded(n, m)
  PROVE  x.id = m.id
<1>1. x \in ToConnected(n, peers[n], m.id, m.list, m.hop + 1, m.from)
  BY DEF Forwarded
<1> QED BY <1>1 DEF ToConnected, Gossip

\* A packet of gossip, known or new.
LEMMA GossipStep ==
  ASSUME IInv, NEW n \in Node, NEW m \in wire, HandleGossip(n, m)
  PROVE  IInv'
<1> USE DEF IInv
<1> DEFINE g == m.id
<1>1. PICK k \in Expiring(filter[n]) :
        /\ Insert(n, k, g)
        /\ \/ /\ Take(n, m, {})
              /\ UNCHANGED delivered
           \/ /\ g \notin Evicted(filter[n], k).seen
              /\ Take(n, m, Forwarded(n, m))
              /\ delivered' = IF g \notin Task THEN delivered
                              ELSE [delivered EXCEPT ![n][g] = IF @ = 2 THEN 2 ELSE @ + 1]
  BY DEF HandleGossip
<1>2. g \in Id /\ origin[g] # NoNode
  BY DEF HandleGossip, WireInv
<1>3. /\ FilterInv'
      /\ forgotten' \in [Node -> SUBSET Id]
      /\ \A p \in Node : forgotten[p] \subseteq forgotten'[p]
      /\ \A p \in Node : filter[p].seen \cup forgotten[p]
                           \subseteq filter'[p].seen \cup forgotten'[p]
      /\ g \in filter'[n].seen
      /\ g \in filter[n].seen \ Evicted(filter[n], k).seen => g \in forgotten'[n]
  BY <1>1, <1>2, InsertStep DEF DeliveryInv
<1>4. /\ UNCHANGED <<addr, origin, starts>>
      /\ "recv" \in loops[n]
      /\ loops' = [loops EXCEPT ![n] = IF running[n] THEN @ ELSE @ \ {"recv"}]
  BY <1>1 DEF Take
<1>5. \A x \in wire' : x \in wire \/ x.id = g
  <2>1. wire' \subseteq wire \cup Forwarded(n, m)
    BY <1>1 DEF Take, Fault
  <2> QED BY <2>1, ForwardedSameId
<1>6. /\ loops' \in [Node -> SUBSET Loop]
      /\ \A p \in Node : loops'[p] \subseteq loops[p]
  BY <1>4 DEF ProcessInv
<1>7. WireInv'
  BY <1>2, <1>4, <1>5 DEF WireInv
<1>8. ProcessInv'
  BY <1>4, <1>6 DEF ProcessInv
<1> HIDE DEF g
<1>9. delivered' \in [Node -> [Task -> 0..2]]
  BY <1>1 DEF DeliveryInv
<1>10. \A p \in Node, h \in Task : p # n \/ h # g => delivered'[p][h] = delivered[p][h]
  BY <1>1 DEF DeliveryInv
<1>11. \A p \in Node, h \in Task : delivered'[p][h] > 0 => origin'[h] # NoNode
  BY <1>2, <1>4, <1>10 DEF DeliveryInv
<1>12. ASSUME NEW p \in Node, NEW h \in Task,
              \/ delivered'[p][h] > 0
              \/ origin'[h] = p /\ starts'[p] = 1 /\ loops'[p] # {}
       PROVE  h \in filter'[p].seen \cup forgotten'[p]
  <2>1. CASE p = n /\ h = g
    BY <2>1, <1>3
  <2>2. CASE p # n \/ h # g
    <3>1. h \in filter[p].seen \cup forgotten[p]
      BY <2>2, <1>4, <1>6, <1>10, <1>12 DEF DeliveryInv
    <3> QED BY <3>1, <1>3
  <2> QED BY <2>1, <2>2
<1>13. DeliveredOnce'
  <2> SUFFICES ASSUME NEW p \in Node, NEW h \in Task, h \notin forgotten'[p]
               PROVE  delivered'[p][h] <= IF origin[h] = p /\ starts[p] = 1
                                          THEN 0 ELSE 1
    BY <1>4 DEF DeliveredOnce
  <2>1. h \notin forgotten[p]
    BY <1>3
  <2>2. delivered[p][h] <= IF origin[h] = p /\ starts[p] = 1 THEN 0 ELSE 1
    BY <2>1 DEF DeliveryInv, DeliveredOnce
  <2>3. CASE delivered'[p][h] = delivered[p][h]
    BY <2>2, <2>3
  <2>4. CASE delivered'[p][h] # delivered[p][h]
    <3>1. p = n /\ h = g
      BY <2>4, <1>10
    <3>2. g \notin Evicted(filter[n], k).seen /\ delivered'[n][g] <= delivered[n][g] + 1
      BY <2>4, <3>1, <1>1 DEF DeliveryInv
    <3>3. g \notin filter[n].seen \cup forgotten[n]
      BY <3>1, <3>2, <2>1, <1>3
    <3>4. /\ ~(delivered[n][g] > 0)
          /\ ~(origin[g] = n /\ starts[n] = 1)
      BY <3>1, <3>3, <1>4 DEF DeliveryInv
    <3>5. delivered[n][g] \in 0..2 /\ delivered'[n][g] \in 0..2
      BY <3>1, <1>9 DEF DeliveryInv
    <3> QED BY <3>1, <3>2, <3>4, <3>5
  <2> QED BY <2>3, <2>4
<1>14. DeliveryInv'
  BY <1>3, <1>9, <1>11, <1>12, <1>13 DEF DeliveryInv
<1> QED BY <1>3, <1>7, <1>8, <1>14

\* A round of the heartbeat loop, with or without an announcement.
LEMMA HeartbeatStep ==
  ASSUME IInv, NEW n \in Node, Heartbeat(n)
  PROVE  IInv'
<1> DEFINE table == [p \in Node |-> Pruned(peers[n][p])]
<1>1. /\ "heart" \in loops[n]
      /\ loops' = [loops EXCEPT ![n] = IF running[n] THEN @ ELSE @ \ {"heart"}]
      /\ UNCHANGED <<addr, starts, delivered>>
  BY DEF Heartbeat, Beat
<1>2. /\ loops' \in [Node -> SUBSET Loop]
      /\ \A p \in Node : loops'[p] \subseteq loops[p]
  BY <1>1 DEF IInv, ProcessInv
<1>3. \A x \in Pings(n, table) : x.type # "Gossip"
  <2> HIDE DEF table
  <2> QED BY DEF Pings, Ping
<1>4. CASE /\ wire' = wire \cup Pings(n, table)
           /\ UNCHANGED <<filters, origin>>
  <2>1. Quiet
    <3> HIDE DEF table
    <3> QED BY <1>1, <1>2, <1>3, <1>4 DEF Quiet, filters
  <2> QED BY <2>1, QuietStep
<1>5. ASSUME NEW g \in Id \ Task, NEW l \in Listings(table),
             Broadcast(n, g),
             wire' = wire \cup Pings(n, table) \cup ToConnected(n, table, g, l, 0, NoAddr)
      PROVE  IInv'
  <2>1. \A x \in ToConnected(n, table, g, l, 0, NoAddr) : x.id = g
    BY DEF ToConnected, Gossip
  <2>2. \A x \in wire' : x.type = "Gossip" => x \in wire \/ x.id = g
    <3> HIDE DEF table
    <3> QED BY <1>3, <1>5, <2>1
  <2> QED BY <1>1, <1>2, <1>5, <2>2, BroadcastStep
<1> QED BY <1>4, <1>5 DEF Heartbeat

\* Every step of the system keeps the invariant.
THEOREM NextIInv == IInv /\ [Next]_vars => IInv'
<1> SUFFICES ASSUME IInv, [Next]_vars PROVE IInv'
  OBVIOUS
<1>1. loops \in [Node -> SUBSET Loop]
  BY DEF IInv, ProcessInv
<1>2. ASSUME NEW n \in Node, NEW x \in Addr, Bind(n, x) PROVE IInv'
  BY <1>2, BindStep
<1>3. ASSUME NEW n, NEW x, Send(n, x), x.type # "Gossip" PROVE IInv'
  <2>1. Quiet
    BY <1>1, <1>3 DEF Send, Quiet, process, filters
  <2> QED BY <2>1, QuietStep
<1>4. ASSUME NEW n \in Node, NEW x \in Addr, ConnectPeer(n, x) PROVE IInv'
  <2>1. Handshake(n, addr[n], x).type # "Gossip"
    BY DEF Handshake
  <2> QED BY <1>3, <1>4, <2>1 DEF ConnectPeer
<1>5. ASSUME NEW n \in Node, NEW p \in Node, AskForPeers(n, p) PROVE IInv'
  <2>1. PeerRequest(addr[n], peers[n][p].addr).type # "Gossip"
    BY DEF PeerRequest
  <2> QED BY <1>3, <1>5, <2>1 DEF AskForPeers
<1>6. ASSUME NEW n \in Node, Stop(n) PROVE IInv'
  <2>1. Quiet
    BY <1>1, <1>6 DEF Stop, Quiet, filters
  <2> QED BY <2>1, QuietStep
<1>7. ASSUME NEW n \in Node, Exit(n) PROVE IInv'
  BY <1>7, ExitStep
<1>8. ASSUME NEW n \in Node, Heartbeat(n) PROVE IInv'
  BY <1>8, HeartbeatStep
<1>9. ASSUME NEW n \in Node, NEW g \in Task, BroadcastTask(n, g) PROVE IInv'
  <2>1. g \in Id
    BY MeshAssumption
  <2>2. /\ Broadcast(n, g) /\ addr[n] # NoAddr
        /\ UNCHANGED <<addr, starts, delivered, loops>>
        /\ wire' = wire \cup ToConnected(n, peers[n], g, NoList, 0, NoAddr)
    BY <1>9 DEF BroadcastTask, process
  <2>3. \A x \in ToConnected(n, peers[n], g, NoList, 0, NoAddr) : x.id = g
    BY DEF ToConnected, Gossip
  <2> QED BY <1>1, <2>1, <2>2, <2>3, BroadcastStep
<1>10. ASSUME NEW n \in Node, NEW m \in wire, HandleDirect(n, m) PROVE IInv'
  BY <1>10, DirectStep
<1>11. ASSUME NEW n \in Node, NEW m \in wire, HandleGossip(n, m) PROVE IInv'
  BY <1>11, GossipStep
<1>12. CASE Tick
  <2>1. Quiet
    BY <1>1, <1>12 DEF Tick, Quiet, process, filters
  <2> QED BY <2>1, QuietStep
<1>13. ASSUME NEW m \in wire, Lose(m) PROVE IInv'
  <2>1. Quiet
    BY <1>1, <1>13 DEF Lose, Quiet, process, filters
  <2> QED BY <2>1, QuietStep
<1>14. CASE UNCHANGED vars
  <2>1. Quiet
    BY <1>1, <1>14 DEF vars, Quiet
  <2> QED BY <2>1, QuietStep
<1> QED BY <1>2, <1>4, <1>5, <1>6, <1>7, <1>8, <1>9, <1>10, <1>11, <1>12, <1>13, <1>14
        DEF Next

-----------------------------------------------------------------------------
(* The theorems *)

\* In every reachable state the invariant holds.
THEOREM Invariance == Spec => []IInv
BY InitIInv, NextIInv, PTL DEF Spec

\* The set and the queue of dedup.rs never disagree, in any node, and never
\* hold more than the capacity, however ids arrive and expire.
THEOREM FiltersConsistentHolds == Spec => []FiltersConsistent
<1>1. IInv => FiltersConsistent
  BY DEF IInv, FilterInv
<1> QED BY <1>1, Invariance, PTL

\* No node hands a broadcast to its subscribers twice, nor its own broadcast
\* at all, unless its filter had to forget the id: for any topology, hop
\* limit, loss and repetition of packets, and restarts.
THEOREM DeliveredOnceHolds == Spec => []DeliveredOnce
<1>1. IInv => DeliveredOnce
  BY DEF IInv, DeliveryInv
<1> QED BY <1>1, Invariance, PTL
=============================================================================
