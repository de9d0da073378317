----------------------------- MODULE MeshPeerProofs -----------------------------
(***************************************************************************)
(* Proofs about the peer tables of MeshNode: they are well typed, every    *)
(* address in them belongs to the peer it stands for, only a handshake     *)
(* connects a peer, and a peer that keeps running is not held for stale as *)
(* long as packets and heartbeats are in time.                             *)
(***************************************************************************)
EXTENDS MeshNodeProofs

(* Tables and packets *)

EntryType == [state : PeerState, addr : Addr \cup {NoAddr}, age : 0..DisconnectAfter]

\* x is an address that p has had; the only one, if p still is the process it
\* was from the start.
Known(p, x) ==
  /\ x \in Bindable[p]
  /\ starts[p] >= 1
  /\ starts[p] = 1 /\ addr[p] # NoAddr => x = addr[p]

GoodTable(n, T) ==
  /\ T \in [Node -> EntryType]
  /\ T[n] = NoEntry
  /\ \A p \in Node : T[p].state = "Unknown" <=> T[p].addr = NoAddr
  /\ \A p \in Node : T[p].state # "Unknown" => Known(p, T[p].addr)

GoodList(l) == l \in Lists /\ \A p \in DOMAIN l : Known(p, l[p])

GoodPacket(m) ==
  /\ m \in Packet
  /\ m.type \in {"Handshake", "HandshakeAck"} => Known(m.node, m.from)
  /\ m.type \in {"PeerAnnounce", "Gossip"} => GoodList(m.list)

\* Every address that is told or remembered of a node is one of its own.
TablesInv  == /\ peers \in [Node -> [Node -> EntryType]]
              /\ \A n \in Node : GoodTable(n, peers[n])
PacketsInv == \A m \in wire : GoodPacket(m)

\* A process that runs has its loops, its socket and its tables, and one that
\* has ended has none.
NodesInv ==
  /\ addr \in [Node -> Addr \cup {NoAddr}]
  /\ running \in [Node -> BOOLEAN]
  /\ loops \in [Node -> SUBSET Loop]
  /\ starts \in [Node -> 0..MaxStarts]
  /\ \A n \in Node :
       /\ addr[n] = NoAddr => peers[n] = [p \in Node |-> NoEntry] /\ loops[n] = {}
       /\ addr[n] # NoAddr => addr[n] \in Bindable[n] /\ starts[n] >= 1
       /\ running[n] => loops[n] = Loop

CountersInv ==
  /\ beats \in [Node -> 0..(AnnounceEvery - 1)]
  /\ beaten \subseteq Node
  /\ calls \in 0..MaxCalls
  /\ faults \in 0..MaxFaults

PeersInv == TablesInv /\ PacketsInv /\ NodesInv /\ CountersInv

\* An entry for a running node is never older than an interval, and one that
\* is as old has a ping or a pong on its way once the heartbeat is done.
Fresh(n, p) ==
  LET e == peers[n][p]
  IN /\ e.state # "Stale"
     /\ e.state = "Connected" =>
          /\ e.age \in {0, 1}
          /\ \/ e.age = 0
             \/ n \notin beaten
             \/ Ping(addr[n], addr[p]) \in wire
             \/ Pong(addr[p], addr[n]) \in wire

Watched(n, p) == running[n] /\ running[p] /\ starts[p] = 1

FreshInv == faults = 0 => \A n, p \in Node : Watched(n, p) => Fresh(n, p)

-----------------------------------------------------------------------------
(* Single entries, tables and lists *)

\* What ages, prunes or refreshes an entry keeps its address.
LEMMA EntryMoves ==
  ASSUME NEW e \in EntryType, NEW f \in {Ponged(e), Pruned(e), Older(e)}
  PROVE  /\ f \in EntryType /\ f.addr = e.addr
         /\ f.state = "Unknown" <=> e.state = "Unknown"
<1> USE MeshAssumption DEF EntryType, PeerState
<1>1. CASE f = Ponged(e)
  <2>1. 0 \in 0..DisconnectAfter
    OBVIOUS
  <2>2. CASE e.state = "Stale"
    <3>1. f = [e EXCEPT !.age = 0, !.state = "Connected"]
      BY <1>1, <2>2 DEF Ponged
    <3> QED BY <2>1, <2>2, <3>1
  <2>3. CASE e.state # "Stale"
    <3>1. f = [e EXCEPT !.age = 0, !.state = e.state]
      BY <1>1, <2>3 DEF Ponged
    <3> QED BY <2>1, <2>3, <3>1
  <2> QED BY <2>2, <2>3
<1>2. CASE f = Pruned(e)
  <2>1. f \in {e, [e EXCEPT !.state = "Disconnected"], [e EXCEPT !.state = "Stale"]}
    BY <1>2 DEF Pruned
  <2>2. CASE e.state = "Unknown"
    BY <1>2, <2>2 DEF Pruned
  <2>3. CASE e.state # "Unknown"
    BY <2>1, <2>3
  <2> QED BY <2>2, <2>3
<1>3. CASE f = Older(e)
  BY <1>3 DEF Older
<1> QED BY <1>1, <1>2, <1>3

\* No entry is never touched by them.
LEMMA NoEntryStays ==
  /\ NoEntry \in EntryType /\ NoEntry.state = "Unknown" /\ NoEntry.addr = NoAddr
  /\ Pruned(NoEntry) = NoEntry /\ Older(NoEntry) = NoEntry
BY MeshAssumption DEF NoEntry, Entry, EntryType, PeerState, Pruned, Older

\* A table in which addresses are kept is as good as before.
LEMMA SameAddresses ==
  ASSUME NEW n \in Node, NEW T, GoodTable(n, T), NEW U \in [Node -> EntryType],
         U[n] = NoEntry,
         \A p \in Node : /\ U[p].addr = T[p].addr
                         /\ U[p].state = "Unknown" <=> T[p].state = "Unknown"
  PROVE  GoodTable(n, U)
BY DEF GoodTable

\* The whole table a beat later, or a tick later.
LEMMA WholeTable ==
  ASSUME NEW n \in Node, NEW T, GoodTable(n, T)
  PROVE  /\ GoodTable(n, [p \in Node |-> Pruned(T[p])])
         /\ GoodTable(n, [p \in Node |-> Older(T[p])])
<1>1. \A p \in Node : T[p] \in EntryType /\ T[n] = NoEntry
  BY DEF GoodTable
<1>2. GoodTable(n, [p \in Node |-> Pruned(T[p])])
  <2> DEFINE U == [p \in Node |-> Pruned(T[p])]
  <2>1. U \in [Node -> EntryType] /\ U[n] = NoEntry
    BY <1>1, EntryMoves, NoEntryStays
  <2>2. \A p \in Node : /\ U[p].addr = T[p].addr
                        /\ U[p].state = "Unknown" <=> T[p].state = "Unknown"
    BY <1>1, EntryMoves
  <2> QED BY <2>1, <2>2, SameAddresses
<1>3. GoodTable(n, [p \in Node |-> Older(T[p])])
  <2> DEFINE U == [p \in Node |-> Older(T[p])]
  <2>1. U \in [Node -> EntryType] /\ U[n] = NoEntry
    BY <1>1, EntryMoves, NoEntryStays
  <2>2. \A p \in Node : /\ U[p].addr = T[p].addr
                        /\ U[p].state = "Unknown" <=> T[p].state = "Unknown"
    BY <1>1, EntryMoves
  <2> QED BY <2>1, <2>2, SameAddresses
<1> QED BY <1>2, <1>3

\* A pong that matches an entry.
LEMMA PongedTable ==
  ASSUME NEW n \in Node, NEW T, GoodTable(n, T),
         NEW p \in Node, T[p].addr # NoAddr
  PROVE  GoodTable(n, [T EXCEPT ![p] = Ponged(T[p])])
<1> DEFINE U == [T EXCEPT ![p] = Ponged(T[p])]
<1>1. /\ T \in [Node -> EntryType] /\ T[p] \in EntryType
      /\ T[n] = NoEntry /\ p # n
  BY NoEntryStays DEF GoodTable
<1>2. /\ Ponged(T[p]) \in EntryType /\ Ponged(T[p]).addr = T[p].addr
      /\ Ponged(T[p]).state = "Unknown" <=> T[p].state = "Unknown"
  BY <1>1, EntryMoves
<1>3. U \in [Node -> EntryType] /\ U[n] = NoEntry
  BY <1>1, <1>2
<1>4. \A q \in Node : /\ U[q].addr = T[q].addr
                      /\ U[q].state = "Unknown" <=> T[q].state = "Unknown"
  BY <1>1, <1>2
<1> QED BY <1>3, <1>4, SameAddresses

\* A handshake.
LEMMA ConnectedTable ==
  ASSUME NEW n \in Node, NEW T, GoodTable(n, T),
         NEW p \in Node, p # n, NEW x \in Addr, Known(p, x)
  PROVE  GoodTable(n, [T EXCEPT ![p] = Entry("Connected", x)])
<1>1. Entry("Connected", x) \in EntryType /\ x # NoAddr
  BY MeshAssumption DEF Entry, EntryType, PeerState
<1> QED BY <1>1 DEF GoodTable, Entry

\* The loop over an announcement's peers.
LEMMA LearnedTable ==
  ASSUME NEW n \in Node, NEW T, GoodTable(n, T), NEW l, GoodList(l)
  PROVE  GoodTable(n, Learned(n, T, l))
<1> DEFINE U == Learned(n, T, l)
<1>1. \A p \in DOMAIN l : p \in Node /\ l[p] \in Addr /\ l[p] # NoAddr /\ Known(p, l[p])
  BY MeshAssumption DEF GoodList, Lists
<1>2. ASSUME NEW p \in Node
      PROVE  /\ U[p] \in EntryType
             /\ U[p].state = "Unknown" <=> U[p].addr = NoAddr
             /\ U[p].state # "Unknown" => Known(p, U[p].addr)
  <2>1. CASE p \in DOMAIN l \ {n}
    <3>1. U[p] = Upserted(T[p], l[p]) /\ T[p] \in EntryType
      BY <2>1 DEF Learned, GoodTable
    <3>2. CASE T[p].state = "Unknown"
      <4>1. U[p] = Entry("Discovered", l[p])
        BY <3>1, <3>2 DEF Upserted
      <4> QED BY <1>1, <2>1, <4>1, MeshAssumption DEF Entry, EntryType, PeerState
    <3>3. CASE T[p].state # "Unknown"
      <4>1. U[p] = [T[p] EXCEPT !.addr = l[p]]
        BY <3>1, <3>3 DEF Upserted
      <4>2. U[p].addr = l[p] /\ U[p].state = T[p].state /\ U[p] \in EntryType
        BY <1>1, <2>1, <3>1, <4>1 DEF EntryType
      <4> QED BY <1>1, <2>1, <3>3, <4>2
    <3> QED BY <3>2, <3>3
  <2>2. CASE p \notin DOMAIN l \ {n}
    <3>1. U[p] = T[p]
      BY <2>2 DEF Learned
    <3> QED BY <3>1 DEF GoodTable
  <2> QED BY <2>1, <2>2
<1>3. U[n] = NoEntry
  BY DEF Learned, GoodTable
<1>4. U \in [Node -> EntryType]
  BY <1>2 DEF Learned
<1> QED BY <1>2, <1>3, <1>4 DEF GoodTable

\* What a node tells of its peers.
LEMMA ListingsGood ==
  ASSUME NEW n \in Node, NEW T, GoodTable(n, T), NEW l \in Listings(T)
  PROVE  GoodList(l)
<1>1. PICK S \in SUBSET connected_peers(T) : l = [p \in S |-> T[p].addr]
  BY DEF Listings
<1>2. ASSUME NEW p \in S
      PROVE  p \in Node /\ T[p].addr \in Addr /\ Known(p, T[p].addr)
  BY <1>1 DEF connected_peers, GoodTable, EntryType
<1>3. l \in [S -> Addr] /\ S \in SUBSET Node
  BY <1>1, <1>2
<1> QED BY <1>1, <1>2, <1>3 DEF GoodList, Lists

-----------------------------------------------------------------------------
(* Addresses and packets *)

\* The address of a process is one of those that are known of it.
LEMMA OwnKnown ==
  ASSUME NodesInv, NEW n \in Node, addr[n] # NoAddr
  PROVE  addr[n] \in Addr /\ Known(n, addr[n])
BY DEF NodesInv, Known

\* Packets without a list.
LEMMA PlainPackets ==
  ASSUME NEW x \in Addr, NEW y \in Addr
  PROVE  /\ GoodPacket(Ping(x, y)) /\ GoodPacket(Pong(x, y))
         /\ GoodPacket(PeerRequest(x, y))
         /\ \A n \in Node : Known(n, x) => /\ GoodPacket(Handshake(n, x, y))
                                           /\ GoodPacket(HandshakeAck(n, x, y))
BY DEF GoodPacket, Packet, Ping, Pong, PeerRequest, Handshake, HandshakeAck

\* The answer to a request for peers.
LEMMA AnnouncePacket ==
  ASSUME NEW x \in Addr, NEW y \in Addr, NEW l, GoodList(l)
  PROVE  GoodPacket(PeerAnnounce(l, x, y))
BY DEF GoodPacket, Packet, PeerAnnounce, GoodList

\* Gossip.
LEMMA GossipPackets ==
  ASSUME NEW n \in Node, addr[n] \in Addr, NEW T, GoodTable(n, T),
         NEW g \in Id, NEW l, GoodList(l), NEW hop \in 0..MaxHops, NEW except,
         NEW m \in ToConnected(n, T, g, l, hop, except)
  PROVE  GoodPacket(m)
<1>1. PICK p \in connected_peers(T) : m = Gossip(g, l, hop, addr[n], T[p].addr)
  BY DEF ToConnected
<1>2. T[p].addr \in Addr
  BY DEF connected_peers, GoodTable, EntryType
<1> QED BY <1>1, <1>2 DEF GoodPacket, Packet, Gossip, GoodList

\* The pings of a heartbeat.
LEMMA PingPackets ==
  ASSUME NEW n \in Node, addr[n] \in Addr, NEW T, GoodTable(n, T), NEW m \in Pings(n, T)
  PROVE  GoodPacket(m)
<1>1. PICK p \in connected_peers(T) : m = Ping(addr[n], T[p].addr)
  BY DEF Pings
<1>2. T[p].addr \in Addr
  BY DEF connected_peers, GoodTable, EntryType
<1> QED BY <1>1, <1>2, PlainPackets

\* A broadcast of a task lists nobody.
LEMMA NoListGood == GoodList(NoList)
BY DEF GoodList, NoList, Lists

\* A relayed copy of a good packet is good.
LEMMA ForwardedGood ==
  ASSUME NEW n \in Node, addr[n] \in Addr, GoodTable(n, peers[n]),
         NEW m, GoodPacket(m), m.type = "Gossip", NEW x \in Forwarded(n, m)
  PROVE  GoodPacket(x)
<1>1. m.id \in Id /\ m.hop \in 0..MaxHops /\ GoodList(m.list)
  BY DEF GoodPacket, Packet
<1>2. m.hop + 1 \in 0..MaxHops /\ x \in ToConnected(n, peers[n], m.id, m.list, m.hop + 1, m.from)
  BY <1>1, MeshAssumption DEF Forwarded
<1> QED BY <1>1, <1>2, GossipPackets

-----------------------------------------------------------------------------
(* The steps *)

\* The table of n is T after the step.
Becomes(n, T) == peers' = [peers EXCEPT ![n] = T]

\* A step of one node that touches its own table and loops only, and sends
\* good packets.
LEMMA LocalStep ==
  ASSUME PeersInv, NEW n \in Node, addr[n] # NoAddr, NEW l \in Loop,
         NEW T, GoodTable(n, T),
         UNCHANGED <<addr, running, starts>>,
         \/ loops' = loops
         \/ loops' = [loops EXCEPT ![n] = IF running[n] THEN @ ELSE @ \ {l}],
         UNCHANGED peers \/ Becomes(n, T),
         \A m \in wire' : m \in wire \/ GoodPacket(m),
         CountersInv'
  PROVE  PeersInv'
<1> USE DEF PeersInv, Becomes
<1>1. \A p, x : Known(p, x)' <=> Known(p, x)
  BY DEF Known
<1>2. TablesInv'
  <2>1. ASSUME NEW p \in Node PROVE GoodTable(p, peers'[p])
    BY DEF TablesInv
  <2>2. peers' \in [Node -> [Node -> EntryType]]
    BY DEF TablesInv, GoodTable
  <2> QED BY <1>1, <2>1, <2>2 DEF TablesInv, GoodTable
<1>3. PacketsInv'
  BY <1>1 DEF PacketsInv, GoodPacket, GoodList
<1>4. NodesInv'
  <2>1. loops' \in [Node -> SUBSET Loop]
    BY DEF NodesInv
  <2>2. ASSUME NEW p \in Node
        PROVE  /\ addr[p] = NoAddr => peers'[p] = [q \in Node |-> NoEntry] /\ loops'[p] = {}
               /\ running[p] => loops'[p] = Loop
    <3>1. peers'[p] = peers[p] \/ addr[p] # NoAddr
      BY DEF TablesInv
    <3>2. loops'[p] \subseteq loops[p] /\ (running[p] => loops'[p] = loops[p])
      BY DEF NodesInv
    <3> QED BY <3>1, <3>2 DEF NodesInv
  <2> QED BY <2>1, <2>2 DEF NodesInv
<1> QED BY <1>2, <1>3, <1>4

\* The receive loop.
LEMMA TakeStep ==
  ASSUME PeersInv, NEW n \in Node, NEW m \in wire, NEW out, Take(n, m, out),
         \A x \in out : GoodPacket(x),
         NEW T, GoodTable(n, T),
         UNCHANGED peers \/ Becomes(n, T)
  PROVE  PeersInv'
<1>1. /\ UNCHANGED <<addr, running, starts, beats, beaten, calls>>
      /\ loops' = [loops EXCEPT ![n] = IF running[n] THEN @ ELSE @ \ {"recv"}]
      /\ wire' \subseteq wire \cup out
      /\ faults' = faults \/ (faults < MaxFaults /\ faults' = faults + 1)
  BY DEF Take, Fault
<1>2. "recv" \in Loop /\ addr[n] # NoAddr
  BY DEF Take, Loop, PeersInv, NodesInv
<1>3. CountersInv'
  BY <1>1, MeshAssumption DEF PeersInv, CountersInv
<1> QED BY <1>1, <1>2, <1>3, LocalStep

\* Who takes a packet has an address.
LEMMA TakerKnown ==
  ASSUME PeersInv, NEW n \in Node, NEW m \in wire, NEW out, Take(n, m, out)
  PROVE  /\ addr[n] \in Addr /\ Known(n, addr[n]) /\ GoodTable(n, peers[n])
         /\ GoodPacket(m) /\ m.from \in Addr /\ m.to = addr[n]
<1>1. addr[n] # NoAddr /\ m.to = addr[n]
  BY DEF Take, PeersInv, NodesInv
<1>2. GoodPacket(m) /\ m.from \in Addr
  BY DEF PeersInv, PacketsInv, GoodPacket, Packet
<1> QED BY <1>1, <1>2, OwnKnown DEF PeersInv, TablesInv

\* All packets but gossip.
LEMMA DirectKeepsPeers ==
  ASSUME PeersInv, NEW n \in Node, NEW m \in wire, HandleDirect(n, m)
  PROVE  PeersInv'
<1>1. CASE HandleOwn(n, m)
  BY <1>1, TakeStep, TakerKnown DEF HandleOwn
<1>2. ASSUME m.type \in {"Handshake", "HandshakeAck"}, m.node # n, NEW out, Take(n, m, out)
      PROVE  GoodTable(n, [peers[n] EXCEPT ![m.node] = Entry("Connected", m.from)])
  <2>1. m.node \in Node /\ Known(m.node, m.from)
    BY <1>2, TakerKnown DEF GoodPacket, Packet
  <2> QED BY <1>2, <2>1, TakerKnown, ConnectedTable
<1>3. CASE HandleHandshake(n, m)
  <2>1. peers' = [peers EXCEPT ![n] = [peers[n] EXCEPT ![m.node] = Entry("Connected", m.from)]]
    BY <1>3 DEF HandleHandshake, PeersInv, TablesInv
  <2>2. Take(n, m, {HandshakeAck(n, addr[n], m.from)}) /\ m.type = "Handshake" /\ m.node # n
    BY <1>3 DEF HandleHandshake
  <2>3. GoodPacket(HandshakeAck(n, addr[n], m.from))
    BY <2>2, TakerKnown, PlainPackets
  <2>4. GoodTable(n, [peers[n] EXCEPT ![m.node] = Entry("Connected", m.from)])
    BY <1>2, <2>2
  <2> DEFINE T == [peers[n] EXCEPT ![m.node] = Entry("Connected", m.from)]
  <2>5. GoodTable(n, T) /\ Becomes(n, T)
    BY <2>1, <2>4 DEF Becomes
  <2> HIDE DEF T
  <2> QED BY <2>2, <2>3, <2>5, TakeStep
<1>4. CASE HandleHandshakeAck(n, m)
  <2>1. peers' = [peers EXCEPT ![n] = [peers[n] EXCEPT ![m.node] = Entry("Connected", m.from)]]
    BY <1>4 DEF HandleHandshakeAck, PeersInv, TablesInv
  <2>2. Take(n, m, {}) /\ m.type = "HandshakeAck" /\ m.node # n
    BY <1>4 DEF HandleHandshakeAck
  <2>3. GoodTable(n, [peers[n] EXCEPT ![m.node] = Entry("Connected", m.from)])
    BY <1>2, <2>2
  <2> DEFINE T == [peers[n] EXCEPT ![m.node] = Entry("Connected", m.from)]
  <2>4. GoodTable(n, T) /\ Becomes(n, T)
    BY <2>1, <2>3 DEF Becomes
  <2> HIDE DEF T
  <2> QED BY <2>2, <2>4, TakeStep
<1>5. CASE HandlePing(n, m)
  <2>1. Take(n, m, {Pong(addr[n], m.from)}) /\ UNCHANGED peers
    BY <1>5 DEF HandlePing
  <2>2. GoodPacket(Pong(addr[n], m.from))
    BY <2>1, TakerKnown, PlainPackets
  <2> QED BY <2>1, <2>2, TakerKnown, TakeStep
<1>6. CASE HandlePong(n, m)
  <2>1. Take(n, m, {})
    BY <1>6 DEF HandlePong
  <2>2. CASE UNCHANGED peers
    BY <2>1, <2>2, TakerKnown, TakeStep
  <2>3. ASSUME NEW p \in Node, peers[n][p].addr = m.from,
               peers' = [peers EXCEPT ![n][p] = Ponged(@)]
        PROVE  PeersInv'
    <3>1. peers' = [peers EXCEPT ![n] = [peers[n] EXCEPT ![p] = Ponged(peers[n][p])]]
      BY <2>3 DEF PeersInv, TablesInv
    <3>2. peers[n][p].addr # NoAddr
      BY <2>1, <2>3, TakerKnown, MeshAssumption
    <3>3. GoodTable(n, [peers[n] EXCEPT ![p] = Ponged(peers[n][p])])
      BY <2>1, <3>2, TakerKnown, PongedTable
    <3> DEFINE T == [peers[n] EXCEPT ![p] = Ponged(peers[n][p])]
    <3>4. GoodTable(n, T) /\ Becomes(n, T)
      BY <3>1, <3>3 DEF Becomes
    <3> HIDE DEF T
    <3> QED BY <2>1, <3>4, TakeStep
  <2> QED BY <1>6, <2>2, <2>3 DEF HandlePong
<1>7. CASE HandlePeerRequest(n, m)
  <2>1. PICK l \in Listings(peers[n]) : Take(n, m, {PeerAnnounce(l, addr[n], m.from)})
    BY <1>7 DEF HandlePeerRequest
  <2>2. GoodPacket(PeerAnnounce(l, addr[n], m.from))
    BY <2>1, TakerKnown, ListingsGood, AnnouncePacket
  <2>3. UNCHANGED peers
    BY <1>7 DEF HandlePeerRequest
  <2> QED BY <2>1, <2>2, <2>3, TakerKnown, TakeStep
<1>8. CASE HandlePeerAnnounce(n, m)
  <2>1. Take(n, m, {}) /\ m.type = "PeerAnnounce"
    BY <1>8 DEF HandlePeerAnnounce
  <2>2. GoodTable(n, Learned(n, peers[n], m.list))
    BY <2>1, TakerKnown, LearnedTable DEF GoodPacket
  <2>3. Becomes(n, Learned(n, peers[n], m.list))
    BY <1>8 DEF Becomes, HandlePeerAnnounce, PeersInv, TablesInv
  <2> QED BY <2>1, <2>2, <2>3, TakeStep
<1> QED BY <1>1, <1>3, <1>4, <1>5, <1>6, <1>7, <1>8 DEF HandleDirect

\* Gossip, which may bring addresses.
LEMMA GossipKeepsPeers ==
  ASSUME PeersInv, NEW n \in Node, NEW m \in wire, HandleGossip(n, m)
  PROVE  PeersInv'
<1>1. CASE Take(n, m, {}) /\ UNCHANGED peers
  BY <1>1, TakerKnown, TakeStep
<1>2. CASE /\ Take(n, m, Forwarded(n, m))
           /\ peers' = [peers EXCEPT ![n] = Learned(n, @, m.list)]
  <2>1. m.type = "Gossip"
    BY DEF HandleGossip
  <2>2. GoodTable(n, Learned(n, peers[n], m.list))
    BY <1>2, <2>1, TakerKnown, LearnedTable DEF GoodPacket
  <2>3. Becomes(n, Learned(n, peers[n], m.list))
    BY <1>2 DEF Becomes, PeersInv, TablesInv
  <2>4. \A x \in Forwarded(n, m) : GoodPacket(x)
    BY <1>2, <2>1, TakerKnown, ForwardedGood
  <2> QED BY <1>2, <2>2, <2>3, <2>4, TakeStep
<1> QED BY <1>1, <1>2 DEF HandleGossip

\* A call of the application, or a broadcast.
LEMMA SendKeepsPeers ==
  ASSUME PeersInv, NEW n \in Node, addr[n] # NoAddr,
         UNCHANGED <<process, peers, beats, beaten, faults>>,
         calls' = calls \/ (calls < MaxCalls /\ calls' = calls + 1),
         \A m \in wire' : m \in wire \/ GoodPacket(m)
  PROVE  PeersInv'
<1>1. CountersInv'
  BY MeshAssumption DEF PeersInv, CountersInv
<1>2. GoodTable(n, peers[n]) /\ "recv" \in Loop
  BY DEF PeersInv, TablesInv, Loop
<1> QED BY <1>1, <1>2, LocalStep DEF process

\* connect_peer, and the request for peers.
LEMMA CallKeepsPeers ==
  ASSUME PeersInv, NEW n \in Node,
         \/ \E x \in Addr : ConnectPeer(n, x)
         \/ \E p \in Node : AskForPeers(n, p)
  PROVE  PeersInv'
<1>1. ASSUME NEW m, Send(n, m), GoodPacket(m) PROVE PeersInv'
  BY <1>1, SendKeepsPeers DEF Send
<1>2. ASSUME NEW x \in Addr, ConnectPeer(n, x) PROVE PeersInv'
  <2>1. addr[n] \in Addr /\ Known(n, addr[n])
    BY <1>2, OwnKnown DEF ConnectPeer, Send, PeersInv
  <2> QED BY <1>1, <1>2, <2>1, PlainPackets DEF ConnectPeer
<1>3. ASSUME NEW p \in Node, AskForPeers(n, p) PROVE PeersInv'
  <2>1. addr[n] \in Addr
    BY <1>3, OwnKnown DEF AskForPeers, Send, PeersInv
  <2>2. peers[n][p].addr \in Addr
    BY <1>3 DEF AskForPeers, PeersInv, TablesInv, GoodTable, EntryType
  <2> QED BY <1>1, <1>3, <2>1, <2>2, PlainPackets DEF AskForPeers
<1> QED BY <1>2, <1>3

\* A broadcast of a task.
LEMMA BroadcastKeepsPeers ==
  ASSUME PeersInv, NEW n \in Node, NEW g \in Task, BroadcastTask(n, g)
  PROVE  PeersInv'
<1>1. /\ addr[n] # NoAddr
      /\ UNCHANGED <<process, peers, beats, beaten, calls, faults>>
      /\ wire' = wire \cup ToConnected(n, peers[n], g, NoList, 0, NoAddr)
  BY DEF BroadcastTask, history
<1>2. addr[n] \in Addr /\ GoodTable(n, peers[n]) /\ g \in Id /\ 0 \in 0..MaxHops
  BY <1>1, OwnKnown, MeshAssumption DEF PeersInv, TablesInv
<1>3. \A m \in ToConnected(n, peers[n], g, NoList, 0, NoAddr) : GoodPacket(m)
  BY <1>2, NoListGood, GossipPackets
<1> QED BY <1>1, <1>3, SendKeepsPeers

\* A round of the heartbeat loop.
LEMMA HeartbeatKeepsPeers ==
  ASSUME PeersInv, NEW n \in Node, Heartbeat(n)
  PROVE  PeersInv'
<1> DEFINE table == [p \in Node |-> Pruned(peers[n][p])]
<1>1. Beat(n, table)
  BY DEF Heartbeat
<1>2. addr[n] # NoAddr
  BY <1>1 DEF Beat, PeersInv, NodesInv
<1>3. addr[n] \in Addr /\ GoodTable(n, table)
  BY <1>2, OwnKnown, WholeTable DEF PeersInv, TablesInv
<1>4. \A m \in wire' : m \in wire \/ GoodPacket(m)
  <2>1. \A m \in Pings(n, table) : GoodPacket(m)
    BY <1>3, PingPackets
  <2>2. CASE wire' = wire \cup Pings(n, table)
    BY <2>1, <2>2
  <2>3. ASSUME NEW g \in Id \ Task, NEW l \in Listings(table),
               wire' = wire \cup Pings(n, table)
                            \cup ToConnected(n, table, g, l, 0, NoAddr)
        PROVE  \A m \in wire' : m \in wire \/ GoodPacket(m)
    <3>1. GoodList(l) /\ 0 \in 0..MaxHops
      BY <1>3, ListingsGood, MeshAssumption
    <3>2. \A m \in ToConnected(n, table, g, l, 0, NoAddr) : GoodPacket(m)
      BY <1>3, <3>1, GossipPackets
    <3> HIDE DEF table
    <3> QED BY <2>1, <2>3, <3>2
  <2> QED BY <2>2, <2>3 DEF Heartbeat
<1>5. CountersInv'
  <2>1. beats' = [beats EXCEPT ![n] = (@ + 1) % AnnounceEvery] /\ beaten' = beaten \cup {n}
    BY <1>1 DEF Beat
  <2>2. UNCHANGED <<calls, faults>>
    BY <1>1 DEF Beat, history
  <2>3. beats[n] + 1 \in Nat /\ AnnounceEvery \in Nat \ {0}
    BY MeshAssumption DEF PeersInv, CountersInv
  <2>4. (beats[n] + 1) % AnnounceEvery \in 0..(AnnounceEvery - 1)
    BY <2>3
  <2> QED BY <2>1, <2>2, <2>4 DEF PeersInv, CountersInv
<1>6. /\ Becomes(n, table) /\ "heart" \in Loop /\ UNCHANGED <<addr, running, starts>>
      /\ loops' = [loops EXCEPT ![n] = IF running[n] THEN @ ELSE @ \ {"heart"}]
  BY <1>1 DEF Beat, Becomes, Loop
<1> HIDE DEF table
<1> QED BY <1>2, <1>3, <1>4, <1>5, <1>6, LocalStep

\* What was known of a node stays known when processes come and go.
LEMMA KnownKept ==
  ASSUME NodesInv, \/ \E n \in Node, x \in Addr : Bind(n, x)
                   \/ \E n \in Node : Exit(n)
  PROVE  \A x : \A p \in Node : Known(p, x) => Known(p, x)'
<1>1. ASSUME NEW n \in Node, NEW y \in Addr, Bind(n, y)
      PROVE  \A x : \A p \in Node : Known(p, x) => Known(p, x)'
  <2>1. /\ \A p \in Node \ {n} : addr'[p] = addr[p] /\ starts'[p] = starts[p]
        /\ starts'[n] = starts[n] + 1 /\ starts[n] \in Nat
    BY <1>1, MeshAssumption DEF Bind, NodesInv
  <2> QED BY <2>1 DEF Known
<1>2. ASSUME NEW n \in Node, Exit(n)
      PROVE  \A x : \A p \in Node : Known(p, x) => Known(p, x)'
  <2>1. starts' = starts /\ addr'[n] = NoAddr
    BY <1>2 DEF Exit, NodesInv
  <2>2. \A p \in Node \ {n} : addr'[p] = addr[p]
    BY <1>2 DEF Exit, NodesInv
  <2>3. SUFFICES ASSUME NEW p \in Node, NEW x, Known(p, x) PROVE Known(p, x)'
    OBVIOUS
  <2>4. addr'[p] # NoAddr => addr'[p] = addr[p]
    BY <2>1, <2>2
  <2> QED BY <2>1, <2>3, <2>4 DEF Known
<1> QED BY <1>1, <1>2

\* Packets and tables stay good as long as no address is disowned.
LEMMA GoodKept ==
  ASSUME TablesInv, PacketsInv, \A x : \A p \in Node : Known(p, x) => Known(p, x)'
  PROVE  /\ \A T : \A n \in Node : GoodTable(n, T) => GoodTable(n, T)'
         /\ \A m : GoodPacket(m) => GoodPacket(m)'
<1>1. \A T : \A n \in Node : GoodTable(n, T) => GoodTable(n, T)'
  BY DEF GoodTable
<1>2. \A l : GoodList(l) => GoodList(l)'
  BY DEF GoodList, Lists
<1>3. ASSUME NEW m, GoodPacket(m) PROVE GoodPacket(m)'
  <2>1. m.type \in {"Handshake", "HandshakeAck"} => Known(m.node, m.from)'
    BY <1>3 DEF GoodPacket, Packet
  <2> QED BY <1>2, <1>3, <2>1 DEF GoodPacket
<1> QED BY <1>1, <1>3

\* A process starts.
LEMMA BindKeepsPeers ==
  ASSUME PeersInv, NEW n \in Node, NEW x \in Addr, Bind(n, x)
  PROVE  PeersInv'
<1> USE DEF PeersInv
<1>1. TablesInv' /\ PacketsInv'
  <2>1. UNCHANGED <<peers, wire>>
    BY DEF Bind
  <2> QED BY <2>1, KnownKept, GoodKept DEF TablesInv, PacketsInv
<1>2. NodesInv'
  <2>1. /\ addr' = [addr EXCEPT ![n] = x]
        /\ running' = [running EXCEPT ![n] = TRUE]
        /\ loops' = [loops EXCEPT ![n] = Loop]
        /\ starts' = [starts EXCEPT ![n] = @ + 1]
        /\ x \in Bindable[n] /\ starts[n] < MaxStarts
        /\ UNCHANGED peers
    BY MeshAssumption DEF Bind, Loop, NodesInv
  <2>2. x # NoAddr /\ starts[n] + 1 \in 0..MaxStarts
    BY <2>1, MeshAssumption DEF NodesInv
  <2>3. /\ addr' \in [Node -> Addr \cup {NoAddr}]
        /\ running' \in [Node -> BOOLEAN]
        /\ loops' \in [Node -> SUBSET Loop]
        /\ starts' \in [Node -> 0..MaxStarts]
    BY <2>1, <2>2 DEF NodesInv
  <2>4. ASSUME NEW p \in Node
        PROVE  /\ addr'[p] = NoAddr => peers'[p] = [q \in Node |-> NoEntry] /\ loops'[p] = {}
               /\ addr'[p] # NoAddr => addr'[p] \in Bindable[p] /\ starts'[p] >= 1
               /\ running'[p] => loops'[p] = Loop
    BY <2>1, <2>2, MeshAssumption DEF NodesInv
  <2> QED BY <2>3, <2>4 DEF NodesInv
<1>3. CountersInv'
  BY DEF Bind, CountersInv, history
<1> QED BY <1>1, <1>2, <1>3

\* A process ends.
LEMMA ExitKeepsPeers ==
  ASSUME PeersInv, NEW n \in Node, Exit(n)
  PROVE  PeersInv'
<1> USE DEF PeersInv
<1>1. /\ addr' = [addr EXCEPT ![n] = NoAddr]
      /\ running' = [running EXCEPT ![n] = FALSE]
      /\ loops' = [loops EXCEPT ![n] = {}]
      /\ peers' = [peers EXCEPT ![n] = [p \in Node |-> NoEntry]]
      /\ beats' = [beats EXCEPT ![n] = 0]
      /\ beaten' = beaten \ {n}
      /\ UNCHANGED <<wire, starts, calls, faults>>
  BY DEF Exit, history
<1>2. GoodTable(n, [p \in Node |-> NoEntry])
  BY NoEntryStays DEF GoodTable
<1>3. TablesInv' /\ PacketsInv'
  <2>1. \A p \in Node : GoodTable(p, peers'[p])
    BY <1>1, <1>2 DEF TablesInv
  <2>2. peers' \in [Node -> [Node -> EntryType]]
    BY <1>1, <1>2 DEF TablesInv, GoodTable
  <2>3. \A p \in Node : GoodTable(p, peers[p])'
    BY <2>1, KnownKept, GoodKept
  <2> QED BY <1>1, <2>2, <2>3, KnownKept, GoodKept DEF TablesInv, PacketsInv
<1>4. NodesInv'
  <2>1. /\ addr' \in [Node -> Addr \cup {NoAddr}]
        /\ running' \in [Node -> BOOLEAN]
        /\ loops' \in [Node -> SUBSET Loop]
        /\ starts' \in [Node -> 0..MaxStarts]
    BY <1>1 DEF NodesInv
  <2>2. \A p \in Node \ {n} : /\ addr'[p] = addr[p] /\ running'[p] = running[p]
                              /\ loops'[p] = loops[p] /\ peers'[p] = peers[p]
    BY <1>1 DEF NodesInv, TablesInv
  <2>3. /\ addr'[n] = NoAddr /\ ~running'[n] /\ loops'[n] = {}
        /\ peers'[n] = [p \in Node |-> NoEntry]
    BY <1>1 DEF NodesInv, TablesInv
  <2>4. ASSUME NEW p \in Node
        PROVE  /\ addr'[p] = NoAddr => peers'[p] = [q \in Node |-> NoEntry] /\ loops'[p] = {}
               /\ addr'[p] # NoAddr => addr'[p] \in Bindable[p] /\ starts'[p] >= 1
               /\ running'[p] => loops'[p] = Loop
    <3>1. CASE p = n
      BY <2>3, <3>1
    <3>2. CASE p # n
      BY <1>1, <2>2, <3>2 DEF NodesInv
    <3> QED BY <3>1, <3>2
  <2> QED BY <2>1, <2>4 DEF NodesInv
<1>5. CountersInv'
  BY <1>1, MeshAssumption DEF CountersInv
<1> QED BY <1>3, <1>4, <1>5

\* A tick.
LEMMA TickKeepsPeers ==
  ASSUME PeersInv, Tick
  PROVE  PeersInv'
<1> USE DEF PeersInv
<1>1. /\ peers' = [n \in Node |-> [p \in Node |-> Older(peers[n][p])]]
      /\ beaten' = {}
      /\ wire' \subseteq wire
      /\ UNCHANGED <<addr, running, loops, starts, beats, calls>>
      /\ faults' = faults \/ (faults < MaxFaults /\ faults' = faults + 1)
  BY DEF Tick, process, Fault
<1>2. \A p, x : Known(p, x)' <=> Known(p, x)
  BY <1>1 DEF Known
<1>3. ASSUME NEW n \in Node PROVE GoodTable(n, peers'[n])
  BY <1>1, WholeTable DEF TablesInv
<1>4. TablesInv'
  <2>1. \A n \in Node : peers'[n] \in [Node -> EntryType]
    BY <1>3 DEF GoodTable
  <2>2. peers' \in [Node -> [Node -> EntryType]]
    BY <1>1, <2>1
  <2> QED BY <1>2, <1>3, <2>2 DEF TablesInv, GoodTable
<1>5. PacketsInv'
  BY <1>1, <1>2 DEF PacketsInv, GoodPacket, GoodList
<1>6. NodesInv'
  <2>1. ASSUME NEW n \in Node, addr[n] = NoAddr PROVE peers'[n] = [p \in Node |-> NoEntry]
    <3>1. \A p \in Node : peers[n][p] = NoEntry
      BY <2>1 DEF NodesInv
    <3> QED BY <1>1, <3>1, NoEntryStays
  <2> QED BY <1>1, <2>1 DEF NodesInv
<1>7. CountersInv'
  BY <1>1, MeshAssumption DEF CountersInv
<1> QED BY <1>4, <1>5, <1>6, <1>7

\* Steps that touch neither tables nor addresses, and send nothing.
LEMMA IdleKeepsPeers ==
  ASSUME PeersInv, UNCHANGED <<addr, loops, starts, peers>>,
         wire' \subseteq wire, CountersInv',
         running' \in [Node -> BOOLEAN], \A n \in Node : running'[n] => running[n]
  PROVE  PeersInv'
<1> USE DEF PeersInv
<1>1. \A p, x : Known(p, x)' <=> Known(p, x)
  BY DEF Known
<1>2. TablesInv'
  BY <1>1 DEF TablesInv, GoodTable
<1>3. PacketsInv'
  BY <1>1 DEF PacketsInv, GoodPacket, GoodList
<1>4. NodesInv'
  BY DEF NodesInv
<1> QED BY <1>2, <1>3, <1>4

\* The linked nodes start with good tables.
LEMMA InitPeersInv == Init => PeersInv
<1> SUFFICES ASSUME Init PROVE PeersInv
  OBVIOUS
<1> USE MeshAssumption
<1> DEFINE up == {l[1] : l \in Linked} \cup {l[2] : l \in Linked}
           at == [n \in Node |-> IF n \in up THEN CHOOSE x \in Bindable[n] : TRUE
                                 ELSE NoAddr]
<1>1. \A n \in Node : (CHOOSE x \in Bindable[n] : TRUE) \in Bindable[n]
  OBVIOUS
<1>2. /\ addr = at
      /\ running = [n \in Node |-> n \in up]
      /\ loops = [n \in Node |-> IF n \in up THEN Loop ELSE {}]
      /\ peers = [n \in Node |-> [p \in Node |->
                    IF <<n, p>> \in Linked THEN Entry("Connected", at[p]) ELSE NoEntry]]
      /\ starts = [n \in Node |-> IF n \in up THEN 1 ELSE 0]
      /\ wire = {}
  BY DEF Init, Loop
<1>3. \A n, p \in Node : <<n, p>> \in Linked => n \in up /\ p \in up /\ n # p
  OBVIOUS
<1>4. \A n \in Node : n \in up => at[n] \in Bindable[n] /\ at[n] \in Addr /\ at[n] # NoAddr
  BY <1>1
<1>5. \A n \in Node : n \notin up => at[n] = NoAddr
  OBVIOUS
<1>6. at \in [Node -> Addr \cup {NoAddr}]
  BY <1>1
<1> HIDE DEF up, at
<1>7. ASSUME NEW n \in Node PROVE GoodTable(n, peers[n])
  <2>1. ASSUME NEW p \in Node
        PROVE  /\ peers[n][p] \in EntryType
               /\ peers[n][p].state = "Unknown" <=> peers[n][p].addr = NoAddr
               /\ peers[n][p].state # "Unknown" => Known(p, peers[n][p].addr)
    <3>1. CASE <<n, p>> \in Linked
      <4>1. peers[n][p] = Entry("Connected", at[p]) /\ p \in up
        BY <1>2, <1>3, <3>1
      <4>2. addr[p] = at[p] /\ starts[p] = 1 /\ at[p] \in Bindable[p]
            /\ at[p] \in Addr /\ at[p] # NoAddr
        BY <1>2, <1>4, <4>1
      <4> QED BY <4>1, <4>2 DEF Entry, EntryType, PeerState, Known
    <3>2. CASE <<n, p>> \notin Linked
      <4>1. peers[n][p] = NoEntry
        BY <1>2, <3>2
      <4> QED BY <4>1, NoEntryStays
    <3> QED BY <3>1, <3>2
  <2>2. peers[n][n] = NoEntry
    BY <1>2
  <2>3. peers[n] \in [Node -> EntryType]
    BY <1>2, <2>1
  <2> QED BY <2>1, <2>2, <2>3 DEF GoodTable
<1>8. TablesInv
  <2>1. \A n \in Node : peers[n] \in [Node -> EntryType]
    BY <1>7 DEF GoodTable
  <2>2. peers \in [Node -> [Node -> EntryType]]
    BY <1>2, <2>1
  <2> QED BY <1>7, <2>2 DEF TablesInv
<1>9. PacketsInv
  BY <1>2 DEF PacketsInv
<1>10. NodesInv
  <2>1. starts \in [Node -> 0..MaxStarts]
    <3>1. 0 \in 0..MaxStarts /\ 1 \in 0..MaxStarts
      OBVIOUS
    <3> QED BY <1>2, <3>1
  <2>2. ASSUME NEW n \in Node, addr[n] = NoAddr
        PROVE  peers[n] = [p \in Node |-> NoEntry] /\ loops[n] = {}
    <3>1. n \notin up
      BY <1>2, <1>4, <2>2
    <3> QED BY <1>2, <1>3, <3>1
  <2>3. ASSUME NEW n \in Node, addr[n] # NoAddr
        PROVE  addr[n] \in Bindable[n] /\ starts[n] >= 1
    <3>1. n \in up
      BY <1>2, <1>5, <2>3
    <3> QED BY <1>2, <1>4, <3>1
  <2>4. running \in [Node -> BOOLEAN] /\ loops \in [Node -> SUBSET Loop]
    BY <1>2
  <2>5. \A n \in Node : running[n] => loops[n] = Loop
    BY <1>2
  <2> QED BY <1>2, <1>6, <2>1, <2>2, <2>3, <2>4, <2>5 DEF NodesInv
<1>11. CountersInv
  BY DEF Init, CountersInv
<1> QED BY <1>8, <1>9, <1>10, <1>11 DEF PeersInv

\* Every step keeps the invariant.
LEMMA NextPeersInv == PeersInv /\ [Next]_vars => PeersInv'
<1> SUFFICES ASSUME PeersInv, [Next]_vars PROVE PeersInv'
  OBVIOUS
<1>1. ASSUME NEW n \in Node, NEW x \in Addr, Bind(n, x) PROVE PeersInv'
  BY <1>1, BindKeepsPeers
<1>2. ASSUME NEW n \in Node, NEW x \in Addr, ConnectPeer(n, x) PROVE PeersInv'
  BY <1>2, CallKeepsPeers
<1>3. ASSUME NEW n \in Node, Stop(n) PROVE PeersInv'
  <2>1. running' = [running EXCEPT ![n] = FALSE] /\ running \in [Node -> BOOLEAN]
    BY <1>3 DEF Stop, PeersInv, NodesInv
  <2>2. CountersInv'
    BY <1>3 DEF Stop, history, PeersInv, CountersInv
  <2>3. running' \in [Node -> BOOLEAN] /\ \A p \in Node : running'[p] => running[p]
    BY <2>1
  <2>4. UNCHANGED <<addr, loops, starts, peers, wire>>
    BY <1>3 DEF Stop
  <2> QED BY <2>2, <2>3, <2>4, IdleKeepsPeers
<1>4. ASSUME NEW n \in Node, Exit(n) PROVE PeersInv'
  BY <1>4, ExitKeepsPeers
<1>5. ASSUME NEW n \in Node, Heartbeat(n) PROVE PeersInv'
  BY <1>5, HeartbeatKeepsPeers
<1>6. ASSUME NEW n \in Node, NEW p \in Node, AskForPeers(n, p) PROVE PeersInv'
  BY <1>6, CallKeepsPeers
<1>7. ASSUME NEW n \in Node, NEW g \in Task, BroadcastTask(n, g) PROVE PeersInv'
  BY <1>7, BroadcastKeepsPeers
<1>8. ASSUME NEW n \in Node, NEW m \in wire, HandleDirect(n, m) PROVE PeersInv'
  BY <1>8, DirectKeepsPeers
<1>9. ASSUME NEW n \in Node, NEW m \in wire, HandleGossip(n, m) PROVE PeersInv'
  BY <1>9, GossipKeepsPeers
<1>10. CASE Tick
  BY <1>10, TickKeepsPeers
<1>11. ASSUME NEW m \in wire, Lose(m) PROVE PeersInv'
  <2>1. UNCHANGED <<addr, running, loops, starts, peers, beats, beaten, calls>>
        /\ wire' \subseteq wire /\ faults < MaxFaults /\ faults' = faults + 1
    BY <1>11 DEF Lose, Fault, process
  <2>2. CountersInv'
    BY <2>1, MeshAssumption DEF PeersInv, CountersInv
  <2>3. running' \in [Node -> BOOLEAN] /\ \A p \in Node : running'[p] => running[p]
    BY <2>1 DEF PeersInv, NodesInv
  <2> QED BY <2>1, <2>2, <2>3, IdleKeepsPeers
<1>12. CASE UNCHANGED vars
  <2>1. UNCHANGED <<addr, running, loops, starts, peers, wire, beats, beaten, calls, faults>>
    BY <1>12 DEF vars
  <2>2. CountersInv'
    BY <2>1 DEF PeersInv, CountersInv
  <2>3. running' \in [Node -> BOOLEAN] /\ \A p \in Node : running'[p] => running[p]
    BY <2>1 DEF PeersInv, NodesInv
  <2> QED BY <2>1, <2>2, <2>3, IdleKeepsPeers
<1> QED BY <1>1, <1>2, <1>3, <1>4, <1>5, <1>6, <1>7, <1>8, <1>9, <1>10, <1>11, <1>12
        DEF Next

\* Every address a node remembers or tells of a peer is one of the peer's own,
\* and the only one of a process that has run from the start; a node that ends
\* takes its table with it.
THEOREM PeersInvariance == Spec => []PeersInv
BY InitPeersInv, NextPeersInv, PTL DEF Spec

-----------------------------------------------------------------------------
(* Only a handshake connects *)

\* The handlers and the heartbeat: an entry becomes Connected by a handshake,
\* or was Connected or Stale before.
LEMMA HandshakesConnect ==
  ASSUME PeersInv, [Next]_vars, NEW n \in Node, NEW p \in Node,
         peers[n][p].state \notin {"Connected", "Stale"},
         peers'[n][p].state \in {"Connected", "Stale"}
  PROVE  \E m \in wire : /\ m.type \in {"Handshake", "HandshakeAck"}
                         /\ m.node = p /\ m.to = addr[n]
<1> USE DEF PeersInv, TablesInv
<1>1. peers'[n][p] # peers[n][p] /\ peers[n][p] \in EntryType
  OBVIOUS
<1>2. ASSUME NEW q \in Node, NEW m \in wire, HandleDirect(q, m)
      PROVE  \E h \in wire : /\ h.type \in {"Handshake", "HandshakeAck"}
                             /\ h.node = p /\ h.to = addr[n]
  <2>1. CASE HandleHandshake(q, m) \/ HandleHandshakeAck(q, m)
    <3>1. /\ m.type \in {"Handshake", "HandshakeAck"} /\ m.to = addr[q]
          /\ peers' = [peers EXCEPT ![q][m.node] = Entry("Connected", m.from)]
      BY <2>1 DEF HandleHandshake, HandleHandshakeAck, Take
    <3>2. q = n /\ m.node = p
      BY <1>1, <3>1
    <3> QED BY <3>1, <3>2
  <2>2. CASE HandlePong(q, m)
    <3>1. PICK r \in Node : peers' = [peers EXCEPT ![q][r] = Ponged(@)]
      BY <1>1, <2>2 DEF HandlePong
    <3>2. q = n /\ r = p /\ peers'[n][p] = Ponged(peers[n][p])
      BY <1>1, <3>1
    <3>3. peers'[n][p].state = peers[n][p].state
      BY <1>1, <3>2 DEF Ponged, EntryType
    <3> QED BY <3>3
  <2>3. CASE HandlePeerAnnounce(q, m)
    <3>1. peers' = [peers EXCEPT ![q] = Learned(q, @, m.list)]
      BY <2>3 DEF HandlePeerAnnounce
    <3>2. q = n /\ peers'[n] = Learned(n, peers[n], m.list)
      BY <1>1, <3>1
    <3>3. peers'[n][p] = Upserted(peers[n][p], m.list[p])
      BY <1>1, <3>2 DEF Learned
    <3>4. peers'[n][p].state \in {"Discovered", peers[n][p].state}
      BY <1>1, <3>3 DEF Upserted, Entry, EntryType
    <3> QED BY <3>4
  <2>4. CASE HandleOwn(q, m) \/ HandlePing(q, m) \/ HandlePeerRequest(q, m)
    <3>1. UNCHANGED peers
      BY <2>4 DEF HandleOwn, HandlePing, HandlePeerRequest
    <3> QED BY <1>1, <3>1
  <2> QED BY <1>2, <2>1, <2>2, <2>3, <2>4 DEF HandleDirect
<1>3. ASSUME NEW q \in Node, NEW m \in wire, HandleGossip(q, m) PROVE FALSE
  <2>1. peers' = [peers EXCEPT ![q] = Learned(q, @, m.list)]
    BY <1>1, <1>3 DEF HandleGossip
  <2>2. q = n /\ peers'[n] = Learned(n, peers[n], m.list)
    BY <1>1, <2>1
  <2>3. peers'[n][p] = Upserted(peers[n][p], m.list[p])
    BY <1>1, <2>2 DEF Learned
  <2>4. peers'[n][p].state \in {"Discovered", peers[n][p].state}
    BY <1>1, <2>3 DEF Upserted, Entry, EntryType
  <2> QED BY <2>4
<1>4. ASSUME NEW q \in Node, Heartbeat(q) PROVE FALSE
  <2>1. peers' = [peers EXCEPT ![q] = [r \in Node |-> Pruned(peers[q][r])]]
    BY <1>4 DEF Heartbeat, Beat
  <2>2. peers'[n][p] = Pruned(peers[n][p])
    BY <1>1, <2>1
  <2>3. peers'[n][p].state \in {"Disconnected", peers[n][p].state}
    BY <1>1, <2>2 DEF Pruned, EntryType
  <2> QED BY <2>3
<1>5. CASE Tick
  <2>1. peers'[n][p] = Older(peers[n][p])
    BY <1>5 DEF Tick
  <2>2. peers'[n][p].state = peers[n][p].state
    BY <1>1, <2>1 DEF Older, EntryType
  <2> QED BY <2>2
<1>6. ASSUME NEW q \in Node, Exit(q) PROVE FALSE
  <2>1. peers'[n][p] \in {NoEntry, peers[n][p]}
    BY <1>6 DEF Exit
  <2> QED BY <1>1, <2>1, NoEntryStays
<1>7. CASE UNCHANGED peers
  BY <1>1, <1>7
<1>8. \/ UNCHANGED peers \/ Tick
      \/ \E q \in Node : Exit(q) \/ Heartbeat(q)
      \/ \E q \in Node, m \in wire : HandleDirect(q, m) \/ HandleGossip(q, m)
  BY DEF Next, vars, Bind, Stop, ConnectPeer, AskForPeers, Send, BroadcastTask, Lose
<1> QED BY <1>2, <1>3, <1>4, <1>5, <1>6, <1>7, <1>8

\* Neither an announcement, nor gossip, nor a late pong, nor the passing of
\* time makes a peer connected that is unknown, only heard of or given up.
THEOREM ConnectedByHandshakeHolds == Spec => ConnectedByHandshake
<1>1. PeersInv /\ [Next]_vars =>
        [\A n, p \in Node :
           (/\ peers[n][p].state \notin {"Connected", "Stale"}
            /\ peers'[n][p].state \in {"Connected", "Stale"})
           => \E m \in wire : /\ m.type \in {"Handshake", "HandshakeAck"}
                              /\ m.node = p /\ m.to = addr[n]]_vars
  BY HandshakesConnect
<1> QED BY <1>1, PeersInvariance, PTL DEF Spec, ConnectedByHandshake

-----------------------------------------------------------------------------
(* No false alarm *)

\* Every variable has its type.
LEMMA PeersType == PeersInv /\ IInv => TypeOK
<1> SUFFICES ASSUME PeersInv, IInv PROVE TypeOK
  OBVIOUS
<1>1. /\ addr \in [Node -> Addr \cup {NoAddr}]
      /\ running \in [Node -> BOOLEAN]
      /\ loops \in [Node -> SUBSET {"recv", "heart"}]
      /\ starts \in [Node -> 0..MaxStarts]
  BY DEF PeersInv, NodesInv, Loop
<1>2. /\ peers \in [Node -> [Node -> [state : PeerState, addr : Addr \cup {NoAddr},
                                     age : 0..DisconnectAfter]]]
      /\ \A n, p \in Node : peers[n][p].state = "Unknown" <=> peers[n][p].addr = NoAddr
      /\ \A n \in Node : peers[n][n] = NoEntry
  BY DEF PeersInv, TablesInv, GoodTable, EntryType
<1>3. wire \subseteq Packet
  BY DEF PeersInv, PacketsInv, GoodPacket
<1>4. \A n \in Node : filter[n].seen \subseteq Id /\ filter[n].queue \in Seq(Id)
  BY DEF IInv, FilterInv, Filter
<1>5. /\ origin \in [Id -> Node \cup {NoNode}]
      /\ delivered \in [Node -> [Task -> 0..2]]
      /\ forgotten \in [Node -> SUBSET Id]
  BY DEF IInv, WireInv, DeliveryInv
<1>6. CountersInv
  BY DEF PeersInv
<1> QED BY <1>1, <1>2, <1>3, <1>4, <1>5, <1>6 DEF TypeOK, CountersInv

\* No two nodes may bind the same address.
AddressesApart == \A n, p \in Node : n # p => Bindable[n] \cap Bindable[p] = {}

\* An entry that is no older than before, or not old at all.
Improves(e, f) ==
  \/ f.state = e.state /\ f.age = e.age
  \/ f.state # "Stale" /\ (f.state = "Connected" => f.age = 0)

\* A ping or its answer between n and p is on its way.
Asked(n, p) == Ping(addr[n], addr[p]) \in wire \/ Pong(addr[p], addr[n]) \in wire

\* A step keeps FreshInv when it stops and starts nobody who matters, lets no
\* entry grow older, and loses no ping and no pong without an effect.
LEMMA FreshStep ==
  ASSUME FreshInv, faults' = 0 => faults = 0,
         \A n, p \in Node : faults' = 0 /\ Watched(n, p)' =>
           /\ Watched(n, p) /\ addr'[n] = addr[n] /\ addr'[p] = addr[p]
           /\ Improves(peers[n][p], peers'[n][p])
           /\ n \in beaten' => n \in beaten
           /\ Asked(n, p) => \/ Asked(n, p)'
                             \/ peers'[n][p].state = "Connected" => peers'[n][p].age = 0
  PROVE  FreshInv'
<1> SUFFICES ASSUME faults' = 0, NEW n \in Node, NEW p \in Node, Watched(n, p)'
             PROVE  Fresh(n, p)'
  BY DEF FreshInv
<1>1. Fresh(n, p)
  BY DEF FreshInv
<1> QED BY <1>1 DEF Fresh, Improves, Asked

\* The addresses of watched nodes: they are in the tables, and tell them apart.
LEMMA WatchedAddresses ==
  ASSUME AddressesApart, PeersInv, NEW n \in Node, NEW p \in Node, Watched(n, p)
  PROVE  /\ addr[n] # NoAddr /\ addr[p] # NoAddr
         /\ loops[n] = Loop /\ loops[p] = Loop
         /\ peers[n][p].state # "Unknown" => peers[n][p].addr = addr[p]
         /\ \A q \in Node : addr[q] = addr[n] => q = n
         /\ \A q \in Node : peers[n][q].addr = addr[p] => q = p
<1>1. loops[n] = Loop /\ loops[p] = Loop
  BY DEF Watched, PeersInv, NodesInv
<1>2. addr[n] # NoAddr /\ addr[p] # NoAddr
  BY <1>1 DEF PeersInv, NodesInv, Loop
<1>3. \A q \in Node : peers[n][q].state # "Unknown" => Known(q, peers[n][q].addr)
  BY DEF PeersInv, TablesInv, GoodTable
<1>4. peers[n][p].state # "Unknown" => peers[n][p].addr = addr[p]
  BY <1>2, <1>3 DEF Watched, Known
<1>5. addr[n] \in Bindable[n] /\ addr[p] \in Bindable[p]
  BY <1>2 DEF PeersInv, NodesInv
<1>6. ASSUME NEW q \in Node, addr[q] = addr[n] PROVE q = n
  BY <1>2, <1>5, <1>6 DEF PeersInv, NodesInv, AddressesApart
<1>7. ASSUME NEW q \in Node, peers[n][q].addr = addr[p] PROVE q = p
  <2>1. peers[n][q].state # "Unknown"
    BY <1>2, <1>7 DEF PeersInv, TablesInv, GoodTable
  <2>2. addr[p] \in Bindable[q]
    BY <1>3, <1>7, <2>1 DEF Known
  <2> QED BY <1>5, <2>2 DEF AddressesApart
<1> QED BY <1>1, <1>2, <1>4, <1>6, <1>7

\* What a packet taken in time leaves on the wire.
LEMMA TakeInTime ==
  ASSUME PeersInv, NEW n \in Node, NEW m \in wire, NEW out, Take(n, m, out)
  PROVE  /\ UNCHANGED <<addr, running, starts, beaten>> /\ m.to = addr[n]
         /\ faults' = 0 => faults = 0 /\ wire' = (wire \ {m}) \cup out
         /\ \A q, p \in Node : Watched(q, p)' <=> Watched(q, p)
<1>1. faults \in Nat
  BY MeshAssumption DEF PeersInv, CountersInv
<1>2. UNCHANGED <<addr, running, starts, beaten>> /\ m.to = addr[n]
  BY DEF Take
<1>3. faults' = 0 => faults = 0 /\ wire' = (wire \ {m}) \cup out
  BY <1>1 DEF Take, Fault
<1> QED BY <1>2, <1>3 DEF Watched

\* A packet that is no ping and no pong, and lets no entry grow older.
LEMMA OtherPacketFresh ==
  ASSUME PeersInv, FreshInv, NEW n \in Node, NEW m \in wire, NEW out, Take(n, m, out),
         m.type \notin {"Ping", "Pong"},
         \A q, p \in Node : Improves(peers[q][p], peers'[q][p])
  PROVE  FreshInv'
<1>1. \A x, y : m # Ping(x, y) /\ m # Pong(x, y)
  BY DEF Ping, Pong
<1>2. ASSUME NEW q \in Node, NEW p \in Node, faults' = 0, Asked(q, p) PROVE Asked(q, p)'
  BY <1>1, <1>2, TakeInTime DEF Asked
<1> QED BY <1>2, TakeInTime, FreshStep

\* The loop over the peers of an announcement lets no entry grow older.
LEMMA LearnedImproves ==
  ASSUME PeersInv, NEW n \in Node, NEW l, peers' = [peers EXCEPT ![n] = Learned(n, @, l)],
         NEW q \in Node, NEW p \in Node
  PROVE  Improves(peers[q][p], peers'[q][p])
<1>1. peers[q][p] \in EntryType
  BY DEF PeersInv, TablesInv
<1>2. peers'[q][p] \in {peers[q][p], Upserted(peers[q][p], l[p])}
  BY DEF Learned, PeersInv, TablesInv
<1>3. Improves(peers[q][p], peers[q][p])
  BY DEF Improves
<1>4. Improves(peers[q][p], Upserted(peers[q][p], l[p]))
  BY <1>1 DEF Improves, Upserted, Entry, EntryType
<1> QED BY <1>2, <1>3, <1>4

\* An entry that a handshake writes is new.
LEMMA ConnectedImproves ==
  ASSUME PeersInv, NEW n \in Node, NEW r, NEW x,
         peers' = [peers EXCEPT ![n][r] = Entry("Connected", x)],
         NEW q \in Node, NEW p \in Node
  PROVE  Improves(peers[q][p], peers'[q][p])
<1>1. peers'[q][p] \in {peers[q][p], Entry("Connected", x)}
  BY DEF PeersInv, TablesInv
<1> QED BY <1>1 DEF Improves, Entry

\* A ping is answered at once.
LEMMA PingFresh ==
  ASSUME PeersInv, FreshInv, NEW n \in Node, NEW m \in wire, HandlePing(n, m)
  PROVE  FreshInv'
<1>1. Take(n, m, {Pong(addr[n], m.from)}) /\ UNCHANGED peers /\ m.type = "Ping"
  BY DEF HandlePing
<1>2. ASSUME NEW q \in Node, NEW p \in Node, faults' = 0, Asked(q, p)
      PROVE  Asked(q, p)'
  <2>1. /\ wire' = (wire \ {m}) \cup {Pong(addr[n], m.from)}
        /\ addr' = addr /\ m.to = addr[n]
    BY <1>1, <1>2, TakeInTime
  <2>2. CASE m = Ping(addr[q], addr[p])
    <3>1. m.from = addr[q] /\ m.to = addr[p]
      BY <2>2 DEF Ping
    <3>2. Pong(addr[p], addr[q]) \in wire'
      BY <2>1, <3>1
    <3> QED BY <2>1, <3>2 DEF Asked
  <2>3. CASE m # Ping(addr[q], addr[p])
    <3>1. m # Pong(addr[p], addr[q])
      BY <1>1 DEF Pong
    <3> QED BY <1>2, <2>1, <2>3, <3>1 DEF Asked
  <2> QED BY <2>2, <2>3
<1>3. \A q, p \in Node : Improves(peers[q][p], peers'[q][p])
  BY <1>1 DEF Improves
<1> QED BY <1>1, <1>2, <1>3, TakeInTime, FreshStep

\* A pong makes young the entry of the node it came from.
LEMMA PongFresh ==
  ASSUME AddressesApart, PeersInv, FreshInv, NEW n \in Node, NEW m \in wire, HandlePong(n, m)
  PROVE  FreshInv'
<1>1. Take(n, m, {}) /\ m.type = "Pong"
  BY DEF HandlePong
<1>2. \A q, p \in Node : peers[q][p] \in EntryType
  BY DEF PeersInv, TablesInv
<1>3. ASSUME NEW q \in Node, NEW p \in Node
      PROVE  Improves(peers[q][p], peers'[q][p])
  <2>1. peers'[q][p] \in {peers[q][p], Ponged(peers[q][p])}
    BY DEF HandlePong, PeersInv, TablesInv
  <2>2. Improves(peers[q][p], peers[q][p]) /\ Improves(peers[q][p], Ponged(peers[q][p]))
    BY <1>2 DEF Improves, Ponged, EntryType
  <2> QED BY <2>1, <2>2
<1>4. ASSUME NEW q \in Node, NEW p \in Node, faults' = 0, Watched(q, p), Asked(q, p)
      PROVE  \/ Asked(q, p)'
             \/ peers'[q][p].state = "Connected" => peers'[q][p].age = 0
  <2>1. wire' = wire \ {m} /\ addr' = addr /\ m.to = addr[n]
    BY <1>1, <1>4, TakeInTime
  <2>2. CASE m = Pong(addr[p], addr[q])
    <3>1. m.from = addr[p] /\ n = q
      BY <1>4, <2>1, <2>2, WatchedAddresses DEF Pong
    <3>2. CASE peers[q][p].state = "Unknown"
      <4>1. Ponged(peers[q][p]).state = "Unknown"
        BY <1>2, <3>2 DEF Ponged, EntryType
      <4>2. peers'[q][p] \in {peers[q][p], Ponged(peers[q][p])}
        BY DEF HandlePong, PeersInv, TablesInv
      <4> QED BY <3>2, <4>1, <4>2
    <3>3. CASE peers[q][p].state # "Unknown"
      <4>1. \A r \in Node : peers[n][r].addr = m.from <=> r = p
        BY <1>4, <3>1, <3>3, WatchedAddresses
      <4>2. peers' = [peers EXCEPT ![n][p] = Ponged(@)]
        BY <4>1 DEF HandlePong
      <4>3. peers'[q][p] = Ponged(peers[q][p])
        BY <3>1, <4>2 DEF PeersInv, TablesInv
      <4> QED BY <1>2, <4>3 DEF Ponged, EntryType
    <3> QED BY <3>2, <3>3
  <2>3. CASE m # Pong(addr[p], addr[q])
    <3>1. m # Ping(addr[q], addr[p])
      BY <1>1 DEF Ping
    <3> QED BY <1>4, <2>1, <2>3, <3>1 DEF Asked
  <2> QED BY <2>2, <2>3
<1> QED BY <1>1, <1>3, <1>4, TakeInTime, FreshStep

\* All packets but gossip.
LEMMA DirectFresh ==
  ASSUME AddressesApart, PeersInv, FreshInv,
         NEW n \in Node, NEW m \in wire, HandleDirect(n, m)
  PROVE  FreshInv'
<1>1. ASSUME UNCHANGED peers, NEW q \in Node, NEW p \in Node
      PROVE  Improves(peers[q][p], peers'[q][p])
  BY <1>1 DEF Improves
<1>2. CASE HandleOwn(n, m)
  <2>1. Take(n, m, {}) /\ m.type \notin {"Ping", "Pong"} /\ UNCHANGED peers
    BY <1>2 DEF HandleOwn
  <2> QED BY <1>1, <2>1, OtherPacketFresh
<1>3. CASE HandleHandshake(n, m) \/ HandleHandshakeAck(n, m)
  <2>1. PICK out : Take(n, m, out)
    BY <1>3 DEF HandleHandshake, HandleHandshakeAck
  <2>2. /\ m.type \notin {"Ping", "Pong"}
        /\ peers' = [peers EXCEPT ![n][m.node] = Entry("Connected", m.from)]
    BY <1>3 DEF HandleHandshake, HandleHandshakeAck
  <2> QED BY <2>1, <2>2, ConnectedImproves, OtherPacketFresh
<1>4. CASE HandlePing(n, m)
  BY <1>4, PingFresh
<1>5. CASE HandlePong(n, m)
  BY <1>5, PongFresh
<1>6. CASE HandlePeerRequest(n, m)
  <2>1. PICK out : Take(n, m, out)
    BY <1>6 DEF HandlePeerRequest
  <2>2. m.type \notin {"Ping", "Pong"} /\ UNCHANGED peers
    BY <1>6 DEF HandlePeerRequest
  <2> QED BY <1>1, <2>1, <2>2, OtherPacketFresh
<1>7. CASE HandlePeerAnnounce(n, m)
  <2>1. /\ Take(n, m, {}) /\ m.type \notin {"Ping", "Pong"}
        /\ peers' = [peers EXCEPT ![n] = Learned(n, @, m.list)]
    BY <1>7 DEF HandlePeerAnnounce
  <2> QED BY <2>1, LearnedImproves, OtherPacketFresh
<1> QED BY <1>2, <1>3, <1>4, <1>5, <1>6, <1>7 DEF HandleDirect

\* Gossip.
LEMMA GossipFresh ==
  ASSUME PeersInv, FreshInv, NEW n \in Node, NEW m \in wire, HandleGossip(n, m)
  PROVE  FreshInv'
<1>1. PICK out : Take(n, m, out)
  BY DEF HandleGossip
<1>2. m.type \notin {"Ping", "Pong"}
  BY DEF HandleGossip
<1>3. CASE UNCHANGED peers
  <2>1. \A q, p \in Node : Improves(peers[q][p], peers'[q][p])
    BY <1>3 DEF Improves
  <2> QED BY <1>1, <1>2, <2>1, OtherPacketFresh
<1>4. CASE peers' = [peers EXCEPT ![n] = Learned(n, @, m.list)]
  BY <1>1, <1>2, <1>4, LearnedImproves, OtherPacketFresh
<1> QED BY <1>3, <1>4 DEF HandleGossip

\* Steps that leave the tables alone, take nothing from the wire and start
\* nobody.
LEMMA StillFresh ==
  ASSUME PeersInv, FreshInv, UNCHANGED <<peers, addr, starts, beaten, faults>>,
         wire \subseteq wire', \A n \in Node : running'[n] => running[n]
  PROVE  FreshInv'
<1>1. \A n, p \in Node : Improves(peers[n][p], peers'[n][p])
  BY DEF Improves
<1>2. \A n, p \in Node : Asked(n, p) => Asked(n, p)'
  BY DEF Asked
<1>3. \A n, p \in Node : Watched(n, p)' => Watched(n, p)
  BY DEF Watched
<1> QED BY <1>1, <1>2, <1>3, FreshStep

\* A round of the heartbeat finds no running peer stale, and asks every
\* connected one.
LEMMA HeartbeatFresh ==
  ASSUME AddressesApart, StaleAfter >= 2, PeersInv, FreshInv,
         NEW h \in Node, Heartbeat(h)
  PROVE  FreshInv'
<1> DEFINE table == [p \in Node |-> Pruned(peers[h][p])]
<1>1. /\ peers' = [peers EXCEPT ![h] = table] /\ beaten' = beaten \cup {h}
      /\ UNCHANGED <<addr, running, starts, faults>>
  BY DEF Heartbeat, Beat, history
<1>2. wire \subseteq wire' /\ Pings(h, table) \subseteq wire'
  <2> HIDE DEF table
  <2> QED BY DEF Heartbeat, table
<1> SUFFICES ASSUME faults' = 0, NEW n \in Node, NEW p \in Node, Watched(n, p)'
             PROVE  Fresh(n, p)'
  BY DEF FreshInv
<1>3. Watched(n, p) /\ Fresh(n, p)
  BY <1>1 DEF FreshInv, Watched
<1>4. CASE n # h
  <2>1. peers'[n] = peers[n] /\ (n \in beaten' <=> n \in beaten)
    BY <1>1, <1>4
  <2> QED BY <1>1, <1>2, <1>3, <2>1 DEF Fresh
<1>5. CASE n = h
  <2>1. peers'[n][p] = Pruned(peers[n][p]) /\ peers[n][p] \in EntryType
    BY <1>1, <1>5 DEF PeersInv, TablesInv
  <2>2. CASE peers[n][p].state = "Connected"
    <3>1. peers[n][p].age \in {0, 1}
      BY <1>3, <2>2 DEF Fresh
    <3>2. peers[n][p].age < StaleAfter /\ peers[n][p].age < DisconnectAfter
      BY <3>1, MeshAssumption
    <3>3. Pruned(peers[n][p]) = peers[n][p]
      BY <2>2, <3>1, <3>2, MeshAssumption DEF Pruned
    <3>4. p \in connected_peers(table) /\ table[p].addr = addr[p]
      BY <1>3, <1>5, <2>2, <3>3, WatchedAddresses DEF connected_peers
    <3>5. Ping(addr[n], addr[p]) \in wire'
      <4>1. Ping(addr[h], table[p].addr) \in Pings(h, table)
        <5> HIDE DEF table
        <5> QED BY <3>4 DEF Pings
      <4> QED BY <1>2, <1>5, <3>4, <4>1
    <3>6. addr' = addr
      BY <1>1
    <3> QED BY <2>1, <2>2, <3>1, <3>3, <3>5, <3>6 DEF Fresh
  <2>3. CASE peers[n][p].state # "Connected"
    <3>1. peers[n][p].state # "Stale"
      BY <1>3 DEF Fresh
    <3>2. Pruned(peers[n][p]).state \in {peers[n][p].state, "Disconnected"}
      BY <2>1, <2>3 DEF Pruned, EntryType
    <3> QED BY <2>1, <2>3, <3>1, <3>2 DEF Fresh
  <2> QED BY <2>2, <2>3
<1> QED BY <1>4, <1>5

\* A tick in time finds every ping of the last one answered.
LEMMA TickFresh ==
  ASSUME AddressesApart, StaleAfter >= 2, PeersInv, FreshInv, Tick
  PROVE  FreshInv'
<1>1. /\ peers' = [n \in Node |-> [p \in Node |-> Older(peers[n][p])]] /\ beaten' = {}
      /\ UNCHANGED <<addr, running, starts>>
  BY DEF Tick, process
<1> SUFFICES ASSUME faults' = 0, NEW n \in Node, NEW p \in Node, Watched(n, p)'
             PROVE  Fresh(n, p)'
  BY DEF FreshInv
<1>2. faults = 0 /\ InTime
  BY MeshAssumption DEF Tick, Fault, PeersInv, CountersInv
<1>3. Watched(n, p) /\ Fresh(n, p)
  BY <1>1, <1>2 DEF FreshInv, Watched
<1>4. loops[n] = Loop /\ loops[p] = Loop
  BY <1>3, WatchedAddresses
<1>5. n \in beaten /\ ~Asked(n, p)
  <2>1. Awaited(Ping(addr[n], addr[p])) /\ Awaited(Pong(addr[p], addr[n]))
    BY <1>4 DEF Awaited, Ping, Pong, Loop
  <2> QED BY <1>2, <1>4, <2>1 DEF InTime, Asked, Loop
<1>6. peers'[n][p] = Older(peers[n][p]) /\ peers[n][p] \in EntryType
  BY <1>1 DEF PeersInv, TablesInv
<1>7. Older(peers[n][p]).state = peers[n][p].state
  BY <1>6 DEF Older, EntryType
<1>8. peers[n][p].state = "Connected" => Older(peers[n][p]).age = 1
  <2> SUFFICES ASSUME peers[n][p].state = "Connected" PROVE Older(peers[n][p]).age = 1
    OBVIOUS
  <2>1. peers[n][p].age = 0
    BY <1>3, <1>5 DEF Fresh, Asked
  <2>2. Older(peers[n][p]) = [peers[n][p] EXCEPT !.age = 1]
    BY <1>6, <2>1, MeshAssumption DEF Older
  <2> QED BY <1>6, <2>2 DEF EntryType
<1> QED BY <1>1, <1>3, <1>6, <1>7, <1>8 DEF Fresh

\* A process that starts knows nobody, and the first process of a node is known
\* to nobody.
LEMMA BindFresh ==
  ASSUME PeersInv, FreshInv, NEW b \in Node, NEW x \in Addr, Bind(b, x)
  PROVE  FreshInv'
<1>1. /\ \A n \in Node \ {b} : /\ addr'[n] = addr[n] /\ running'[n] = running[n]
                               /\ starts'[n] = starts[n]
      /\ starts'[b] = starts[b] + 1 /\ starts[b] \in Nat
      /\ UNCHANGED <<peers, beaten, wire, faults>>
  BY MeshAssumption DEF Bind, PeersInv, NodesInv, history
<1> SUFFICES ASSUME faults' = 0, NEW n \in Node, NEW p \in Node, Watched(n, p)'
             PROVE  Fresh(n, p)'
  BY DEF FreshInv
<1>2. CASE n # b /\ p # b
  <2>1. Watched(n, p) /\ addr'[n] = addr[n] /\ addr'[p] = addr[p]
    BY <1>1, <1>2 DEF Watched
  <2>2. Fresh(n, p)
    BY <1>1, <2>1 DEF FreshInv
  <2> QED BY <1>1, <2>1, <2>2 DEF Fresh
<1>3. CASE n = b \/ p = b
  <2>1. peers[n][p].state = "Unknown"
    <3>1. CASE n = b
      <4>1. peers[n] = [q \in Node |-> NoEntry]
        BY <3>1 DEF Bind, PeersInv, NodesInv
      <4> QED BY <4>1, NoEntryStays
    <3>2. CASE p = b
      <4>1. ~(starts[p] >= 1)
        BY <1>1, <3>2 DEF Watched
      <4> QED BY <4>1 DEF PeersInv, TablesInv, GoodTable, Known
    <3> QED BY <1>3, <3>1, <3>2
  <2> QED BY <1>1, <2>1 DEF Fresh
<1> QED BY <1>2, <1>3

\* A process that ends is neither watched nor watches.
LEMMA ExitFresh ==
  ASSUME PeersInv, FreshInv, NEW d \in Node, Exit(d)
  PROVE  FreshInv'
<1>1. /\ ~running'[d] /\ starts' = starts /\ faults' = faults /\ wire' = wire
      /\ beaten' \subseteq beaten
      /\ \A n \in Node \ {d} : /\ addr'[n] = addr[n] /\ running'[n] = running[n]
                               /\ peers'[n] = peers[n]
  BY DEF Exit, history, PeersInv, NodesInv, TablesInv
<1> SUFFICES ASSUME faults' = 0, NEW n \in Node, NEW p \in Node, Watched(n, p)'
             PROVE  Fresh(n, p)'
  BY DEF FreshInv
<1>2. n # d /\ p # d
  BY <1>1 DEF Watched
<1>3. Watched(n, p) /\ addr'[n] = addr[n] /\ addr'[p] = addr[p] /\ peers'[n] = peers[n]
  BY <1>1, <1>2 DEF Watched
<1>4. Fresh(n, p)
  BY <1>1, <1>3 DEF FreshInv
<1> QED BY <1>1, <1>3, <1>4 DEF Fresh

\* Linked nodes start with young entries.
LEMMA InitFresh == Init => FreshInv
<1> SUFFICES ASSUME Init, NEW n \in Node, NEW p \in Node PROVE Fresh(n, p)
  BY DEF FreshInv
<1>1. peers[n][p].state \in {"Connected", "Unknown"} /\ peers[n][p].age = 0
  BY DEF Init, Entry, NoEntry
<1> QED BY <1>1 DEF Fresh

\* Every step keeps running peers from being held for stale.
LEMMA NextFresh ==
  ASSUME AddressesApart, StaleAfter >= 2
  PROVE  PeersInv /\ FreshInv /\ [Next]_vars => FreshInv'
<1> SUFFICES ASSUME PeersInv, FreshInv, [Next]_vars PROVE FreshInv'
  OBVIOUS
<1>1. ASSUME NEW n \in Node, NEW x \in Addr, Bind(n, x) PROVE FreshInv'
  BY <1>1, BindFresh
<1>2. ASSUME NEW n, NEW m, Send(n, m) PROVE FreshInv'
  BY <1>2, StillFresh DEF Send, process
<1>3. ASSUME NEW n \in Node, Stop(n) PROVE FreshInv'
  <2>1. \A p \in Node : running'[p] => running[p]
    BY <1>3 DEF Stop, PeersInv, NodesInv
  <2>2. UNCHANGED <<peers, addr, starts, beaten, faults, wire>>
    BY <1>3 DEF Stop, history
  <2> QED BY <2>1, <2>2, StillFresh
<1>4. ASSUME NEW n \in Node, Exit(n) PROVE FreshInv'
  BY <1>4, ExitFresh
<1>5. ASSUME NEW n \in Node, Heartbeat(n) PROVE FreshInv'
  BY <1>5, HeartbeatFresh
<1>6. ASSUME NEW n \in Node, NEW g \in Task, BroadcastTask(n, g) PROVE FreshInv'
  BY <1>6, StillFresh DEF BroadcastTask, process, history
<1>7. ASSUME NEW n \in Node, NEW m \in wire, HandleDirect(n, m) PROVE FreshInv'
  BY <1>7, DirectFresh
<1>8. ASSUME NEW n \in Node, NEW m \in wire, HandleGossip(n, m) PROVE FreshInv'
  BY <1>8, GossipFresh
<1>9. CASE Tick
  BY <1>9, TickFresh
<1>10. ASSUME NEW m \in wire, Lose(m) PROVE FreshInv'
  <2>1. faults' # 0
    BY <1>10, MeshAssumption DEF Lose, Fault, PeersInv, CountersInv
  <2> QED BY <2>1 DEF FreshInv
<1>11. CASE UNCHANGED vars
  BY <1>11, StillFresh DEF vars
<1> QED BY <1>1, <1>2, <1>3, <1>4, <1>5, <1>6, <1>7, <1>8, <1>9, <1>10, <1>11
        DEF Next, ConnectPeer, AskForPeers

\* As long as no packet is lost and no heartbeat late, no node takes a peer that
\* keeps running for stale, however announcements and handshakes interleave
\* with pings, for any number of nodes: if a node's addresses are its own and
\* the stale timeout spans two heartbeats at least.
THEOREM NoFalseAlarmHolds ==
  ASSUME AddressesApart, StaleAfter >= 2
  PROVE  Spec => []NoFalseAlarm
<1>1. Spec => []FreshInv
  <2>1. PeersInv /\ FreshInv /\ [Next]_vars => FreshInv'
    BY NextFresh
  <2> QED BY <2>1, InitFresh, PeersInvariance, PTL DEF Spec
<1>2. PeersInv /\ IInv /\ FreshInv => NoFalseAlarm
  BY PeersType DEF NoFalseAlarm, FreshInv, Fresh, Watched
<1> QED BY <1>1, <1>2, PeersInvariance, Invariance, PTL
=============================================================================
