------------------------------- MODULE MeshNode -------------------------------
(***************************************************************************)
(* The UDP mesh of src/mesh/src: node.rs, peer.rs, gossip.rs, dedup.rs.    *)
(* Every node runs a receive loop, which handles one packet at a time, and *)
(* a heartbeat loop, which ages the peer table, pings the connected peers  *)
(* and now and then gossips their addresses.  The application connects     *)
(* peers, asks one for its peers, broadcasts and stops the node.           *)
(*                                                                         *)
(* A tick is one heartbeat interval.  Signatures are valid, versions agree *)
(* and nonces and latencies are left out: they only feed the latency shown *)
(* to the user.  Two equal packets in flight count as one.                 *)
(***************************************************************************)
EXTENDS DedupFilter, FiniteSets

CONSTANTS
  Node, NoNode,    \* identities (NodeId)
  Addr, NoAddr,    \* socket addresses
  Bindable,        \* Bindable[n]: the addresses n may bind
  Linked,          \* pairs of nodes that start with a handshake behind them
  Task,            \* ids of the broadcasts of the application
  MaxHops,         \* gossip_max_hops
  StaleAfter,      \* stale_timeout in heartbeat intervals
  DisconnectAfter, \* disconnect_timeout in heartbeat intervals
  AnnounceEvery,   \* heartbeats from one announcement to the next
  MaxAnnounce,     \* max_peers_announce, and max_peers of a request
  Ticking,         \* FALSE: the run is shorter than a heartbeat interval
  MayStop,         \* the nodes that may be stopped or killed
  Caller,          \* the nodes whose application calls connect_peer and send_to
  Broadcaster,     \* the nodes whose application broadcasts
  Stored,          \* the nodes that keep their key when they start again
  MaxStarts,       \* bound on the processes an identity has had
  MaxFaults,       \* bound on lost and repeated packets and late ticks
  MaxCalls         \* bound on the calls of connect_peer and send_to

ASSUME MeshAssumption ==
  /\ NoAddr \notin Addr
  /\ NoNode \notin Node
  /\ Bindable \in [Node -> SUBSET Addr]
  /\ \A n \in Node : Bindable[n] # {}
  /\ Linked \subseteq Node \X Node
  /\ \A n \in Node : <<n, n>> \notin Linked
  /\ Task \subseteq Id
  /\ {MaxHops, StaleAfter, DisconnectAfter, MaxAnnounce, MaxCalls, MaxFaults}
       \subseteq Nat
  /\ {AnnounceEvery, MaxStarts} \subseteq Nat \ {0}
  /\ StaleAfter < DisconnectAfter
  /\ Ticking \in BOOLEAN
  /\ MayStop \subseteq Node
  /\ Stored \subseteq Node
  /\ Caller \subseteq Node
  /\ Broadcaster \subseteq Node

VARIABLES
  addr,       \* addr[n]: the socket of n's process, NoAddr without a process
  running,    \* running[n]: the flag is_running
  loops,      \* loops[n]: which of the two loops have not returned
  peers,      \* peers[n][p]: n's entry for p
  filter,     \* filter[n]: n's duplicate filter
  beats,      \* beats[n]: announce_tick
  beaten,     \* the nodes whose heartbeat of this tick is done
  wire,       \* the packets in flight
  origin,     \* origin[g]: who broadcast g
  delivered,  \* delivered[n][g]: PacketReceived events for g, counted to 2
  forgotten,  \* forgotten[n]: ids that have left n's filter
  starts,     \* starts[n]: the processes n has had
  calls,      \* the calls of connect_peer and send_to so far
  faults      \* the packets lost or repeated and the ticks missed so far

vars == <<addr, running, loops, peers, filter, beats, beaten, wire, origin,
          delivered, forgotten, starts, calls, faults>>

process == <<addr, running, loops, starts>>
history == <<calls, faults>>
filters == <<filter, forgotten>>

-----------------------------------------------------------------------------
(* The peer table *)

PeerState == {"Unknown", "Discovered", "Connected", "Stale", "Disconnected"}

\* An entry for a peer; a peer that is not in the table is Unknown.
Entry(state, x) == [state |-> state, addr |-> x, age |-> 0]
NoEntry         == Entry("Unknown", NoAddr)

\* Wrong variant: who is announced is taken for connected.
UpsertedConnected(e, x) == Entry("Connected", x)

\* upsert_discovered: an entry that is there gets the address, and keeps the
\* rest.
Upserted(e, x) ==
  IF e.state = "Unknown" THEN Entry("Discovered", x) ELSE [e EXCEPT !.addr = x]

\* Wrong variant: only a stale peer is refreshed.
PongedStaleOnly(e) ==
  IF e.state = "Stale" THEN [e EXCEPT !.age = 0, !.state = "Connected"] ELSE e

\* record_pong.
Ponged(e) ==
  [e EXCEPT !.age = 0, !.state = IF @ = "Stale" THEN "Connected" ELSE @]

\* prune_stale, for one entry.
Pruned(e) ==
  CASE e.state = "Unknown"         -> e
    [] e.state # "Unknown" /\ e.age >= DisconnectAfter
                                   -> [e EXCEPT !.state = "Disconnected"]
    [] e.state = "Connected" /\ e.age \in StaleAfter..(DisconnectAfter - 1)
                                   -> [e EXCEPT !.state = "Stale"]
    [] OTHER                       -> e

\* A tick later; beyond DisconnectAfter all ages are the same.
Older(e) ==
  IF e.state = "Unknown" \/ e.age = DisconnectAfter THEN e
  ELSE [e EXCEPT !.age = @ + 1]

connected_peers(table) == {p \in Node : table[p].state = "Connected"}

\* The first `take` of the connected peers, in the order of a hash map.
Listings(table) ==
  LET up   == connected_peers(table)
      most == IF Cardinality(up) <= MaxAnnounce THEN Cardinality(up)
              ELSE MaxAnnounce
  IN {[p \in S |-> table[p].addr] : S \in {T \in SUBSET up : Cardinality(T) = most}}

-----------------------------------------------------------------------------
(* Packets *)

Handshake(n, x, y)    == [type |-> "Handshake", node |-> n, from |-> x, to |-> y]
HandshakeAck(n, x, y) == [type |-> "HandshakeAck", node |-> n, from |-> x, to |-> y]
Ping(x, y)            == [type |-> "Ping", from |-> x, to |-> y]
Pong(x, y)            == [type |-> "Pong", from |-> x, to |-> y]
PeerRequest(x, y)     == [type |-> "PeerRequest", from |-> x, to |-> y]
PeerAnnounce(l, x, y) == [type |-> "PeerAnnounce", list |-> l, from |-> x, to |-> y]

NoList == [p \in {} |-> NoAddr]

\* A gossip packet: a task announcement or a list of peers.
Gossip(g, l, hop, x, y) ==
  [type |-> "Gossip", id |-> g, list |-> l, hop |-> hop, from |-> x, to |-> y]

\* One packet to every connected peer, except the one at address `except`.
ToConnected(n, table, g, l, hop, except) ==
  {Gossip(g, l, hop, addr[n], table[p].addr) :
     p \in {q \in connected_peers(table) : table[q].addr # except}}

\* Wrong variants of forward_gossip: the limit one too low, and the hop not
\* counted.
ForwardedLess(n, m) ==
  IF m.hop + 1 >= MaxHops THEN {}
  ELSE ToConnected(n, peers[n], m.id, m.list, m.hop + 1, m.from)
ForwardedUncounted(n, m) ==
  IF m.hop >= MaxHops THEN {}
  ELSE ToConnected(n, peers[n], m.id, m.list, m.hop, m.from)

\* forward_gossip.
Forwarded(n, m) ==
  IF m.hop >= MaxHops THEN {}
  ELSE ToConnected(n, peers[n], m.id, m.list, m.hop + 1, m.from)

-----------------------------------------------------------------------------
Lists == UNION {[S -> Addr] : S \in SUBSET Node}

Packet ==
  [type : {"Handshake", "HandshakeAck"}, node : Node, from : Addr, to : Addr]
  \cup [type : {"Ping", "Pong", "PeerRequest"}, from : Addr, to : Addr]
  \cup [type : {"PeerAnnounce"}, list : Lists, from : Addr, to : Addr]
  \cup [type : {"Gossip"}, id : Id, list : Lists, hop : 0..MaxHops,
        from : Addr, to : Addr]

TypeOK ==
  /\ addr \in [Node -> Addr \cup {NoAddr}]
  /\ running \in [Node -> BOOLEAN]
  /\ loops \in [Node -> SUBSET {"recv", "heart"}]
  /\ peers \in [Node -> [Node -> [state : PeerState, addr : Addr \cup {NoAddr},
                                  age : 0..DisconnectAfter]]]
  /\ \A n, p \in Node : peers[n][p].state = "Unknown" <=> peers[n][p].addr = NoAddr
  /\ \A n \in Node : peers[n][n] = NoEntry
  /\ \A n \in Node : filter[n].seen \subseteq Id /\ filter[n].queue \in Seq(Id)
  /\ beats \in [Node -> 0..(AnnounceEvery - 1)]
  /\ beaten \subseteq Node
  /\ wire \subseteq Packet
  /\ origin \in [Id -> Node \cup {NoNode}]
  /\ delivered \in [Node -> [Task -> 0..2]]
  /\ forgotten \in [Node -> SUBSET Id]
  /\ starts \in [Node -> 0..MaxStarts]
  /\ calls \in 0..MaxCalls
  /\ faults \in 0..MaxFaults

\* The nodes of Linked have been bound and have shaken hands; the others have
\* not been started.
Init ==
  LET up == {l[1] : l \in Linked} \cup {l[2] : l \in Linked}
      at == [n \in Node |-> IF n \in up THEN CHOOSE x \in Bindable[n] : TRUE
                            ELSE NoAddr]
  IN /\ addr = at
     /\ running = [n \in Node |-> n \in up]
     /\ loops = [n \in Node |-> IF n \in up THEN {"recv", "heart"} ELSE {}]
     /\ peers = [n \in Node |-> [p \in Node |->
                   IF <<n, p>> \in Linked THEN Entry("Connected", at[p]) ELSE NoEntry]]
     /\ filter = [n \in Node |-> EmptyFilter]
     /\ beats = [n \in Node |-> 0]
     /\ beaten = {}
     /\ wire = {}
     /\ origin = [g \in Id |-> NoNode]
     /\ delivered = [n \in Node |-> [g \in Task |-> 0]]
     /\ forgotten = [n \in Node |-> {}]
     /\ starts = [n \in Node |-> IF n \in up THEN 1 ELSE 0]
     /\ calls = 0
     /\ faults = 0

-----------------------------------------------------------------------------
(* The application *)

\* bind, with fresh tables.  A node that does not store its key is a new
\* identity when it starts again.
Bind(n, x) ==
  /\ addr[n] = NoAddr
  /\ starts[n] < (IF n \in Stored THEN MaxStarts ELSE 1)
  /\ x \in Bindable[n] \ {addr[p] : p \in Node}
  /\ addr' = [addr EXCEPT ![n] = x]
  /\ running' = [running EXCEPT ![n] = TRUE]
  /\ loops' = [loops EXCEPT ![n] = {"recv", "heart"}]
  /\ starts' = [starts EXCEPT ![n] = @ + 1]
  /\ UNCHANGED <<peers, filters, beats, beaten, wire, origin, delivered, history>>

\* stop: each loop sees it the next time it looks.
Stop(n) ==
  /\ n \in MayStop /\ running[n]
  /\ running' = [running EXCEPT ![n] = FALSE]
  /\ UNCHANGED <<addr, loops, peers, filters, beats, beaten, wire, origin,
                 delivered, starts, history>>

\* The process ends, or the last handle of the node is dropped: the socket is
\* closed and the tables are gone.
Exit(n) ==
  /\ n \in MayStop /\ addr[n] # NoAddr
  /\ addr' = [addr EXCEPT ![n] = NoAddr]
  /\ running' = [running EXCEPT ![n] = FALSE]
  /\ loops' = [loops EXCEPT ![n] = {}]
  /\ peers' = [peers EXCEPT ![n] = [p \in Node |-> NoEntry]]
  /\ filter' = [filter EXCEPT ![n] = EmptyFilter]
  /\ forgotten' = [forgotten EXCEPT ![n] = {}]
  /\ beats' = [beats EXCEPT ![n] = 0]
  /\ beaten' = beaten \ {n}
  /\ delivered' = [delivered EXCEPT ![n] = [g \in Task |-> 0]]
  /\ UNCHANGED <<wire, origin, starts, history>>

\* Somebody is there to take the packet.
Awaited(m) == \E n \in Node : addr[n] = m.to /\ "recv" \in loops[n]

Fault == faults < MaxFaults /\ faults' = faults + 1

\* A call that sends one packet and changes nothing here.
Send(n, m) ==
  /\ n \in Caller /\ addr[n] # NoAddr
  /\ calls < MaxCalls
  /\ calls' = calls + 1
  /\ wire' = wire \cup {m}
  /\ UNCHANGED <<process, peers, filters, beats, beaten, origin, delivered,
                 faults>>

ConnectPeer(n, x) == Send(n, Handshake(n, addr[n], x))

\* send_to a peer of which the address is known.
AskForPeers(n, p) ==
  /\ peers[n][p].state # "Unknown"
  /\ Send(n, PeerRequest(addr[n], peers[n][p].addr))

\* contains_or_insert, after the k oldest ids have expired.
Insert(n, k, g) ==
  LET left == Evicted(filter[n], k)
      new  == Inserted(left, g)
  IN /\ filter' = [filter EXCEPT ![n] = new]
     /\ forgotten' = [forgotten EXCEPT ![n] =
                        @ \cup (filter[n].seen \ (left.seen \cap new.seen))]

\* broadcast puts its own id into the filter, after what has expired left it.
Broadcast(n, g) ==
  /\ origin[g] = NoNode
  /\ origin' = [origin EXCEPT ![g] = n]
  /\ \E k \in Expiring(filter[n]) : Insert(n, k, g)

BroadcastTask(n, g) ==
  /\ n \in Broadcaster /\ addr[n] # NoAddr
  /\ Broadcast(n, g)
  /\ wire' = wire \cup ToConnected(n, peers[n], g, NoList, 0, NoAddr)
  /\ UNCHANGED <<process, peers, beats, beaten, delivered, history>>

-----------------------------------------------------------------------------
(* The receive loop *)

\* The loop of n takes m, which the network may repeat, and sends `out`.  A
\* loop that was told to stop returns after the packet it was waiting for.
Take(n, m, out) ==
  /\ "recv" \in loops[n]
  /\ m \in wire /\ m.to = addr[n]
  /\ loops' = [loops EXCEPT ![n] = IF running[n] THEN @ ELSE @ \ {"recv"}]
  /\ \/ wire' = (wire \ {m}) \cup out /\ UNCHANGED faults
     \/ Fault /\ wire' = wire \cup out
  /\ UNCHANGED <<addr, running, beats, beaten, origin, starts, calls>>

\* A node's own handshake, or its own answer.
HandleOwn(n, m) ==
  /\ m.type \in {"Handshake", "HandshakeAck"} /\ m.node = n
  /\ Take(n, m, {})
  /\ UNCHANGED <<peers, filters, delivered>>

HandleHandshake(n, m) ==
  /\ m.type = "Handshake" /\ m.node # n
  /\ Take(n, m, {HandshakeAck(n, addr[n], m.from)})
  /\ peers' = [peers EXCEPT ![n][m.node] = Entry("Connected", m.from)]
  /\ UNCHANGED <<filters, delivered>>

HandleHandshakeAck(n, m) ==
  /\ m.type = "HandshakeAck" /\ m.node # n
  /\ Take(n, m, {})
  /\ peers' = [peers EXCEPT ![n][m.node] = Entry("Connected", m.from)]
  /\ UNCHANGED <<filters, delivered>>

HandlePing(n, m) ==
  /\ m.type = "Ping"
  /\ Take(n, m, {Pong(addr[n], m.from)})
  /\ UNCHANGED <<peers, filters, delivered>>

\* A pong counts for the first entry, in the order of a hash map, with the
\* address it came from.
HandlePong(n, m) ==
  LET matching == {p \in Node : peers[n][p].addr = m.from}
  IN /\ m.type = "Pong"
     /\ Take(n, m, {})
     /\ \/ \E p \in matching : peers' = [peers EXCEPT ![n][p] = Ponged(@)]
        \/ matching = {} /\ UNCHANGED peers
     /\ UNCHANGED <<filters, delivered>>

HandlePeerRequest(n, m) ==
  /\ m.type = "PeerRequest"
  /\ \E l \in Listings(peers[n]) : Take(n, m, {PeerAnnounce(l, addr[n], m.from)})
  /\ UNCHANGED <<peers, filters, delivered>>

\* The loop over the peers of an announcement.
Learned(n, table, list) ==
  [p \in Node |-> IF p \in DOMAIN list \ {n} THEN Upserted(table[p], list[p])
                  ELSE table[p]]

HandlePeerAnnounce(n, m) ==
  /\ m.type = "PeerAnnounce"
  /\ Take(n, m, {})
  /\ peers' = [peers EXCEPT ![n] = Learned(n, @, m.list)]
  /\ UNCHANGED <<filters, delivered>>

\* Gossip is dropped when the filter knows it; otherwise it is forwarded, and
\* handed to the subscribers or, a list of peers, to the peer table.
HandleGossip(n, m) ==
  /\ m.type = "Gossip"
  /\ \E k \in Expiring(filter[n]) :
       LET known == Evicted(filter[n], k).seen
       IN /\ Insert(n, k, m.id)
          /\ \/ /\ m.id \in known
                /\ Take(n, m, {})
                /\ UNCHANGED <<peers, delivered>>
             \/ /\ m.id \notin known
                /\ Take(n, m, Forwarded(n, m))
                /\ peers' = [peers EXCEPT ![n] = Learned(n, @, m.list)]
                /\ delivered' = IF m.id \notin Task THEN delivered
                                ELSE [delivered EXCEPT ![n][m.id] =
                                        IF @ = 2 THEN 2 ELSE @ + 1]

HandleDirect(n, m) ==
  \/ HandleOwn(n, m)
  \/ HandleHandshake(n, m)
  \/ HandleHandshakeAck(n, m)
  \/ HandlePing(n, m)
  \/ HandlePong(n, m)
  \/ HandlePeerRequest(n, m)
  \/ HandlePeerAnnounce(n, m)

-----------------------------------------------------------------------------
(* The heartbeat loop *)

\* Wrong variant: a ping that was sent counts as one that was answered.
BeatRefreshing(n, table) ==
  /\ Ticking
  /\ "heart" \in loops[n] /\ n \notin beaten
  /\ beaten' = beaten \cup {n}
  /\ beats' = [beats EXCEPT ![n] = (@ + 1) % AnnounceEvery]
  /\ loops' = [loops EXCEPT ![n] = IF running[n] THEN @ ELSE @ \ {"heart"}]
  /\ peers' = [peers EXCEPT ![n] = [p \in Node |->
                 IF table[p].state = "Connected" THEN Ponged(table[p])
                 ELSE table[p]]]
  /\ UNCHANGED <<addr, running, delivered, starts, history>>

\* A loop that was told to stop does one more round, the one it was waiting for.
Beat(n, table) ==
  /\ Ticking
  /\ "heart" \in loops[n] /\ n \notin beaten
  /\ beaten' = beaten \cup {n}
  /\ beats' = [beats EXCEPT ![n] = (@ + 1) % AnnounceEvery]
  /\ loops' = [loops EXCEPT ![n] = IF running[n] THEN @ ELSE @ \ {"heart"}]
  /\ peers' = [peers EXCEPT ![n] = table]
  /\ UNCHANGED <<addr, running, delivered, starts, history>>

Pings(n, table) == {Ping(addr[n], table[p].addr) : p \in connected_peers(table)}

\* Whether this round announces; the bound on Id ends the announcements.
MustAnnounce(n, table) ==
  /\ (beats[n] + 1) % AnnounceEvery = 0
  /\ connected_peers(table) # {}
  /\ \E g \in Id \ Task : origin[g] = NoNode

Heartbeat(n) ==
  LET table == [p \in Node |-> Pruned(peers[n][p])]
  IN /\ Beat(n, table)
     /\ \/ /\ ~MustAnnounce(n, table)
           /\ wire' = wire \cup Pings(n, table)
           /\ UNCHANGED <<filters, origin>>
        \/ /\ MustAnnounce(n, table)
           /\ \E g \in Id \ Task, l \in Listings(table) :
                /\ Broadcast(n, g)
                /\ wire' = wire \cup Pings(n, table)
                                \cup ToConnected(n, table, g, l, 0, NoAddr)

-----------------------------------------------------------------------------
(* Time and the network *)

\* A tick that finds everything done.
InTime ==
  /\ \A m \in wire : ~Awaited(m)
  /\ \A n \in Node \ beaten : "heart" \notin loops[n]

\* A tick comes when everything of the last one is done, or is a fault.  A
\* packet to a socket that nobody reads is gone by then.
Tick ==
  /\ Ticking
  /\ \/ InTime /\ UNCHANGED faults
     \/ ~InTime /\ Fault
  /\ peers' = [n \in Node |-> [p \in Node |-> Older(peers[n][p])]]
  /\ beaten' = {}
  /\ wire' = {m \in wire : Awaited(m)}
  /\ UNCHANGED <<process, filters, beats, origin, delivered, calls>>

Lose(m) ==
  /\ Awaited(m) /\ Fault
  /\ wire' = wire \ {m}
  /\ UNCHANGED <<process, peers, filters, beats, beaten, origin, delivered, calls>>

Next ==
  \/ \E n \in Node, x \in Addr : Bind(n, x) \/ ConnectPeer(n, x)
  \/ \E n \in Node : Stop(n) \/ Exit(n) \/ Heartbeat(n)
  \/ \E n, p \in Node : AskForPeers(n, p)
  \/ \E n \in Node, g \in Task : BroadcastTask(n, g)
  \/ \E n \in Node, m \in wire : HandleDirect(n, m) \/ HandleGossip(n, m)
  \/ Tick
  \/ \E m \in wire : Lose(m)

Spec == Init /\ [][Next]_vars

\* The tasks of the two loops are scheduled, sockets are read in the order of
\* arrival, so no kind of packet waits forever, and time passes.
Fairness ==
  /\ \A n \in Node :
       /\ WF_vars(\E m \in wire : HandleDirect(n, m))
       /\ WF_vars(\E m \in wire : HandleGossip(n, m))
       /\ WF_vars(Heartbeat(n))
  /\ WF_vars(Tick)

LiveSpec == Spec /\ Fairness

\* Less is enough for a broadcast among nodes that are connected already: as
\* long as there is gossip, somebody handles some of it.
GossipSpec == Spec /\ WF_vars(\E n \in Node, m \in wire : HandleGossip(n, m))

-----------------------------------------------------------------------------
(* Properties *)

\* The set and the queue of every filter stay in step and within the capacity
\* (dedup.rs keeps the same ids in two structures).
FiltersConsistent == \A n \in Node : Consistent(filter[n])

\* The subscribers of a node get a broadcast at most once, whatever paths it
\* comes by, and never one of their own node, unless the filter had to forget
\* the id (test_gossip_mesh_propagation_and_deduplication).
DeliveredOnce ==
  \A n \in Node, g \in Task :
    \/ delivered[n][g] <= (IF origin[g] = n /\ starts[n] = 1 THEN 0 ELSE 1)
    \/ g \in forgotten[n]

\* In a mesh whose links stay up and lose nothing, a broadcast reaches every
\* other node, although each forwards only the copy that came first and the
\* hops are limited (forward_gossip).
GossipReaches ==
  \A g \in Task :
    (origin[g] # NoNode) ~> (\A n \in Node \ {origin[g]} : delivered[n][g] > 0)

\* When nobody broadcasts any more, forwarding ends, even when the filters
\* forget a broadcast that is still on its way.
GossipEnds == <>[](\A m \in wire : m.type # "Gossip")

\* Only a handshake or its answer makes a peer connected that is not, or that
\* has been given up: neither an announcement nor a late pong does.
ConnectedByHandshake ==
  [][\A n, p \in Node :
       (/\ peers[n][p].state \notin {"Connected", "Stale"}
        /\ peers'[n][p].state \in {"Connected", "Stale"})
       => \E m \in wire : /\ m.type \in {"Handshake", "HandshakeAck"}
                          /\ m.node = p /\ m.to = addr[n]]_vars

\* A node that keeps running at its address is not held for stale as long as
\* packets and heartbeats are in time, whatever the others announce of it (and
\* every table and every packet is well typed).
NoFalseAlarm ==
  /\ TypeOK
  /\ faults = 0 => \A n, p \in Node :
             (running[n] /\ running[p] /\ starts[p] = 1)
             => peers[n][p].state # "Stale"

\* A peer that is gone for good is some day not connected any more, whatever
\* is still in flight or announced of it (test_stale_peer_detection).
SilentPeerDropped ==
  \A p \in MayStop : \A n \in Node \ {p} :
    <>[](running[n] /\ loops[p] = {}) => <>[](peers[n][p].state # "Connected")
=============================================================================
