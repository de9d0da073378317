# Formal models of Sherd

TLA+ specifications of the concurrent and distributed parts of Sherd, the TLC
configurations that check them, and machine-checked proofs about them. Paths
below are those of the repository.

## The system

Sherd is several programs in one repository, most of them with state that concurrent
actors change.

| Component | State it keeps | Operations | Talks to |
|---|---|---|---|
| task pool, `mempool/src/pool.rs`, `task.rs` | `TaskId -> Task` under an `RwLock` | submit, claim, complete, fail, set_payload, list_available | called by the distributed pool and by applications |
| distributed pool, `mempool/src/distributed.rs` | `pending_claims` (oneshot senders), `pending_requests` (who waits for a payload), `running` | submit_and_announce, claim_task, complete_task, stop; handle_packet in an event loop | mesh node: direct packets, gossip, event channel |
| mesh node, `mesh/src/` | peer table, dedup filter, message-id counter | handshakes, pings, peer announcements, gossip forwarding | UDP |
| wire format, `wire/src/lib.rs` | none | encode, decode, hop count in the flags | mesh node |
| network engine, `network/crates/engine/src/service.rs` | links, `downstream`, `first_seen`, `hotspot_op`, `shutting_down`, peer registry | auto_connect, check, hotspot and station start and stop, shutdown, messages and files | platform backend, storage, mailbox |
| Windows backend, `network/crates/platform-windows/src/` | the user's saved hotspot settings | start, stop and status of Mobile Hotspot (WinRT) with netsh as a fallback; stations, radios | Windows |
| network daemon, `network/crates/daemon/src/` | per connection: an outbox of 32 lines | accept, read, dispatch, forward events; the watchdog's loop; shutdown | engine, command line |
| mailbox and store, `engine/src/mailbox.rs`, `storage.rs` | peer registry; contacts, conversations, messages in SQLite | beacons, frames, find-or-create, insert | engine |
| VM manager and API client, `sherd-vm/crates/` | `id -> VM` tracked | provision, health, pause, resume, destroy; retried HTTP requests | provider's API |
| desktop authentication, `desktop/src/auth/` | users, credentials, challenges and codes in SQLite; session in memory and keyring | sign-up, login by e-mail, OAuth and wallet, token refresh | SQLite, keyring, browser |
| command line, views, web side project | none worth a model | I/O | the above |

`mempool/`, `mesh/` and `wire/` are a stack of their own; nothing connects them to
`network/` yet (README.md of the repository).

### What is hard, and what makes it correct

- **Distributed pool.** One event loop per node is interleaved with any number of
  callers; packets are lost, repeated and overtake each other; a claim races its
  timer and other claims. Correct means: one owner per task in the whole mesh;
  no copy goes backwards; an answer to a claim means what it says; no table entry
  outlives its call; every call returns; payloads reach everyone if nothing is lost.
- **Hotspot control.** Watchdog, clients and shutdown contend for operations that
  take Windows seconds, run in threads that cannot be cancelled, and may hang,
  while the user changes the same settings and the process may be killed. Correct
  means: only what a timer took from its caller overlaps with another operation; off
  means off at exit; the user's own settings survive; shutdown returns.
- **Mesh node.** A receive loop and a heartbeat loop share the peer table; packets are
  lost, repeated and overtake each other; nodes stop, crash and come back. Correct
  means: gossip ends although the filter forgets, reaches everybody a link leads to,
  and is delivered once; a peer is connected only by a handshake; a peer that is
  there is not given up, one that is gone is.
- **Station planning.** Devices choose networks from stale scans without talking to
  each other, forget what they knew, and are touched by people. Correct means: mutual
  joins end, by one side letting go and not both; every device hosts that Windows lets
  host, and every device that can reach a hotspot ends up on one or carrying one; the
  Wi-Fi comes to rest; announced links come to be true.
- **Messaging.** Tickers, a receive loop and a task per connection share the peer table
  and the store; find-or-create pairs run without transactions; addresses change hands.
  Correct means: join and leave events add up to the table; records are of messages
  that were sent, under one contact per device; what was received is told to the
  clients, and recorded unless its query failed or another job added the contact first;
  peers are found and dropped.
- **VMs.** Requests overlap at every await, answers of calls that took effect are lost and
  the calls repeated, handlers are cut off. Correct means: one create makes one
  machine; destroyed is gone; created is tracked; a cleanup without errors cleaned up.
- **Accounts.** Sign-ins interleave between SQL statements, fail half way, and end after
  the screen that started them. Correct means: one user per spelling of an address;
  one caller per challenge; every session is a user's; logged out stays out; the screen does not
  stay busy.

`PROJECT.json` lists these hazards one by one, each at its line, with the property
that covers it or the reason why none does.

## Modules

| Module | Models | Built on |
|---|---|---|
| `TaskStates` | the transitions of one task copy (`pool.rs`), as operators on a copy | |
| `DistributedMempool` | callers, event loops, packets, pools of all nodes (`distributed.rs`) | extends `TaskStates` |
| `TaskLifecycle` | abstract: what the mesh promises about a task | |
| `DistributedMempoolProofs` | theorems about `DistributedMempool` | extends it and TLAPS |
| `HotspotControl` | `hotspot_op`, its callers, the blocking jobs, netsh, Windows, the process | |
| `HotspotControlProofs` | theorems about `HotspotControl` | extends it and TLAPS |
| `DedupFilter` | the duplicate filter (`dedup.rs`), as operators on one filter | |
| `MeshNode` | receive and heartbeat loops, peer tables, packets and time (`node.rs`, `peer.rs`, `gossip.rs`) | extends `DedupFilter` |
| `MeshNodeProofs` | theorems about `DedupFilter` and `MeshNode` | extends them and TLAPS |
| `MeshPeerProofs` | theorems about the peer tables of `MeshNode` | extends `MeshNodeProofs` |
| `StationPlanning` | check, `auto_connect`, `plan_station` and downstream memory of several devices (`service.rs`) | |
| `StationPlanningProofs` | theorems about `StationPlanning` | extends it and TLAPS |
| `Messaging` | discovery, the mailbox and the store of several devices (`service.rs`, `mailbox.rs`, `storage.rs`) | |
| `MessagingProofs` | theorems about `Messaging` | extends it and TLAPS |
| `VmService` | the VM daemon's requests, the retrying client, the provider's machines | |
| `VmServiceProofs` | theorems about `VmService` | extends it and TLAPS |
| `AuthDb` | sign-ins by mail, OAuth and wallet, statement by statement (`desktop/src/auth/`) | |
| `DesktopApp` | screens, session and keyring (`main.rs`, `storage.rs`) around those sign-ins | extends `AuthDb` |
| `DesktopAppProofs` | theorems about `AuthDb` and `DesktopApp` | extends them and TLAPS |
| `MCMempool`, `MCHotspot`, `MCMesh`, `MCStation`, `MCMessaging`, `MCVm`, `MCDesktop` | values of the constants for TLC | extend the above |

`HotspotControl`, `StationPlanning` and `Messaging` are three views of one daemon. The
first shows one start or stop of the hotspot in all its steps; the second takes from it
that a start ends with the hotspot on, off, or on though it was reported off, and looks
at the links of several devices; the third takes the network those links give and looks at
what crosses it. They share the announcements, which carry both presence and links.

### DistributedMempool

A task copy is its status and claimant. `pool[n][t]` is the `HashMap` of node `n`,
`requests` is `pending_requests` (as a set: one answer per asker is enough to tell
what is answered), `waiter[n][t]` is `pending_claims` with the call whose sender is
registered, `answer[c]` the content of that call's oneshot channel, `phase[c]` the
program counter of `claim_task`, `loop[n]` the event loop. `granted[t]` is a
history variable: whom the author's pool has accepted.

`claim_task` is split at its awaits: look up and register (`RegisterClaim`), send
(`SendClaim`, `SendClaimFails`), wait (`ClaimReturns`, `ClaimTimerFires`), and
unregister after the timer (`AbandonClaim`), because the event loop and other calls
run between them. Each branch of `handle_packet` is one action, from the receipt
of the packet to its last send: one event loop handles one packet at a time, and the
mutexes it takes are held only across the changes the action makes. The two calls
`get` and `set_payload` of the `TaskData` branch are one step, since between them
the only other way to a pending copy is a `submit` of the same task by the
application, which has no payload to submit before.

The network: `sent` only grows. A packet that is never received is lost; any packet
may be received next; with `MayDuplicate` a direct one again. A claim and its answer carry
the call they belong to, so that a second call's claim is a packet of its own and is
handled even where nothing is repeated. Gossip travels along
`Relay` and is handled once at each node, which is what the mesh's dedup filter
gives for fewer than 10,000 messages in 60 s. `Miss` is a packet the mesh relayed
and the event loop never saw (`Lagged`, or a stopped loop). Signatures are always
good. `from_addr` is the relay's address, so a request goes to the relay.

Left out: priorities, times, result data and the ordering of `list_available`
(data); `Mempool::fail` (called by the handler of a failure that no code sends);
applications that write to the pool past the distributed pool.

### HotspotControl

`Op` are the calls that use `hotspot_op`: the watchdog's (`"auto"`, which
`HOTSPOT_START_TIMEOUT` may cut off), clients' starts and stops, and shutdown's.
`caller[o]` is the asynchronous half of a call and `job[o]` the blocking half, which
goes on when the caller gives up. A job's steps are the points where Windows or the
mutex `original` is asked: read, switch off, save, configure, switch on; and for a
stop: read, switch off, take, restore. `saved` is `original`. Two history variables: `lost`
records that the user's settings cannot be known any more (a failed restore, a kill), `abandoned`
that a timer took a start from its caller while it was at work.

Windows is external: a switch request is in flight until answered, is answered in
any order, also after the process is gone, with success, failure or "device off".
`MayHang`, `MayRefuse`, `MayMeddle` and `MayKill` bring in, one by one, operations
that outlast the timeout, a Windows that has nothing to share, the user's own hand,
and the end of the process.

A job's thread enters the Windows Runtime first, which may fail: the operation has failed then.

Left out: `status`, `configured` and `upstream_name` (they read), events and log
lines, and what `auto_connect` does before it starts the hotspot. An operation is
called again only once both its halves have ended, so the same caller's second job
never meets its first; two different callers' jobs may meet.

### MeshNode

`peers[n][p]` is the entry of `peer_table` for `p`: its state, its address and, in
heartbeat intervals, the time since `last_seen`. `filter[n]` is `dedup_cache`,
`loops[n]` which of `run_recv_loop` and `run_heartbeat_loop` have not returned,
`running[n]` the flag `is_running`, `addr[n]` the bound socket. Each branch of
`handle_incoming_packet` is one action, from the receipt to the last send: one loop
handles one packet at a time, and what it reads from a table and what it writes there
happen under one lock each. A round of the heartbeat is one action as well: `prune_stale`,
the pings, and in every `AnnounceEvery`-th round a gossiped list of peers. A loop
that is told to stop finishes what it is waiting for first, as in the code.

A filter is a set of ids and their queue. `Evicted(f, k)` drops the k oldest; how many
of them have outlived the ttl is a choice, any number with `MayExpire`.
`origin`, `delivered`, `forgotten` and `starts` are history variables: who broadcast
what, how often the subscribers got it, which ids left a filter, and how many
processes a node has had. `Stored` nodes keep their key and so their identity when they
start again; the others are new nodes, and their processes start once.

`Tick` is one heartbeat interval. It normally comes when every packet somebody waits
for is handled and every heartbeat done (a packet takes milliseconds, the interval is
500 ms); one that comes earlier is a fault and counts against `MaxFaults`, as do a lost
and a repeated packet. Packets to a socket nobody reads are gone with the tick.

Left out: signatures, versions, nonces and latency (they change what is shown, or
whether a packet is dropped, which `Lose` covers); `update_last_seen`,
`mark_handshaking` and `remove` of the peer table (no code calls them).
`DistributedMempool` does not include this module: it takes from it that a gossip packet
is handled once at each node (`DeliveredOnce`) and passes on to the neighbours.

### StationPlanning

A device is a number, and so is the network of its hotspot: `n > s` is `joins_first`,
since names are built from the IDs it compares. `wifi[n]` is what the adapter is on,
`links[n]` the `LinkSnapshot` that beacons carry, `downstream[n]` and `firstSeen[n]` the two
memories of the service, and `task[n][r]` the call of `check` or `auto_connect` that task `r`
of the daemon is in: the watchdog (`supervise`) or a client's connection. Both are split
where the operating system is asked and another task may run: reading the station
(`Check`, `Begin`), the scan's answer with `plan_station` on it (`CheckPlan`, `Plan`), each
network tried (`Join`), leaving (`Leave`), and the hotspot's start with the record of the links
(`Host`). `PlanStation` is the pure function.

Time is abstract. `GraceEnds` and `Forget` may come as soon as `JOIN_GRACE` and
`DOWNSTREAM_MEMORY` began; `Announce` is one beacon of `m` that reaches `n`, when one is
on the other's hotspot or both are on one network. A scan reports what is visible; a failed
one is a fault and reports less, or a hotspot that has gone. A join that fails may have
cost the old network, or come up after it was given up.
`Handled` devices are touched: the Wi-Fi or the hotspot is changed by hand, the daemon
stops, a client asks for `auto` or `status`. `MaxUpsets` bounds these and the failed calls
together. A failed call to learn what the adapter can do, or to switch the radio on, ends
the attempt. `CanHost` are the devices that report they can host; of these Windows may refuse
the `Refused` a hotspot, each time or at one time and not at another (winrt_hotspot.rs:139; known
limitations in the repository's README.md), and that counts as no upset.

Left out: signal strengths that change, two hotspots of equal strength (the order of the
scan decides), the watchdog's backoff (it only delays), and `join` commands that name a
network (`WifiByHand` does what they do).

### VmService

One request is one handler, over HTTP or the local socket. `req[r]` holds its operation, its
machine, and where it stands: `check` (authorisation, API key), `call` (in the client),
`back` (an answer for the manager), `poll` and `track` (the end of `provision`), `sweep`,
`list` and `raw` (the three parts of a cleanup). A call is a series of attempts
(`request_with_retry`) over a series of routes (`Routes`): `After` says where an answer
leads. `sessions` is the manager's map.

The provider is external: `vm[i]` is what became of a machine, `madeBy[i]` which request
made it under which idempotency key. An attempt and its effect are one step, with the
choice whether it took effect and whether the answer was heard; `Serves` says which routes
the provider knows, `Cap` how many machines it lets run. `TimesOut` is its idle timeout,
`HangUp` a client that goes away (the handler is dropped where it waits), `Restart` the end
of the daemon with everything in memory.

The other operations (health, exec, files, input, screenshots) are one, `use`: they ask and
pass the answer on. Left out: the Windows provider, which refuses everything; `AuthCheck` of the local
socket (ipc.rs:260), which asks the authentication server and touches nothing of the
daemon's; the lengths of delays; `setup_environment` and `FileLoader`, which nothing calls.

### AuthDb and DesktopApp

No transaction spans two statements in `db.rs`, so `job[r].at` names the statement a sign-in
is about to run, or whom it waits for outside, and each action is one statement with
the decision the code takes on it. A user's id is fresh and stands for the sign-in that
inserted it. `users`, `identities` (in the order of insertion, of which a lookup takes the
first) and `challenges` are the tables. `StatementFails` may come at any statement, `Close`
ends the process between any two. Passwords, tokens and signatures are opaque: a hash
stands for the password that verifies against it. `Mail` holds addresses in all their
spellings and `Lower` is what trimming and lower-casing make of one (email.rs:61, 85): registration and login by mail
apply it, while the address an account's provider gives (`MailOf`) is kept as it is
spelled, as the code does.

`DesktopApp` adds the one thread of the interface: a handler, or the arrival of a sign-in's
result, is one step. `screen`, `toggled`, `busy` and `session` are fields of `AppState`;
`cached` and `keyring` the two places `SecureSessionStore` writes to, `locked` records that
the keyring refused a write (an error the code ignores). `left` and `expired` record which
sessions were logged out of or are over. `Engine` is a caller of the engine beside the
interface, for a challenge presented twice: the application itself never does that.

### Messaging

A message has two jobs: `<<m, "out">>` at its sender (`send_message`, `send_file`), and
`<<m, "in">>` at whoever accepts the connection (`handle_mailbox_connection`), who is
whatever device has the looked-up address by then. `phase[x]` is where a job is. The
find-or-create calls of the store are two actions each, a query and an insert that no
transaction joins; `NameFile` and `WriteFile` are the look for a free name and the write.
A query that fails (`RecordFails`) ends the record but not the job, as in the code.

`peers[d]` is the `PeerRegistry`; its ticker (`Beacon`, then `PublishLeft` for each peer it
dropped), its receive loop (`Hear`, `PublishJoined` with the answer to a newcomer) and the
connections (`ReadHello`, `Greet`) change it and publish the change in a later step.
`told` counts what was published. `Tick` is a beacon interval. An upset is a move to
another address or off the network, the kill of a daemon, a lost datagram, a broken
connection, or a failed query; a connection whose other end vanished is `silent`, not cut.

Left out: display names and capabilities in beacons, the reading of history and peers, the
bytes of frames and files.

## What is checked

| Run | Configuration | Shows |
|---|---|---|
| `MempoolFaults` | a line a - b - c; the author and b claim; packets are lost, repeated and reordered; b may stop, and may complete | `OneOwner`: one winner, and every copy names it; `FollowsLifecycle`: the whole refines `TaskLifecycle`; `ClaimTaskReturns` |
| `MempoolReliable` | everybody hears everybody; two calls at b whose claims may both arrive | `NoStaleSender`, `AnswerMeansGranted`; `PayloadSpreads` |
| `MempoolOkMine` | two claimants | `OkMeansMine` violated: see findings |
| `Hotspot` | watchdog, a starting client, shutdown; Windows hangs and refuses, the user meddles, the daemon may be killed | `OffWhenStopped`, `UserSettingsKept`, `NeverSavesSherd`, `OnlyAbandonedOverlap`, `ShutdownReturns` |
| `HotspotTurns` | the same, but Windows only hangs | `TakeTurns` violated: see findings |
| `MeshGossip` | four nodes, three of them all linked and the fourth behind one; one node broadcasts twice; filters hold one id, so they forget | `FiltersConsistent`, `DeliveredOnce` also by two ways and back at the sender, `GossipReaches`, `GossipEnds` |
| `MeshPeers` | a connected pair and a third node that connects to either or asks for peers; one of the pair stops or dies; announcements | `NoFalseAlarm`, `ConnectedByHandshake`, `SilentPeerDropped` |
| `MeshLate` | a pair; one of them stops, dies, comes back with its key and connects; broadcasts, and one loss, repetition or late tick | `DeliveredOnce` |
| `StationPair` | two hosts in range of each other, the second of which Windows may refuse; one is also in range of a home network and of a Sherd network beyond; any Wi-Fi at first; watchdog and client; one upset | `TypeOK`, `HigherKeepsItsLink`, `PairLoopsEnd`, `MeshForms`, `ComesToRest`, `LinksComeTrue` |
| `VmRequests` | any two requests at once; three machines, one of an earlier daemon; one retry; one restart | `OneMachinePerCreate`, `DestroyedIsGone`, `CreatedIsTracked`, `CleanupReportsTruth`, `RequestsEnd` |
| `DesktopSignIns` | three sign-ins of any kind, one of them asked of the engine directly; one address in two spellings, three accounts opened with it, one of which may hide it and one of which spells it with capitals; two processes | `OneUserPerAddress`, `ChallengeLetsOneIn`, `SessionHasUser`, `LoggedOutStaysOut`, `BusyEnds` |
| `Mailbox` | a file and a text from b to a at once; a keeps records; one upset | `EventsBalance`, `HistoryIsTrue`, `ReceivedIsTold`, `PeersAreFound`, `GoneAreDropped` |

Every property of a passing run has a mutant in `PROJECT.json`: a plausible mistake in one
mapped definition with which TLC finds the property violated.

**Bounds.** One task: tasks share no state but the sockets, and no property relates
two. Three nodes: an author, a claimant and a rival or relay; the theorems hold for
any number. Two calls cover a rival's claim, a retry and two callers of one
node, the ways a sender can be replaced or dropped. Payload spreading by a
chain of relays is checked with three nodes, one of which may be asked before it
has the payload. The hotspot's runs have the watchdog, one client and shutdown, each called
again and again as long as the code does; callers of one kind are alike, and a client
that stops does what shutdown's job does. That a start may follow a client's stop in one
process is covered by the theorems, which hold for any calls. In the mesh, timeouts of 2 and 3 intervals
stand for 6 and 12: only their order counts, and that a pong fits in before the first.
A filter of one id is always full. `MaxHops` is two less than the number of nodes, the
least that can do: the longest way a copy can take before it reaches the last node. One
fault and one call are enough for each of them to meet every step of two nodes.

`StationPair` has two devices because what the code promises is about two (see below);
the third Sherd network, of a device that is not modelled, is there to be roamed to. Its one
upset comes at any moment, in any state, and after it everything must settle again; the
initial Wi-Fi is arbitrary. Device 1 hosts always and device 2 when Windows lets it, at any
start anew, so that both hosting, one hosting, and a host that is refused after a restart all
happen. In `VmRequests` two requests meet at every await of each other; a
retry, then a fallback, then another retry all happen; two polls and two misses let `Poll`
end in each of its ways; `Cap` 2 of 3 machines makes the limit bite. A restart in the
middle cuts both requests off. In `DesktopSignIns` three sign-ins are the fewest of which two race for
one address while a third presents a challenge again or signs in over a logout. `Mailbox`
has two incoming jobs of one contact at once, which is what find-or-create can get wrong, and
`StaleAfter` 1 drops a peer after the second interval without a beacon.
A message that reaches the wrong device needs three devices and two moves: `Connect` allows
it, `Mailbox` does not get there, and a run that does, with 3.7 million states for one message,
would be too long with the liveness properties.

Deadlock is checked in the mesh runs with time, in `StationPair` and in `Mailbox`. It is not
checked in the others: a mempool or a mesh where everything has been said, requests that
are all answered, an application that was closed for the last time, and a daemon
that has exited, stop.

**Fairness.** `ClaimTaskReturns` assumes that a send resolves, that a timer fires or
an answer is taken, and that the lock taken afterwards is obtained (weak fairness of
the call's own steps: handlers hold it briefly). `PayloadSpreads` adds weak fairness
of each event loop for packets it has not handled yet, that is a network that loses
nothing; the code does not retry, so without it the payload need not come.
`ShutdownReturns` assumes the timer of the grace period, and strong fairness of
shutdown's turn at `hotspot_op`, because tokio's mutex is fair; nothing is assumed
of Windows. `SilentPeerDropped` assumes of the mesh that both loops of a node are
scheduled, that no packet waits in a socket for ever (sockets are queues), and that time
passes: weak fairness of each node's handlers, its heartbeat, and `Tick`. `GossipReaches`
and `GossipEnds` need less, that somebody handles gossip as long as there is some.

In `StationPlanning` the daemon is started and its loop goes round (weak fairness of
`Start`, `Supervise` and the watchdog's `AutoConnect`, one of which is enabled at a time), a
client's `auto` goes on, intervals end, and for each pair of devices beacons arrive or the
memory of them runs out. Nothing is assumed of people, and calls fail only `MaxUpsets`
times: on a device whose scans always fail, nothing is ever planned. In `VmService`
every handler is a task of the runtime and every HTTP call of the Solari client has a time
limit, so that each request's own steps are weakly fair; the provider's answers are not. The
calls that `check_auth` and `cleanup_vms` make with a client of their own have no limit
(http.rs:378-398, 434). `AtMercy` names the states in which a request waits for one of them;
nothing is assumed there, and `RequestsEnd` says that a request is answered or gets there.
In `DesktopApp` statements end, the browser and the providers are waited for with timeouts, and the
interface polls its tasks; nobody is assumed to press a button. In `Messaging` time passes,
and discovery and jobs go on; a connection whose other end has vanished is not assumed to
be noticed.

### Findings

`OkMeansMine` (code bug): `claim_task` may return `Ok` at a node that did not get
the task, because any acknowledgement for the task resolves the pending claim
(distributed.rs:364). `tests/distributed_tests.rs:136` says of a second worker "must fail!".

`TakeTurns` (code bug): `hotspot_op` is "held for the whole of every hotspot on/off operation, so
they take turns" (service.rs:133). When `HOTSPOT_START_TIMEOUT` is over (473) the turn is given
away under a start whose thread goes on, and the next operation works on the hotspot beside
it. `OnlyAbandonedOverlap` is what is left of the claim: of two jobs at work one was taken from
its caller by a timer, the watchdog's or that of shutdown's grace.

### What the properties leave out

Modelling met the following besides the findings. The properties are stated so as to leave
them out, at the place named here; no run shows them.

Four contradict a sentence of the repository:

- An accepted claim is broadcast "so all nodes mark Claimed" (distributed.rs:354). A node that
  gets the acknowledgement before the payload ignores it (380) and, once it has the payload,
  offers a task that is taken, for good. `OneOwner` is about the copies that are marked.
- `native_email_auth_tests.rs:30-40` treats two spellings of an address as one. A provider's
  address is compared and stored as it is spelled (db.rs:197), so that one with capitals makes
  a second user of a registered mailbox. `OneUserPerAddress` is about one spelling.
- "Every message and file that arrives is saved straight away", "Nothing is lost" (README.md
  of the repository, 109 and 114). Of the first two messages exchanged with a device at the
  same time, both find no contact and both insert one (storage.rs:59); the second fails on the
  unique index, and its message is announced but not recorded. `ReceivedIsTold` names that
  race and a failed query as the only ways to lose a record.
- "`sherd history <id>` shows you everything you missed" (140), and the store has "the
  one conversation this device has with a contact" (storage.rs:68). Conversations have no unique
  index, so the same race inserts two for one contact (storage.rs:79); history reads the first, and what was recorded
  in the other is not shown. No property is about what history reads.

The others are limits of the code about which it says nothing.

*Pool and mesh.* The owner's repeated claim is refused as already claimed
(distributed.rs:335). A lost request or payload is not asked for again
(219), and an empty payload is never served (242). A node that comes back with its key has
an empty table while the others hold it for connected (node.rs:391). `handle_pong` matches
a pong by its address alone: a node bound where another died keeps the dead one's entry
connected (413).

*Hotspot.* Shutdown's 4 seconds may pass in the queue behind a start, and nothing has been
asked of Windows then (service.rs:604). A start that outlives its timeout may switch the
hotspot on, and put Sherd's settings in, after the stop that followed it (473): hence `~abandoned`
in `OffWhenStopped` and `UserSettingsKept`. A stop that WinRT refuses falls through to netsh,
whose success hides that Mobile Hotspot is still up (composite.rs:80): hence only a stop that
WinRT answered, `result[Shutdown] = "ok"`, is meant in `OffWhenStopped`.

*Stations.* A device hears only of the hotspots of its direct clients, so three joins that
each look safe can close a loop 3 - 2 - 1 - 3 (service.rs:1009), which nothing undoes: hence
`PairLoopsEnd`. A device that Windows refuses a hotspot carries none: hence `Refused` in
`MeshForms`.

*Messaging.* Two files of one name that arrive together overwrite
one another (service.rs:743). A message goes to the last known address, another device's
for up to 20 s (708). `PeerJoined` and `PeerLeft` of one peer can come in the wrong order
(764, 824). The reading of a connection has no timeout (906): a job whose sender vanished
waits for ever. A frame beyond 64 MiB is recorded as sent and refused by its reader
(mailbox.rs:132). A client that does not read fills its outbox (daemon's connection.rs:21).

*VMs.* A server that takes a connection and never answers holds a cleanup or an
authorisation for ever (http.rs:378-398, 434; likewise ipc.rs:260): hence `AtMercy` in
`RequestsEnd`. A destroy that failed forgets a running machine (vm.rs:135). `exec` is retried without
an idempotency key (client.rs:405). A create that is cut off leaves a machine nobody tracks
(vm.rs:64). A resume answered before a destroy tracks a machine that is gone (179). A
cleanup destroys machines that are being provisioned (http.rs:387). `ipc::serve` removes the
socket of a daemon that runs (ipc.rs:74), and a connection that ends drops the answers
still queued for it (174).

*Accounts.* The Enter key submits while a sign-in is under way (main.rs:89); a sign-in that
ends after a logout signs in again (158); one that fails clears the busy flag of another
(162). The splash screen shows a session that expires during its two seconds (33).
Identities have no unique index (db.rs:177), so two sign-ins by an account that hides its
address make two users, and a process that ends between the two inserts leaves a user
without an identity (105). Errors of the keyring
are ignored (storage.rs:95, 152): hence `~locked`. A wrong signature uses the
challenge up (solana.rs:116).

## What is proved

`DistributedMempoolProofs` proves with TLAPS, for any finite or infinite sets of
nodes, tasks and calls, any topology and with duplicates, lag and stops allowed:
`TypeOK`, `OneOwner`, `DoneMeansGranted`, `AnswerMeansGranted`, `NoStaleSender` and
`NoStepBack`. The assumptions are those the modules state about their constants
(`NoNodeAssumption`, `ConstantsAssumption`): functions have the domains they need,
and the "nobody" values are no members.

None of these is inductive alone. `OneOwner` needs to know that an accepted
acknowledgement on the wire names someone the author granted, that the author's copy
is on offer exactly until the first grant, and that no packet can make it available
again: nobody sends the author its own payload, for which requests must come from
others, for which announcements must come from the author. `IInv` is the
conjunction of these: `PacketInv` (what each packet entitles its receiver to),
`AuthorInv` (the author's copy against `granted`), `RequestsInv` (whose payloads are
owed), `WaiterInv` (a registered sender belongs to a live call with an empty
channel), `CallInv` (answers against grants), `OneOwner` and `DoneMeansGranted`. The
proof goes through `StepEffects`: every step moves a copy along `CopyStep` and a
grant along `GrantStep`. `CopyStep` alone gives `NoStepBack`; the invariants of
packets, requests and calls each have a lemma with one step per action.

The same module proves the refinement `FollowsLifecycle`: the pool implements
`TaskLifecycle`. A task's abstract owner is the one the author granted it to, its stage is
read off the author's copy and the grant. Every step touches one task at most (`OneTask`),
and moves that task by `Offer`, `Grant` or `Finish`, or leaves it where it is (`StageStep`);
that a finished task was granted, and to one node, are the parts of `IInv` it needs.

`MeshNodeProofs` proves `FiltersConsistent` and `DeliveredOnce` for any nodes, links,
capacity, hop limit and timeouts, with losses, repeats, late ticks and restarts. Two
lemmas about the filter carry it, `EvictedConsistent` and `InsertedConsistent`. The
inductive invariant `IInv` adds to the two properties that only broadcast ids are on the
wire (`WireInv`: else the sender of a later broadcast of the same id would have
delivered it already), that only started nodes have loops and broadcasts
(`ProcessInv`), and that whatever a process has delivered or broadcast is in its filter
or was forgotten by it (`DeliveryInv`). The assumptions are `MeshAssumption` and
`FilterAssumption`: types of the constants, a nobody that is no node and no address, no
link of a node to itself, and timeouts in their order.

`MeshPeerProofs` proves of the peer tables `ConnectedByHandshake` for any nodes, links and
faults, and `NoFalseAlarm` if no two nodes can have one address (`AddressesApart`; an
address that is taken over is another matter, see above) and the stale timeout spans two
heartbeats. Below two, a peer would be stale before its pong is due; the code has six.
Both rest on `PeersInv`, the types with what they leave out: an address that a table, an
announcement or a handshake gives for a node is one it can bind, and the one it has if
the node still is its first process (`Known`); a process that has ended has no table and no
loops. `NoFalseAlarm` is `FreshInv`: an entry of a running node for a running peer is never
older than one interval, and if it is that old after the heartbeat, the ping or the pong
that will refresh it is on the wire. That is where both assumptions are needed: the pong is
matched by its address, and the tick that ages the entry to two cannot come while the
packet waits.

`HotspotControlProofs` proves, for any number of calls of any kind, and whatever may happen,
`TypeOK`, `NeverSavesSherd`, `OnlyAbandonedOverlap`, `UserSettingsKept` and `OffWhenStopped`. `TypeOK` and `NeverSavesSherd` are inductive together, since what a job saved
may be put back. The others need, in this order: `JobsInv`, that a job is in a phase of its
kind and has no result before it returned; `TurnsInv`, that a job belongs to the call with
the turn or was left behind by a start's timer or by shutdown's grace, from which
`OnlyAbandonedOverlap` follows since one call has the turn; and three that hold until a start is
abandoned: `NoneLeftInv`, that no start is left behind; `KeptInv`, that a job has saved the user's
settings before it writes Sherd's, at every phase between; and `OffInv`, what a job near its
end says about the switch, that netsh is asked only when WinRT could not, and that nothing is
in flight once shutdown was told the hotspot is off.

`VmServiceProofs` proves `TypeOK`, `OneMachinePerCreate`, `DestroyedIsGone`,
`CreatedIsTracked` and `CleanupReportsTruth` for any number of requests, ids, retries, polls
and restarts, assuming `DestroyServed`: the provider knows one of the three routes that a
destroy is tried at. (If it knew none, "not found" at each of them would be reported as
destroyed.) The invariant `IInv` joins the types with `MadeInv` (a machine was made by one
request, under its key, and that request names it from then on) and `Named` (whatever
requests and sessions name was made); `Destroys` (a destroy that has gone past a route did
so because the provider does not know it, so that the last "not found" means gone); and
`Cleans` (a cleanup that has gone past a machine destroyed it or knows of an error). Each
action has a lemma; `Keeps` and `KeepsStill` are their common part, what a step of one
request leaves of the invariant to the others. `CreatedIsTracked` is proved from its own
step lemma, `StepGoesOn`.

`DesktopAppProofs` proves `OneUserPerAddress`, `ChallengeLetsOneIn`, `SessionHasUser` (with the
types) and `LoggedOutStaysOut` for any sign-ins, addresses, accounts and restarts, with
statements that fail and a process that ends between any two. `AuthAssumption` says that
addresses, accounts and wallets are different keys (`auth_identities` has a column for the
provider), and that lower-casing an address twice is lower-casing it once; of the spelling
that a provider gives it says nothing. `DesktopAssumption` types the rest. The invariant: a
sign-in is in the stages of its kind, with the address of its kind (`JobsInv`); users have their ids and addresses for
themselves, and no one that may still insert a user has inserted one (`UsersInv`); an
identity, and a sign-in that has its user, fits that user's address (`LinksInv`), which is
what makes two sign-ins of one address agree though they may have found the user in
different ways; a challenge that let a sign-in in is used up, and by it alone
(`ChallengesInv`); what is shown, kept or left are sign-ins that were answered, and what was
left is neither shown nor kept (`SessionsInv`).

`MessagingProofs` proves `EventsBalance` and `HistoryIsTrue` (with the types) for any devices,
addresses, messages, timeouts and upsets, given `MessagingAssumption`: home addresses are
different and there are finitely many files. `EventsBalance` alone is not inductive: `PairInv`
adds that at most one `PeerJoined` of a pair is due, from the receive loop or one connection,
and only while the peer is in the table and too young to be dropped, so that it cannot be
dropped and join again before it was announced. For the history, `LinkInv` ties the two jobs
of a connection to the frames between them: a job that records has both of them. `StoreInv` says that
what a job remembers between its query and its insert still is in the store: contacts and
conversations are only added, a device has one contact, and a row is its job's only one. `FilesInv`
is there for the types: a file that is being saved has a free name left, since every name
taken is that of another file.

`StationPlanningProofs` proves `TypeOK` and the action property `HigherKeepsItsLink` for any number
of devices, networks and concurrent tasks. `WifiInv` (a Wi-Fi is on a network in range) and
`TaskInv` (a task has read a network in range; one that is to leave has read the hotspot of
a device with a higher ID; one that is to join has something to join) make them inductive.
`WhoLetsGo` then goes through the steps that take a device off a hotspot that stays on the
air. Without the second exception in the property the theorem fails, though TLC cannot find that with
two devices: device 2, joined with 1, plans to roam to 3; the hotspot of 3 goes; the join
fails and may have cost the link to 1 already (service.rs:508).
`PlannedBefore` names exactly those steps: the late join of another network, and the late
leaving of a still higher one.

Only model-checked: the liveness properties `ClaimTaskReturns`, `PayloadSpreads`,
`ShutdownReturns`, `GossipReaches`, `GossipEnds`, `SilentPeerDropped`, `PairLoopsEnd`, `MeshForms`,
`ComesToRest`, `LinksComeTrue`, `RequestsEnd`, `BusyEnds`, `ReceivedIsTold`, `PeersAreFound` and
`GoneAreDropped`, since liveness under fairness is out of TLAPS's reach here. Every invariant
and every action property that a passing run checks is proved, and so is the refinement;
those with a condition (`NoFalseAlarm`, those that rest on `DestroyServed`) under that condition.

## Not modelled

- The wire format beyond hop count and addressee, the parsing of netsh and WLAN output,
  frames, key files, configuration, command lines: sequential conversions or I/O without
  state that outlives a call. They have tests of their own (`wire/tests/codec_tests.rs`).
- The daemon's reader, writer and event forwarder of a client's connection: queues between
  the engine and a pipe.
- Code without callers: the pool's `fail`, the one-time exchange codes (db.rs:297) and the
  HTTP client of a remote authentication server, `setup_environment`, `FileLoader`, the
  desktop's client of the daemon's pipe.
- Layout, theme and the simulated task of the mesh screen; reads of history and status.
- The Linux backend, which reports that nothing is supported, and the capability checks.
- The web side project, a small proxy with a page in JavaScript, unrelated to the rest.

What is worth adding next: that the hotspot's start and stop implement the one step that
`StationPlanning` makes of them, and that the peer tables of `Messaging` implement a plain
registry; the daemon's connections with their outboxes.
