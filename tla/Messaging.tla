------------------------------- MODULE Messaging -------------------------------
(***************************************************************************)
(* Messages between devices of one Wi-Fi network: the presence beacons and *)
(* the table of reachable peers (run_discovery_beacon, PeerRegistry), the  *)
(* mailbox that a message or file is sent to over a connection of its own  *)
(* (send_message, send_file, handle_mailbox_connection), and the store of  *)
(* contacts, conversations and messages that both ends write (Storage).    *)
(*                                                                         *)
(* A message has two jobs: <<m, "out">> at its sender and <<m, "in">> at   *)
(* whoever accepts its connection. Time is counted in beacon intervals.    *)
(***************************************************************************)
EXTENDS Integers, FiniteSets

CONSTANTS Device,     \* the devices
          Ip,         \* addresses on the network
          Nowhere,    \* in place of an address: not on the network
          NoDevice,   \* None
          NoPeer,     \* in place of a PeerRecord
          Msg,        \* the send_message and send_file requests of clients
          File,       \* those of them that send a file; all have one file name
          From, To,   \* From[m], To[m]: who sends m, and to whom
          Home,       \* Home[d]: the address a device has at first
          Movable,    \* devices that change their address or leave
          Mortal,     \* devices whose daemon is killed and started again
          Recorder,   \* devices whose store works at all
          Flaky,      \* messages that lose their connection, or cannot be saved
          MaxUpsets,  \* bound: changes of address, kills of a daemon, lost
                      \* datagrams, broken connections and failed queries, together
          StaleAfter  \* PEER_STALE_AFTER, in intervals

ASSUME MessagingAssumption ==
    /\ Nowhere \notin Ip /\ NoDevice \notin Device
    /\ NoPeer \notin [addr : Ip, age : Nat] /\ NoPeer \notin [from : Device, ip : Ip]
    /\ File \subseteq Msg /\ IsFiniteSet(File)
    /\ From \in [Msg -> Device] /\ To \in [Msg -> Device]
    /\ Home \in [Device -> Ip] /\ \A d, e \in Device : Home[d] = Home[e] => d = e
    /\ Movable \subseteq Device /\ Mortal \subseteq Device
    /\ Recorder \subseteq Device /\ Flaky \subseteq Msg
    /\ MaxUpsets \in Nat /\ StaleAfter \in Nat

VARIABLES up,       \* up[d]: the daemon of d runs
          at,       \* at[d]: the address of d
          peers,    \* peers[d][e]: PeerRegistry
          inbox,    \* inbox[d]: datagrams at the discovery socket of d
          ticker,   \* ticker[d]: where the beacon's ticker is in its round
          leaving,  \* leaving[d]: peers it dropped and has not published yet
          hearing,  \* hearing[d]: the announcement whose PeerJoined is due
          told,     \* told[d][e]: PeerJoined less PeerLeft events published about e
          phase,    \* phase[x]: where job x is
          memo,     \* memo[x]: the contact or conversation that job x found
          taker,    \* taker[m]: the device that accepted the connection of m
          seenFrom, \* seenFrom[m]: the address it came from
          wire,     \* wire[m]: frames on the way
          line,     \* line[m]: "closed", "up", "cut", or "silent"
          path,     \* path[m]: the counter in the name that m's file is saved as
          files,    \* files[d][k]: the message whose data file k of d holds
          contacts, conversations, rows, \* the tables of d
          upsets

table == <<up, at, peers, inbox, ticker, leaving, hearing, told>>
jobs  == <<phase, memo, taker, seenFrom, wire, line, path>>
store == <<files, contacts, conversations, rows>>
vars  == <<table, jobs, store, upsets>>

--------------------------------------------------------------------------------
(* Jobs, and what they are about. *)

Job       == Msg \X {"out", "in"}
Ticking   == {"beacon", "publish", "idle"}
Recording == {"find contact", "add contact", "find conversation", "add conversation", "add message"}
Phase     == Recording \cup {"new", "hello", "payload", "greet", "name file",
                             "write file", "publish", "done", "over"}
Saved     == 0 .. Cardinality(File)

Runs(x)  == IF x[2] = "out" THEN From[x[1]] ELSE taker[x[1]]
Party(x) == IF x[2] = "out" THEN To[x[1]] ELSE From[x[1]]

TypeOK ==
    /\ up \in [Device -> BOOLEAN]
    /\ at \in [Device -> Ip \cup {Nowhere}]
    /\ peers \in [Device -> [Device -> {NoPeer} \cup [addr : Ip, age : 0 .. StaleAfter + 1]]]
    /\ inbox \in [Device -> SUBSET [from : Device, ip : Ip]]
    /\ ticker \in [Device -> Ticking]
    /\ leaving \in [Device -> SUBSET Device]
    /\ hearing \in [Device -> {NoPeer} \cup [from : Device, ip : Ip]]
    /\ told \in [Device -> [Device -> -1 .. 2]]
    /\ phase \in [Job -> Phase]
    /\ memo \in [Job -> Nat]
    /\ taker \in [Msg -> Device \cup {NoDevice}]
    /\ seenFrom \in [Msg -> Ip \cup {Nowhere}]
    /\ wire \in [Msg -> 0 .. 2]
    /\ line \in [Msg -> {"closed", "up", "cut", "silent"}]
    /\ path \in [Msg -> Saved]
    /\ files \in [Device -> [Saved -> Msg \cup {NoDevice}]]
    /\ contacts \in [Device -> SUBSET [id : Nat, device : Device]]
    /\ conversations \in [Device -> SUBSET [id : Nat, contact : Nat]]
    /\ rows \in [Device -> SUBSET [id : Nat, conversation : Nat, job : Job]]
    /\ upsets \in 0 .. MaxUpsets

Init ==
    /\ up = [d \in Device |-> TRUE] /\ at = Home
    /\ peers = [d \in Device |-> [e \in Device |-> NoPeer]]
    /\ inbox = [d \in Device |-> {}]
    /\ ticker = [d \in Device |-> "beacon"]
    /\ leaving = [d \in Device |-> {}]
    /\ hearing = [d \in Device |-> NoPeer]
    /\ told = [d \in Device |-> [e \in Device |-> 0]]
    /\ phase = [x \in Job |-> "new"] /\ memo = [x \in Job |-> 0]
    /\ taker = [m \in Msg |-> NoDevice] /\ seenFrom = [m \in Msg |-> Nowhere]
    /\ wire = [m \in Msg |-> 0] /\ line = [m \in Msg |-> "closed"] /\ path = [m \in Msg |-> 0]
    /\ files = [d \in Device |-> [k \in Saved |-> NoDevice]]
    /\ contacts = [d \in Device |-> {}] /\ conversations = [d \in Device |-> {}]
    /\ rows = [d \in Device |-> {}]
    /\ upsets = 0

Upset   == upsets < MaxUpsets /\ upsets' = upsets + 1
NoUpset == UNCHANGED upsets

--------------------------------------------------------------------------------
(* The network. *)

OnNet(d)  == up[d] /\ at[d] # Nowhere
Owner(ip) == {d \in Device : OnNet(d) /\ at[d] = ip}

\* A datagram of d reaches every one of S, or the network loses it to one of them.
Announce(d, S) ==
    IF at[d] = Nowhere THEN UNCHANGED inbox /\ NoUpset
    ELSE LET Deliver(T) == inbox' = [e \in Device |->
                              IF e \in T \ {d} THEN inbox[e] \cup {[from |-> d, ip |-> at[d]]}
                              ELSE inbox[e]]
         IN \/ Deliver(S) /\ NoUpset
            \/ \E e \in S \ {d} : Deliver(S \ {e}) /\ Upset

--------------------------------------------------------------------------------
(* PeerRegistry and note_peer. *)

\* Mutants: a peer counts as new at every beacon; only the first refreshes its record.
UpsertedNoisily(d, e, ip, new) ==
    /\ peers' = [peers EXCEPT ![d][e] = [addr |-> ip, age |-> 0]]
    /\ new = TRUE
UpsertedOnce(d, e, ip, new) ==
    /\ new = (peers[d][e] = NoPeer)
    /\ peers' = IF new THEN [peers EXCEPT ![d][e] = [addr |-> ip, age |-> 0]] ELSE peers

Upserted(d, e, ip, new) ==
    /\ peers' = [peers EXCEPT ![d][e] = [addr |-> ip, age |-> 0]]
    /\ new = (peers[d][e] = NoPeer)

\* A mutant: a table that never forgets.
StaleNever(d) == {}

Stale(d) == {e \in Device : peers[d][e] # NoPeer /\ peers[d][e].age > StaleAfter}

--------------------------------------------------------------------------------
(* run_discovery_beacon: its ticker, and its receive loop. *)

Beacon(d) ==
    /\ up[d] /\ ticker[d] = "beacon"
    /\ Announce(d, {e \in Device : OnNet(e)})
    /\ peers' = [peers EXCEPT ![d] = [e \in Device |-> IF e \in Stale(d) THEN NoPeer ELSE @[e]]]
    /\ leaving' = [leaving EXCEPT ![d] = Stale(d)]
    /\ ticker' = [ticker EXCEPT ![d] = IF Stale(d) = {} THEN "idle" ELSE "publish"]
    /\ UNCHANGED <<up, at, hearing, told, jobs, store>>

PublishLeft(d) ==
    /\ up[d] /\ ticker[d] = "publish"
    /\ \E e \in leaving[d] :
          /\ told' = [told EXCEPT ![d][e] = @ - 1]
          /\ leaving' = [leaving EXCEPT ![d] = @ \ {e}]
          /\ ticker' = [ticker EXCEPT ![d] = IF leaving[d] = {e} THEN "idle" ELSE @]
    /\ UNCHANGED <<up, at, peers, inbox, hearing, jobs, store>> /\ NoUpset

Hear(d) ==
    /\ up[d] /\ hearing[d] = NoPeer
    /\ \E i \in inbox[d], new \in BOOLEAN :
          /\ inbox' = [inbox EXCEPT ![d] = @ \ {i}]
          /\ Upserted(d, i.from, i.ip, new)
          /\ hearing' = [hearing EXCEPT ![d] = IF new THEN i ELSE NoPeer]
    /\ UNCHANGED <<up, at, ticker, leaving, told, jobs, store>> /\ NoUpset

PublishJoined(d) ==
    /\ up[d] /\ hearing[d] # NoPeer
    /\ told' = [told EXCEPT ![d][hearing[d].from] = @ + 1]
    /\ Announce(d, Owner(hearing[d].ip))
    /\ hearing' = [hearing EXCEPT ![d] = NoPeer]
    /\ UNCHANGED <<up, at, peers, ticker, leaving, jobs, store>>

--------------------------------------------------------------------------------
(* The way of a job into record_message, and out of it. *)

Recorded(x) == IF x[2] = "in" THEN "publish" ELSE "done"
ToRecord(x) == IF Runs(x) \in Recorder THEN "find contact" ELSE Recorded(x)

\* A mutant: a message that cannot be saved is not announced either.
FailsUntold(x) ==
    /\ phase' = [phase EXCEPT ![x] = "over"]
    /\ UNCHANGED <<memo, contacts, conversations, rows>>

--------------------------------------------------------------------------------
(* send_message and send_file, up to the connection they close. *)

Goes(x, p) == phase' = [phase EXCEPT ![x] = p]

\* The device that has the address now takes the connection, whoever it is.
Connect(m) ==
    LET x == <<m, "out">>  s == From[m]  p == peers[s][To[m]] IN
    /\ up[s] /\ phase[x] = "new"
    /\ IF p # NoPeer /\ OnNet(s) /\ Owner(p.addr) # {}
       THEN /\ Goes(x, "hello")
            /\ \E r \in Owner(p.addr) : taker' = [taker EXCEPT ![m] = r]
            /\ seenFrom' = [seenFrom EXCEPT ![m] = at[s]]
            /\ line' = [line EXCEPT ![m] = "up"]
       ELSE Goes(x, "over") /\ UNCHANGED <<taker, seenFrom, line>>
    /\ UNCHANGED <<table, memo, wire, path, store>> /\ NoUpset

\* A frame written to a connection that has broken may still seem to be sent.
Write(m) ==
    LET x == <<m, "out">> IN
    /\ phase[x] \in {"hello", "payload"}
    /\ \/ /\ Goes(x, IF phase[x] = "hello" THEN "payload" ELSE ToRecord(x))
          /\ wire' = [wire EXCEPT ![m] = IF line[m] = "up" THEN @ + 1 ELSE @]
       \/ line[m] # "up" /\ Goes(x, "over") /\ UNCHANGED wire
    /\ UNCHANGED <<table, memo, taker, seenFrom, line, path, store>> /\ NoUpset

--------------------------------------------------------------------------------
(* handle_mailbox_connection, up to record_message. *)

ReadHello(m) ==
    LET x == <<m, "in">>  r == taker[m] IN
    /\ phase[x] = "new" /\ wire[m] >= 1
    /\ \E new \in BOOLEAN :
          /\ Upserted(r, From[m], seenFrom[m], new)
          /\ Goes(x, IF new THEN "greet" ELSE "payload")
    /\ UNCHANGED <<up, at, inbox, ticker, leaving, hearing, told,
                   memo, taker, seenFrom, wire, line, path, store>> /\ NoUpset

Greet(m) ==
    /\ phase[<<m, "in">>] = "greet" /\ Goes(<<m, "in">>, "payload")
    /\ told' = [told EXCEPT ![taker[m]][From[m]] = @ + 1]
    /\ UNCHANGED <<up, at, peers, inbox, ticker, leaving, hearing,
                   memo, taker, seenFrom, wire, line, path, store>> /\ NoUpset

ReadPayload(m) ==
    /\ phase[<<m, "in">>] = "payload" /\ wire[m] = 2
    /\ Goes(<<m, "in">>, IF m \in File THEN "name file" ELSE ToRecord(<<m, "in">>))
    /\ line' = [line EXCEPT ![m] = "closed"]
    /\ UNCHANGED <<table, memo, taker, seenFrom, wire, path, store>> /\ NoUpset

ReadFails(m) ==
    /\ taker[m] # NoDevice /\ line[m] = "cut"
    /\ phase[<<m, "in">>] \in {"new", "payload"} /\ Goes(<<m, "in">>, "over")
    /\ UNCHANGED <<table, memo, taker, seenFrom, wire, line, path, store>> /\ NoUpset

\* save_incoming_file: the first name that is free; the file is written later.
NameFile(m) ==
    LET free == {k \in Saved : files[taker[m]][k] = NoDevice} IN
    /\ phase[<<m, "in">>] = "name file" /\ Goes(<<m, "in">>, "write file")
    /\ path' = [path EXCEPT ![m] = CHOOSE k \in free : \A j \in free : k <= j]
    /\ UNCHANGED <<table, memo, taker, seenFrom, wire, line, store>> /\ NoUpset

WriteFile(m) ==
    LET x == <<m, "in">> IN
    /\ phase[x] = "write file"
    /\ \/ /\ Goes(x, ToRecord(x)) /\ NoUpset
          /\ files' = [files EXCEPT ![taker[m]][path[m]] = m]
       \/ m \in Flaky /\ Goes(x, "over") /\ Upset /\ UNCHANGED files
    /\ UNCHANGED <<table, memo, taker, seenFrom, wire, line, path,
                   contacts, conversations, rows>>

--------------------------------------------------------------------------------
(* record_message: queries of the store, with other jobs between them. *)

First(S)  == CHOOSE r \in S : \A other \in S : r.id <= other.id
FreshId(S) == Cardinality(S) + 1
RecordFails(x) ==
    /\ Goes(x, Recorded(x))
    /\ UNCHANGED <<memo, contacts, conversations, rows>>

\* Where the job goes on, and with which id.
Has(x, p, id) == Goes(x, p) /\ memo' = [memo EXCEPT ![x] = id]

FindContact(x) ==
    LET found == {c \in contacts[Runs(x)] : c.device = Party(x)} IN
    /\ phase[x] = "find contact"
    /\ IF found = {} THEN Has(x, "add contact", 0)
       ELSE Has(x, "find conversation", First(found).id)
    /\ UNCHANGED <<contacts, conversations, rows>>

\* A mutant: no unique index on device_id.
AddContactAnyway(x) ==
    LET d == Runs(x)  id == FreshId(contacts[d]) IN
    /\ phase[x] = "add contact"
    /\ Has(x, "find conversation", id)
    /\ contacts' = [contacts EXCEPT ![d] = @ \cup {[id |-> id, device |-> Party(x)]}]
    /\ UNCHANGED <<conversations, rows>>

AddContact(x) ==
    LET d == Runs(x)  id == FreshId(contacts[d]) IN
    /\ phase[x] = "add contact"
    /\ IF \E c \in contacts[d] : c.device = Party(x) THEN RecordFails(x)
       ELSE /\ Has(x, "find conversation", id)
            /\ contacts' = [contacts EXCEPT ![d] = @ \cup {[id |-> id, device |-> Party(x)]}]
            /\ UNCHANGED <<conversations, rows>>

FindConversation(x) ==
    LET found == {v \in conversations[Runs(x)] : v.contact = memo[x]} IN
    /\ phase[x] = "find conversation"
    /\ IF found = {} THEN Has(x, "add conversation", memo[x])
       ELSE Has(x, "add message", First(found).id)
    /\ UNCHANGED <<contacts, conversations, rows>>

AddConversation(x) ==
    LET d == Runs(x)  id == FreshId(conversations[d]) IN
    /\ phase[x] = "add conversation"
    /\ Has(x, "add message", id)
    /\ conversations' = [conversations EXCEPT ![d] = @ \cup {[id |-> id, contact |-> memo[x]]}]
    /\ UNCHANGED <<contacts, rows>>

AddMessage(x) ==
    LET d == Runs(x) IN
    /\ phase[x] = "add message" /\ Goes(x, Recorded(x))
    /\ rows' = [rows EXCEPT ![d] = @ \cup
                   {[id |-> FreshId(rows[d]), conversation |-> memo[x], job |-> x]}]
    /\ UNCHANGED <<memo, contacts, conversations>>

Record(x) ==
    /\ \/ /\ \/ FindContact(x) \/ AddContact(x) \/ FindConversation(x)
             \/ AddConversation(x) \/ AddMessage(x)
          /\ NoUpset
       \/ x[1] \in Flaky /\ phase[x] \in Recording /\ RecordFails(x) /\ Upset
    /\ UNCHANGED <<table, taker, seenFrom, wire, line, path, files>>

\* MessageReceived, and the connection is closed.
PublishMessage(m) ==
    /\ phase[<<m, "in">>] = "publish" /\ Goes(<<m, "in">>, "done")
    /\ UNCHANGED <<table, memo, taker, seenFrom, wire, line, path, store>> /\ NoUpset

--------------------------------------------------------------------------------
(* The environment. *)

\* The connections of d, when it can still close them, and when it cannot.
Broken(d, how) ==
    line' = [m \in Msg |-> IF line[m] = "up" /\ d \in {From[m], taker[m]} THEN how ELSE line[m]]

\* Publications and datagrams take less than an interval.
Tick ==
    /\ \A d \in Device : up[d] => ticker[d] = "idle" /\ inbox[d] = {} /\ hearing[d] = NoPeer
    /\ \A m \in Msg : phase[<<m, "in">>] # "greet"
    /\ ticker' = [d \in Device |-> "beacon"]
    /\ peers' = [d \in Device |-> [e \in Device |->
                    IF peers[d][e] = NoPeer \/ peers[d][e].age > StaleAfter THEN peers[d][e]
                    ELSE [peers[d][e] EXCEPT !.age = @ + 1]]]
    /\ UNCHANGED <<up, at, inbox, leaving, hearing, told, jobs, store>> /\ NoUpset

\* d gets a free address, or leaves the network.
Move(d) ==
    /\ d \in Movable /\ Upset
    /\ \E ip \in Ip \cup {Nowhere} :
          /\ ip # at[d] /\ \A e \in Device : at[e] = ip => ip = Nowhere
          /\ at' = [at EXCEPT ![d] = ip]
    /\ Broken(d, "silent")
    /\ UNCHANGED <<up, peers, inbox, ticker, leaving, hearing, told,
                   phase, memo, taker, seenFrom, wire, path, store>>

Break(m) ==
    /\ m \in Flaky /\ line[m] = "up" /\ line' = [line EXCEPT ![m] = "cut"] /\ Upset
    /\ UNCHANGED <<table, phase, memo, taker, seenFrom, wire, path, store>>

Begun(x) == phase[x] \notin {"new", "done", "over"} \/ (x[2] = "in" /\ phase[x] = "new")

Kill(d) ==
    /\ d \in Mortal /\ up[d] /\ Upset
    /\ up' = [up EXCEPT ![d] = FALSE]
    /\ peers' = [peers EXCEPT ![d] = [e \in Device |-> NoPeer]]
    /\ told' = [told EXCEPT ![d] = [e \in Device |-> 0]]
    /\ inbox' = [inbox EXCEPT ![d] = {}]
    /\ leaving' = [leaving EXCEPT ![d] = {}]
    /\ hearing' = [hearing EXCEPT ![d] = NoPeer]
    /\ phase' = [x \in Job |-> IF Runs(x) = d /\ Begun(x) THEN "over" ELSE phase[x]]
    /\ Broken(d, "cut")
    /\ UNCHANGED <<at, ticker, memo, taker, seenFrom, wire, path, store>>

Start(d) ==
    /\ ~up[d] /\ up' = [up EXCEPT ![d] = TRUE]
    /\ ticker' = [ticker EXCEPT ![d] = "beacon"]
    /\ UNCHANGED <<at, peers, inbox, leaving, hearing, told, jobs, store>> /\ NoUpset

Discovery(d) == Beacon(d) \/ PublishLeft(d) \/ Hear(d) \/ PublishJoined(d)
Sending(m)   == Write(m) \/ Record(<<m, "out">>)
Receiving(m) == ReadHello(m) \/ Greet(m) \/ ReadPayload(m) \/ ReadFails(m) \/ NameFile(m)
                   \/ WriteFile(m) \/ Record(<<m, "in">>) \/ PublishMessage(m)

Next ==
    \/ Tick
    \/ \E d \in Device : Discovery(d) \/ Move(d) \/ Kill(d) \/ Start(d)
    \/ \E m \in Msg : Connect(m) \/ Sending(m) \/ Receiving(m) \/ Break(m)

Spec == Init /\ [][Next]_vars

\* The daemons' tasks run while they can. A job ends, and an interval holds a
\* few steps of a beacon, so that it need not be said of each of them.
LiveSpec ==
    /\ Spec
    /\ WF_vars(Tick)
    /\ WF_vars(\E d \in Device : Discovery(d))
    /\ WF_vars(\E m \in Msg : Sending(m) \/ Receiving(m))

--------------------------------------------------------------------------------
(* Properties. *)

Listed(d, e) == IF peers[d][e] = NoPeer THEN 0 ELSE 1
Greeting(d, e) == {m \in Msg : taker[m] = d /\ From[m] = e /\ phase[<<m, "in">>] = "greet"}

\* PeerJoined and PeerLeft are published once for every change of the peer
\* table, by whichever of the ticker, the receive loop and the connections made
\* it: what was published, with what is about to be, adds up to the table.
EventsBalance ==
    \A d, e \in Device :
        up[d] => told[d][e] = Listed(d, e)
                      + (IF e \in leaving[d] THEN 1 ELSE 0)
                      - (IF hearing[d] # NoPeer /\ hearing[d].from = e THEN 1 ELSE 0)
                      - Cardinality(Greeting(d, e))

\* The history a device keeps is of messages that were sent: every row is in a
\* conversation with the one contact that stands for the other end, no job
\* leaves two rows, and what is incoming was written by its sender. (The tables
\* are well typed.)
HistoryIsTrue ==
    /\ TypeOK
    /\ \A d \in Device : \A r \in rows[d] :
          /\ Runs(r.job) = d
          /\ \A q \in rows[d] : q.job = r.job => q = r
          /\ \E v \in conversations[d], c \in contacts[d] :
                /\ v.id = r.conversation /\ c.id = v.contact /\ c.device = Party(r.job)
                /\ \A other \in contacts[d] : other.device = c.device => other = c
          /\ r.job[2] = "in" => wire[r.job[1]] = 2

HasRow(x) == \E r \in rows[Runs(x)] : r.job = x

\* Job x looked for a contact in vain, and another job added it meanwhile.
LostRace(x) == memo[x] = 0 /\ \E c \in contacts[Runs(x)] : c.device = Party(x)

\* A text or file that was read whole, and a file saved, is announced to the
\* clients even when it cannot be recorded, unless the daemon is killed; and it
\* is recorded unless a query failed or another job added the contact first
\* (storage.rs:59; src/README.md:109 allows for neither).
ReceivedIsTold ==
    \A m \in Msg : LET x == <<m, "in">> IN
        phase[x] \in Recording
            ~> \/ phase[x] = "done" /\ (HasRow(x) \/ LostRace(x) \/ (m \in Flaky /\ upsets > 0))
               \/ \E d \in Device : taker[m] = d /\ ~up[d]

\* Devices that stay on the network end up in each other's tables, at the
\* address they have.
PeersAreFound ==
    \A d, e \in Device : d # e =>
        (<>[](OnNet(d) /\ OnNet(e))
            => <>[](peers[d][e] # NoPeer /\ peers[d][e].addr = at[e]))

\* A device that is gone for good is dropped, and its going is published.
GoneAreDropped ==
    \A d, e \in Device : d # e =>
        (<>[](up[d] /\ ~OnNet(e)) => <>[](peers[d][e] = NoPeer /\ told[d][e] = 0))

================================================================================
