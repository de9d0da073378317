---------------------------- MODULE MessagingProofs ----------------------------
(***************************************************************************)
(* Proofs about Messaging: what is published of joining and leaving peers  *)
(* adds up to the peer table, and the history that a device keeps is of    *)
(* messages that were sent, in the conversation with their other end, for  *)
(* any number of devices, addresses and messages.                          *)
(***************************************************************************)
EXTENDS Messaging, FiniteSetTheorems, WellFoundedInduction, TLAPS

(* The invariant *)

In(m)  == <<m, "in">>
Out(m) == <<m, "out">>

\* A PeerJoined about e is due, from the receive loop of d.
Heard(d, e) == hearing[d] # NoPeer /\ hearing[d].from = e

\* What has been published by d about e, with what is due, adds up to the table;
\* one PeerJoined at most is due, and only while e is in the table and young.
PairInv(d, e) ==
  /\ told[d][e] = Listed(d, e) + (IF e \in leaving[d] THEN 1 ELSE 0)
                    - (IF Heard(d, e) THEN 1 ELSE 0) - Cardinality(Greeting(d, e))
  /\ Heard(d, e) => Greeting(d, e) = {}
  /\ \A m, n \in Greeting(d, e) : m = n
  /\ Heard(d, e) \/ Greeting(d, e) # {} => peers[d][e] # NoPeer /\ peers[d][e].age = 0

\* PeerLeft events are due only while the ticker publishes them, and a device
\* that is down has nothing to publish.
TickerInv(d) ==
  /\ ticker[d] # "publish" => leaving[d] = {}
  /\ ~up[d] => /\ peers[d] = [e \in Device |-> NoPeer]
               /\ leaving[d] = {} /\ hearing[d] = NoPeer

EventsInv == /\ \A d, e \in Device : PairInv(d, e)
             /\ \A d \in Device : TickerInv(d)

\* Phases in which a job has read its message whole.
Whole == Recording \cup {"name file", "write file", "publish", "done"}

\* A connection is taken once, and what its two jobs have written and read of
\* it agrees.
LinkInv(m) ==
  /\ taker[m] = NoDevice => phase[In(m)] = "new" /\ wire[m] = 0
  /\ taker[m] # NoDevice => phase[Out(m)] # "new" /\ seenFrom[m] \in Ip
  /\ phase[Out(m)] \notin {"new", "over"} => taker[m] # NoDevice
  /\ phase[Out(m)] \in {"new", "hello"} => wire[m] = 0
  /\ phase[Out(m)] = "payload" => wire[m] <= 1
  /\ phase[Out(m)] \notin {"greet", "name file", "write file", "publish"}
  /\ phase[In(m)] \in Whole => wire[m] = 2
  /\ phase[In(m)] \in {"name file", "write file"} => m \in File

\* And no job runs on a device that is down.
JobsInv == /\ \A m \in Msg : LinkInv(m)
           /\ \A x \in Job, d \in Device : Runs(x) = d /\ ~up[d] => ~Begun(x)

\* A file is written once, under the name that its job has chosen.
FilesInv ==
  \A d \in Device, k \in Saved :
    LET m == files[d][k]
    IN m # NoDevice => /\ m \in File /\ path[m] = k
                       /\ phase[In(m)] \in Recording \cup {"publish", "done", "over"}

\* The contact with id i stands for the other end of job x.
ContactFits(x, i) == \E c \in contacts[Runs(x)] : c.id = i /\ c.device = Party(x)

\* The conversation with id i is with the other end of job x.
ConversationFits(x, i) ==
  \E v \in conversations[Runs(x)] : v.id = i /\ ContactFits(x, v.contact)

\* What a job has found in the store fits it, and it adds one row, last.
StoreInv ==
  /\ \A d \in Device :
       /\ IsFiniteSet(contacts[d]) /\ IsFiniteSet(conversations[d]) /\ IsFiniteSet(rows[d])
       /\ \A c, other \in contacts[d] : other.device = c.device => other = c
       /\ \A r \in rows[d] : /\ Runs(r.job) = d
                             /\ phase[r.job] \in {"publish", "done", "over"}
                             /\ \A q \in rows[d] : q.job = r.job => q = r
                             /\ ConversationFits(r.job, r.conversation)
                             /\ r.job[2] = "in" => wire[r.job[1]] = 2
  /\ \A x \in Job :
       /\ phase[x] \in {"find conversation", "add conversation"} => ContactFits(x, memo[x])
       /\ phase[x] = "add message" => ConversationFits(x, memo[x])

IInv == TypeOK /\ EventsInv /\ JobsInv /\ FilesInv /\ StoreInv

--------------------------------------------------------------------------------
(* Peers *)

\* The number of greetings that are due.
LEMMA AtMostOne ==
  ASSUME NEW G, \A m, n \in G : m = n
  PROVE  Cardinality(G) = IF G = {} THEN 0 ELSE 1
<1>1. CASE G = {}
  BY <1>1, FS_EmptySet
<1>2. CASE G # {}
  <2>1. PICK m \in G : G = {m}
    BY <1>2
  <2> QED BY <1>2, <2>1, FS_Singleton
<1> QED BY <1>1, <1>2

\* The balance of events is a number.
LEMMA ToldIsInteger ==
  ASSUME TypeOK, NEW d \in Device, NEW e \in Device
  PROVE  told[d][e] \in Int
<1>1. told \in [Device -> [Device -> -1 .. 2]]
  BY DEF TypeOK
<1>2. -1 .. 2 \subseteq Int
  OBVIOUS
<1> QED BY <1>1, <1>2

\* What the balance of a pair depends on.
LEMMA PairKept ==
  ASSUME NEW d \in Device, NEW e \in Device, PairInv(d, e),
         peers'[d][e] = peers[d][e], told'[d][e] = told[d][e],
         e \in leaving'[d] <=> e \in leaving[d],
         hearing'[d] = hearing[d], Greeting(d, e)' = Greeting(d, e)
  PROVE  PairInv(d, e)'
BY DEF PairInv, Listed, Heard

\* Greetings change only when a job comes to or leaves the phase "greet".
LEMMA GreetingsKept ==
  ASSUME \A m \in Msg : /\ phase'[In(m)] = "greet" <=> phase[In(m)] = "greet"
                        /\ phase[In(m)] = "greet" => taker'[m] = taker[m]
  PROVE  \A d, e \in Device : Greeting(d, e)' = Greeting(d, e)
<1> SUFFICES ASSUME NEW d \in Device, NEW e \in Device
             PROVE  Greeting(d, e)' = Greeting(d, e)
  OBVIOUS
<1>1. ASSUME NEW m \in Msg
      PROVE  (taker[m] = d /\ From[m] = e /\ phase[<<m, "in">>] = "greet")'
                <=> (taker[m] = d /\ From[m] = e /\ phase[<<m, "in">>] = "greet")
  BY DEF In
<1> QED BY <1>1 DEF Greeting

\* Steps in which no peer comes or goes and no event is published.
LEMMA EventsKept ==
  ASSUME EventsInv, UNCHANGED <<up, peers, ticker, leaving, hearing, told>>,
         \A m \in Msg : /\ phase'[In(m)] = "greet" <=> phase[In(m)] = "greet"
                        /\ phase[In(m)] = "greet" => taker'[m] = taker[m]
  PROVE  EventsInv'
<1>1. \A d, e \in Device : PairInv(d, e)'
  BY GreetingsKept, PairKept DEF EventsInv
<1> QED BY <1>1 DEF EventsInv, TickerInv

\* A record is not NoPeer.
LEMMA RecordsArePeers ==
  /\ \A ip \in Ip, k \in Nat : [addr |-> ip, age |-> k] # NoPeer
  /\ \A i \in [from : Device, ip : Ip] : i # NoPeer
BY MessagingAssumption

\* The ticker drops stale peers; none of them is due to be announced.
LEMMA BeaconEvents ==
  ASSUME TypeOK, EventsInv, NEW b \in Device, Beacon(b)
  PROVE  EventsInv'
<1>1. /\ peers' = [peers EXCEPT ![b] = [e \in Device |-> IF e \in Stale(b) THEN NoPeer ELSE @[e]]]
      /\ leaving' = [leaving EXCEPT ![b] = Stale(b)]
      /\ ticker' = [ticker EXCEPT ![b] = IF Stale(b) = {} THEN "idle" ELSE "publish"]
      /\ up[b] /\ ticker[b] = "beacon" /\ UNCHANGED <<up, hearing, told, phase, taker>>
  BY DEF Beacon, jobs
<1>2. \A d, e \in Device : Greeting(d, e)' = Greeting(d, e)
  BY <1>1, GreetingsKept
<1>3. leaving[b] = {}
  BY <1>1 DEF EventsInv, TickerInv
<1>4. ASSUME NEW d \in Device, NEW e \in Device PROVE PairInv(d, e)'
  <2>1. PairInv(d, e)
    BY DEF EventsInv
  <2>2. CASE d = b /\ e \in Stale(b)
    <3>1. /\ peers[d][e] # NoPeer /\ peers[d][e].age # 0
      BY <2>2, MessagingAssumption DEF Stale, TypeOK
    <3>2. ~Heard(d, e) /\ Greeting(d, e) = {}
      BY <2>1, <3>1 DEF PairInv
    <3>3. ~Heard(d, e)' /\ Greeting(d, e)' = {} /\ told'[d][e] = told[d][e]
      BY <1>1, <1>2, <3>2 DEF Heard
    <3>4. peers'[d][e] = NoPeer /\ e \in leaving'[d] /\ e \notin leaving[d]
      BY <1>1, <1>3, <2>2 DEF TypeOK
    <3>5. told[d][e] = 1 + 0 - 0 - 0
      BY <1>3, <2>1, <2>2, <3>1, <3>2, FS_EmptySet DEF PairInv, Listed
    <3>6. Listed(d, e)' = 0 /\ Cardinality(Greeting(d, e)') = 0
      BY <3>3, <3>4, FS_EmptySet DEF Listed
    <3> QED BY <3>3, <3>4, <3>5, <3>6 DEF PairInv
  <2>3. CASE ~(d = b /\ e \in Stale(b))
    <3>1. peers'[d][e] = peers[d][e] /\ (e \in leaving'[d] <=> e \in leaving[d])
      BY <1>1, <1>3, <2>3 DEF TypeOK
    <3> QED BY <1>1, <1>2, <2>1, <3>1, PairKept
  <2> QED BY <2>2, <2>3
<1>5. ASSUME NEW d \in Device PROVE TickerInv(d)'
  <2>1. TickerInv(d)
    BY DEF EventsInv
  <2> QED BY <1>1, <2>1 DEF TickerInv, TypeOK
<1> QED BY <1>4, <1>5 DEF EventsInv

\* PeerLeft.
LEMMA PublishLeftEvents ==
  ASSUME TypeOK, EventsInv, NEW b \in Device, PublishLeft(b)
  PROVE  EventsInv'
<1>1. PICK f \in leaving[b] :
        /\ told' = [told EXCEPT ![b][f] = @ - 1]
        /\ leaving' = [leaving EXCEPT ![b] = @ \ {f}]
        /\ ticker' = [ticker EXCEPT ![b] = IF leaving[b] = {f} THEN "idle" ELSE @]
  BY DEF PublishLeft
<1>2. up[b] /\ f \in Device /\ UNCHANGED <<up, peers, hearing, phase, taker>>
  BY DEF PublishLeft, jobs, TypeOK
<1>3. \A d, e \in Device : Greeting(d, e)' = Greeting(d, e)
  BY <1>2, GreetingsKept
<1>4. ASSUME NEW d \in Device, NEW e \in Device PROVE PairInv(d, e)'
  <2>1. PairInv(d, e)
    BY DEF EventsInv
  <2> told[d][e] \in Int
    BY ToldIsInteger
  <2>2. CASE d = b /\ e = f
    <3>1. told'[d][e] = told[d][e] - 1 /\ e \in leaving[d] /\ e \notin leaving'[d]
      BY <1>1, <1>2, <2>2 DEF TypeOK
    <3>2. Cardinality(Greeting(d, e)) \in Int
      BY <2>1, AtMostOne DEF PairInv
    <3> QED BY <1>2, <1>3, <2>1, <3>1, <3>2 DEF PairInv, Listed, Heard
  <2>3. CASE ~(d = b /\ e = f)
    <3>1. told'[d][e] = told[d][e] /\ (e \in leaving'[d] <=> e \in leaving[d])
      BY <1>1, <2>3 DEF TypeOK
    <3> QED BY <1>2, <1>3, <2>1, <3>1, PairKept
  <2> QED BY <2>2, <2>3
<1>5. ASSUME NEW d \in Device PROVE TickerInv(d)'
  <2>1. TickerInv(d)
    BY DEF EventsInv
  <2> QED BY <1>1, <1>2, <2>1 DEF TickerInv, TypeOK
<1> QED BY <1>4, <1>5 DEF EventsInv

\* An upsert, and a PeerJoined that is due if the peer is new.
LEMMA UpsertPair ==
  ASSUME TypeOK, NEW d \in Device, NEW e \in Device, PairInv(d, e),
         NEW ip \in Ip, NEW new \in BOOLEAN, Upserted(d, e, ip, new),
         told'[d][e] = told[d][e], leaving' = leaving,
         IF new THEN \/ Heard(d, e)' /\ Greeting(d, e)' = Greeting(d, e)
                     \/ /\ Heard(d, e)' <=> Heard(d, e)
                        /\ \E m : Greeting(d, e)' = Greeting(d, e) \cup {m}
         ELSE Greeting(d, e)' = Greeting(d, e) /\ (Heard(d, e)' <=> Heard(d, e))
  PROVE  PairInv(d, e)'
<1>1. peers'[d][e] # NoPeer /\ peers'[d][e].age = 0
  <2>1. peers'[d][e] = [addr |-> ip, age |-> 0]
    BY DEF Upserted, TypeOK
  <2> QED BY <2>1, RecordsArePeers
<1>2. CASE ~new
  <2>1. peers[d][e] # NoPeer
    BY <1>2 DEF Upserted
  <2> QED BY <1>1, <1>2, <2>1 DEF PairInv, Listed
<1>3. CASE new
  <2>1. peers[d][e] = NoPeer /\ ~Heard(d, e) /\ Greeting(d, e) = {}
    BY <1>3 DEF Upserted, PairInv
  <2>2. Cardinality(Greeting(d, e)) = 0
    BY <2>1, FS_EmptySet
  <2>3. CASE Heard(d, e)' /\ Greeting(d, e)' = Greeting(d, e)
    BY <1>1, <2>1, <2>2, <2>3 DEF PairInv, Listed
  <2>4. CASE /\ Heard(d, e)' <=> Heard(d, e)
             /\ \E m : Greeting(d, e)' = Greeting(d, e) \cup {m}
    <3>1. PICK m : Greeting(d, e)' = {m}
      BY <2>1, <2>4
    <3>2. Cardinality(Greeting(d, e)') = 1
      BY <3>1, FS_Singleton
    <3> QED BY <1>1, <2>1, <2>2, <2>4, <3>1, <3>2 DEF PairInv, Listed
  <2> QED BY <1>3, <2>3, <2>4
<1> QED BY <1>2, <1>3

\* The receive loop hears an announcement.
LEMMA HearEvents ==
  ASSUME TypeOK, EventsInv, NEW b \in Device, Hear(b)
  PROVE  EventsInv'
<1>1. PICK i \in inbox[b], new \in BOOLEAN :
        /\ Upserted(b, i.from, i.ip, new)
        /\ hearing' = [hearing EXCEPT ![b] = IF new THEN i ELSE NoPeer]
  BY DEF Hear
<1>2. /\ i \in [from : Device, ip : Ip] /\ i # NoPeer
      /\ up[b] /\ hearing[b] = NoPeer
      /\ UNCHANGED <<up, ticker, leaving, told, phase, taker>>
  BY RecordsArePeers DEF Hear, jobs, TypeOK
<1>3. \A d, e \in Device : Greeting(d, e)' = Greeting(d, e)
  BY <1>2, GreetingsKept
<1>4. ASSUME NEW d \in Device, NEW e \in Device PROVE PairInv(d, e)'
  <2>1. PairInv(d, e)
    BY DEF EventsInv
  <2>2. hearing'[d] = IF d = b /\ new THEN i ELSE hearing[d]
    BY <1>1, <1>2 DEF TypeOK
  <2>3. CASE d = b /\ e = i.from
    <3>1. Heard(d, e)' <=> new
      BY <1>2, <2>2, <2>3 DEF Heard
    <3>2. ~Heard(d, e)
      BY <1>2, <2>3 DEF Heard
    <3> QED BY <1>1, <1>2, <1>3, <2>1, <2>3, <3>1, <3>2, UpsertPair
  <2>4. CASE ~(d = b /\ e = i.from)
    <3>1. peers'[d][e] = peers[d][e]
      BY <1>1, <2>4 DEF Upserted, TypeOK
    <3>2. Heard(d, e)' <=> Heard(d, e)
      BY <1>2, <2>2, <2>4 DEF Heard
    <3> QED BY <1>2, <1>3, <2>1, <3>1, <3>2 DEF PairInv, Listed
  <2> QED BY <2>3, <2>4
<1>5. ASSUME NEW d \in Device PROVE TickerInv(d)'
  <2>1. TickerInv(d)
    BY DEF EventsInv
  <2>2. d # b => peers'[d] = peers[d] /\ hearing'[d] = hearing[d]
    BY <1>1 DEF Upserted, TypeOK
  <2> QED BY <1>2, <2>1, <2>2 DEF TickerInv
<1> QED BY <1>4, <1>5 DEF EventsInv

\* PeerJoined, from the receive loop.
LEMMA PublishJoinedEvents ==
  ASSUME TypeOK, EventsInv, NEW b \in Device, PublishJoined(b)
  PROVE  EventsInv'
<1> DEFINE f == hearing[b].from
<1>1. /\ told' = [told EXCEPT ![b][f] = @ + 1]
      /\ hearing' = [hearing EXCEPT ![b] = NoPeer]
      /\ up[b] /\ hearing[b] # NoPeer
      /\ UNCHANGED <<up, peers, ticker, leaving, phase, taker>>
  BY DEF PublishJoined, jobs
<1>2. f \in Device
  BY <1>1 DEF TypeOK
<1>3. \A d, e \in Device : Greeting(d, e)' = Greeting(d, e)
  BY <1>1, GreetingsKept
<1>4. ASSUME NEW d \in Device, NEW e \in Device PROVE PairInv(d, e)'
  <2>1. PairInv(d, e)
    BY DEF EventsInv
  <2> told[d][e] \in Int
    BY ToldIsInteger
  <2>2. CASE d = b /\ e = f
    <3>1. told'[d][e] = told[d][e] + 1 /\ Heard(d, e) /\ ~Heard(d, e)'
      BY <1>1, <2>2 DEF Heard, TypeOK
    <3>2. Cardinality(Greeting(d, e)) \in Int
      BY <2>1, AtMostOne DEF PairInv
    <3> HIDE DEF f
    <3> QED BY <1>1, <1>3, <2>1, <3>1, <3>2 DEF PairInv, Listed
  <2>3. CASE ~(d = b /\ e = f)
    <3>1. told'[d][e] = told[d][e]
      BY <1>1, <2>3 DEF TypeOK
    <3>2. Heard(d, e)' <=> Heard(d, e)
      BY <1>1, <2>3 DEF Heard, TypeOK
    <3> HIDE DEF f
    <3> QED BY <1>1, <1>3, <2>1, <3>1, <3>2 DEF PairInv, Listed
  <2> QED BY <2>2, <2>3
<1>5. ASSUME NEW d \in Device PROVE TickerInv(d)'
  <2>1. TickerInv(d)
    BY DEF EventsInv
  <2> QED BY <1>1, <2>1 DEF TickerInv, TypeOK
<1> QED BY <1>4, <1>5 DEF EventsInv

\* A connection that was taken has a taker; nothing else is read.
LEMMA TakerIsDevice ==
  ASSUME TypeOK, JobsInv, NEW m \in Msg, phase[In(m)] # "new" \/ wire[m] >= 1
  PROVE  taker[m] \in Device /\ seenFrom[m] \in Ip /\ From[m] \in Device
<1>1. LinkInv(m)
  BY DEF JobsInv
<1>2. taker[m] # NoDevice
  <2>1. wire[m] \in 0 .. 2
    BY DEF TypeOK
  <2>2. CASE wire[m] >= 1
    <3>1. wire[m] # 0
      BY <2>1, <2>2
    <3> QED BY <1>1, <3>1 DEF LinkInv
  <2>3. CASE phase[In(m)] # "new"
    BY <1>1, <2>3 DEF LinkInv
  <2> QED BY <2>2, <2>3
<1>3. taker[m] \in Device \cup {NoDevice} /\ From[m] \in Device
  BY MessagingAssumption DEF TypeOK
<1> QED BY <1>1, <1>2, <1>3 DEF LinkInv

\* A hello may show a device that is new.
LEMMA ReadHelloEvents ==
  ASSUME TypeOK, EventsInv, JobsInv, NEW m \in Msg, ReadHello(m)
  PROVE  EventsInv'
<1> DEFINE b == taker[m]
           f == From[m]
<1>1. PICK new \in BOOLEAN :
        /\ Upserted(b, f, seenFrom[m], new)
        /\ Goes(In(m), IF new THEN "greet" ELSE "payload")
  BY DEF ReadHello, In
<1>2. /\ phase[In(m)] = "new" /\ wire[m] >= 1
      /\ UNCHANGED <<up, ticker, leaving, hearing, told, taker>>
  BY DEF ReadHello, In
<1>3. b \in Device /\ f \in Device /\ seenFrom[m] \in Ip
  BY <1>2, TakerIsDevice
<1>4. /\ phase'[In(m)] = IF new THEN "greet" ELSE "payload"
      /\ \A n \in Msg \ {m} : phase'[In(n)] = phase[In(n)]
  BY <1>1 DEF Goes, In, TypeOK, Job
<1>5. up[b]
  BY <1>2, <1>3 DEF JobsInv, Runs, Begun, In, Job
<1> HIDE DEF b, f
<1>6. ASSUME NEW d \in Device, NEW e \in Device PROVE PairInv(d, e)'
  <2>1. PairInv(d, e)
    BY DEF EventsInv
  <2>2. CASE d = b /\ e = f
    <3>1. new => Greeting(d, e)' = Greeting(d, e) \cup {m}
      BY <1>2, <1>4, <2>2 DEF Greeting, In, b, f
    <3>2. ~new => Greeting(d, e)' = Greeting(d, e)
      BY <1>2, <1>4, GreetingsKept
    <3>3. Heard(d, e)' <=> Heard(d, e)
      BY <1>2 DEF Heard
    <3> QED BY <1>1, <1>2, <1>3, <2>1, <2>2, <3>1, <3>2, <3>3, UpsertPair
  <2>3. CASE ~(d = b /\ e = f)
    <3>1. peers'[d][e] = peers[d][e]
      BY <1>1, <1>3, <2>3 DEF Upserted, TypeOK
    <3>2. Greeting(d, e)' = Greeting(d, e)
      <4>1. ASSUME NEW n \in Msg
            PROVE  (taker'[n] = d /\ From[n] = e /\ phase'[In(n)] = "greet")
                     <=> (taker[n] = d /\ From[n] = e /\ phase[In(n)] = "greet")
        BY <1>2, <1>4, <2>3 DEF b, f
      <4> QED BY <4>1 DEF Greeting, In
    <3> QED BY <1>2, <2>1, <3>1, <3>2, PairKept
  <2> QED BY <2>2, <2>3
<1>7. ASSUME NEW d \in Device PROVE TickerInv(d)'
  <2>1. TickerInv(d)
    BY DEF EventsInv
  <2>2. d # b => peers'[d] = peers[d]
    BY <1>1, <1>3 DEF Upserted, TypeOK
  <2> QED BY <1>2, <1>5, <2>1, <2>2 DEF TickerInv
<1> QED BY <1>6, <1>7 DEF EventsInv

\* PeerJoined, from a connection.
LEMMA GreetEvents ==
  ASSUME TypeOK, EventsInv, JobsInv, NEW m \in Msg, Greet(m)
  PROVE  EventsInv'
<1> DEFINE b == taker[m]
           f == From[m]
<1>1. /\ phase[In(m)] = "greet" /\ Goes(In(m), "payload")
      /\ told' = [told EXCEPT ![b][f] = @ + 1]
      /\ UNCHANGED <<up, peers, ticker, leaving, hearing, taker>>
  BY DEF Greet, In
<1>2. b \in Device /\ f \in Device
  BY <1>1, TakerIsDevice
<1>3. /\ phase'[In(m)] = "payload"
      /\ \A n \in Msg \ {m} : phase'[In(n)] = phase[In(n)]
  BY <1>1 DEF Goes, In, TypeOK, Job
<1>4. ASSUME NEW d \in Device, NEW e \in Device PROVE PairInv(d, e)'
  <2>1. PairInv(d, e)
    BY DEF EventsInv
  <2>2. CASE d = b /\ e = f
    <3>1. m \in Greeting(d, e) /\ Greeting(d, e)' = Greeting(d, e) \ {m}
      BY <1>1, <1>3, <2>2 DEF Greeting, In
    <3>2. Greeting(d, e) = {m} /\ Greeting(d, e)' = {}
      BY <2>1, <3>1 DEF PairInv
    <3>3. Cardinality(Greeting(d, e)) = 1 /\ Cardinality(Greeting(d, e)') = 0
      BY <3>2, FS_Singleton, FS_EmptySet
    <3>4. told'[d][e] = told[d][e] + 1 /\ told[d][e] \in Int
      BY <1>1, <1>2, <2>2, ToldIsInteger DEF TypeOK
    <3>5. /\ Listed(d, e)' = Listed(d, e) /\ Listed(d, e) \in Int
          /\ Heard(d, e)' <=> Heard(d, e)
      BY <1>1 DEF Listed, Heard
    <3> HIDE DEF b, f
    <3> QED BY <1>1, <2>1, <3>2, <3>3, <3>4, <3>5 DEF PairInv
  <2>3. CASE ~(d = b /\ e = f)
    <3>1. told'[d][e] = told[d][e]
      BY <1>1, <2>3 DEF TypeOK
    <3>2. Greeting(d, e)' = Greeting(d, e)
      <4>1. ASSUME NEW n \in Msg
            PROVE  (taker'[n] = d /\ From[n] = e /\ phase'[In(n)] = "greet")
                     <=> (taker[n] = d /\ From[n] = e /\ phase[In(n)] = "greet")
        BY <1>1, <1>3, <2>3
      <4> QED BY <4>1 DEF Greeting, In
    <3> HIDE DEF b, f
    <3> QED BY <1>1, <2>1, <3>1, <3>2, PairKept
  <2> QED BY <2>2, <2>3
<1>5. ASSUME NEW d \in Device PROVE TickerInv(d)'
  BY <1>1 DEF EventsInv, TickerInv
<1> QED BY <1>4, <1>5 DEF EventsInv

\* A tick finds nothing due.
LEMMA TickEvents ==
  ASSUME TypeOK, EventsInv, Tick
  PROVE  EventsInv'
<1>1. /\ \A d \in Device : up[d] => ticker[d] = "idle" /\ hearing[d] = NoPeer
      /\ \A m \in Msg : phase[In(m)] # "greet"
      /\ ticker' = [d \in Device |-> "beacon"]
      /\ UNCHANGED <<up, hearing, leaving, told, phase, taker>>
  BY DEF Tick, jobs, In
<1>2. \A d, e \in Device : Greeting(d, e)' = Greeting(d, e) /\ Greeting(d, e) = {}
  BY <1>1, GreetingsKept DEF Greeting, In
<1>3. \A d \in Device : hearing[d] = NoPeer /\ leaving[d] = {}
  BY <1>1 DEF EventsInv, TickerInv
<1>4. ASSUME NEW d \in Device, NEW e \in Device
      PROVE  peers'[d][e] = NoPeer <=> peers[d][e] = NoPeer
  <2>1. peers[d][e] = NoPeer \/ peers[d][e] \in [addr : Ip, age : 0 .. StaleAfter + 1]
    BY DEF TypeOK
  <2>2. \/ peers'[d][e] = peers[d][e]
        \/ peers[d][e] # NoPeer /\ peers'[d][e] = [peers[d][e] EXCEPT !.age = @ + 1]
    BY DEF Tick
  <2>3. CASE peers'[d][e] = peers[d][e]
    BY <2>3
  <2>4. CASE peers[d][e] # NoPeer /\ peers'[d][e] = [peers[d][e] EXCEPT !.age = @ + 1]
    <3>1. peers'[d][e] = [addr |-> peers[d][e].addr, age |-> peers[d][e].age + 1]
      BY <2>1, <2>4
    <3>2. peers[d][e].addr \in Ip /\ peers[d][e].age + 1 \in Nat
      BY <2>1, <2>4, MessagingAssumption
    <3> QED BY <2>4, <3>1, <3>2, RecordsArePeers
  <2> QED BY <2>2, <2>3, <2>4
<1>5. ASSUME NEW d \in Device, NEW e \in Device PROVE PairInv(d, e)'
  <2>1. PairInv(d, e)
    BY DEF EventsInv
  <2>2. ~Heard(d, e) /\ ~Heard(d, e)' /\ Greeting(d, e) = {} /\ Greeting(d, e)' = {}
    BY <1>1, <1>2, <1>3 DEF Heard
  <2>3. Listed(d, e)' = Listed(d, e)
    BY <1>4 DEF Listed
  <2> QED BY <1>1, <2>1, <2>2, <2>3 DEF PairInv
<1>6. ASSUME NEW d \in Device PROVE TickerInv(d)'
  <2>1. ~up[d] => peers'[d] = [e \in Device |-> NoPeer]
    <3> SUFFICES ASSUME ~up[d] PROVE peers'[d] = [e \in Device |-> NoPeer]
      OBVIOUS
    <3>1. \A e \in Device : peers[d][e] = NoPeer
      BY DEF EventsInv, TickerInv
    <3> QED BY <3>1 DEF Tick
  <2> QED BY <1>1, <1>3, <2>1 DEF TickerInv
<1> QED BY <1>5, <1>6 DEF EventsInv

\* A daemon that is killed leaves nothing due.
LEMMA KillEvents ==
  ASSUME TypeOK, EventsInv, NEW b \in Device, Kill(b)
  PROVE  EventsInv'
<1>1. /\ up' = [up EXCEPT ![b] = FALSE]
      /\ peers' = [peers EXCEPT ![b] = [e \in Device |-> NoPeer]]
      /\ told' = [told EXCEPT ![b] = [e \in Device |-> 0]]
      /\ leaving' = [leaving EXCEPT ![b] = {}]
      /\ hearing' = [hearing EXCEPT ![b] = NoPeer]
      /\ phase' = [x \in Job |-> IF Runs(x) = b /\ Begun(x) THEN "over" ELSE phase[x]]
      /\ UNCHANGED <<ticker, taker>>
  BY DEF Kill
<1>2. ASSUME NEW m \in Msg
      PROVE  phase'[In(m)] = "greet" <=> taker[m] # b /\ phase[In(m)] = "greet"
  <2>1. In(m) \in Job /\ Runs(In(m)) = taker[m]
    BY DEF In, Job, Runs
  <2>2. phase[In(m)] = "greet" => Begun(In(m))
    BY DEF Begun
  <2> QED BY <1>1, <2>1, <2>2
<1>3. ASSUME NEW d \in Device, NEW e \in Device PROVE PairInv(d, e)'
  <2>1. PairInv(d, e)
    BY DEF EventsInv
  <2>2. CASE d = b
    <3>1. Greeting(d, e)' = {}
      BY <1>1, <1>2, <2>2 DEF Greeting, In
    <3>2. Cardinality(Greeting(d, e)') = 0
      BY <3>1, FS_EmptySet
    <3>3. told'[d][e] = 0 /\ Listed(d, e)' = 0 /\ e \notin leaving'[d] /\ ~Heard(d, e)'
      BY <1>1, <2>2 DEF TypeOK, Listed, Heard
    <3> QED BY <3>1, <3>2, <3>3 DEF PairInv
  <2>3. CASE d # b
    <3>1. Greeting(d, e)' = Greeting(d, e)
      <4>1. ASSUME NEW n \in Msg
            PROVE  (taker'[n] = d /\ From[n] = e /\ phase'[In(n)] = "greet")
                     <=> (taker[n] = d /\ From[n] = e /\ phase[In(n)] = "greet")
        BY <1>1, <1>2, <2>3
      <4> QED BY <4>1 DEF Greeting, In
    <3>2. /\ peers'[d] = peers[d] /\ told'[d] = told[d] /\ leaving'[d] = leaving[d]
          /\ hearing'[d] = hearing[d]
      BY <1>1, <2>3 DEF TypeOK
    <3> QED BY <2>1, <3>1, <3>2, PairKept
  <2> QED BY <2>2, <2>3
<1>4. ASSUME NEW d \in Device PROVE TickerInv(d)'
  <2>1. TickerInv(d)
    BY DEF EventsInv
  <2> QED BY <1>1, <2>1 DEF TickerInv, TypeOK
<1> QED BY <1>3, <1>4 DEF EventsInv

\* Every step keeps the balance.
LEMMA EventsStep == ASSUME IInv, [Next]_vars PROVE EventsInv'
<1> USE DEF IInv
<1>1. ASSUME NEW d \in Device, Discovery(d) PROVE EventsInv'
  BY <1>1, BeaconEvents, PublishLeftEvents, HearEvents, PublishJoinedEvents DEF Discovery
<1>2. ASSUME NEW d \in Device, Start(d) PROVE EventsInv'
  <2>1. /\ ~up[d] /\ up' = [up EXCEPT ![d] = TRUE]
        /\ ticker' = [ticker EXCEPT ![d] = "beacon"]
        /\ UNCHANGED <<peers, leaving, hearing, told, phase, taker>>
    BY <1>2 DEF Start, jobs
  <2>2. \A a, e \in Device : PairInv(a, e)'
    BY <2>1, GreetingsKept, PairKept DEF EventsInv
  <2>3. \A a \in Device : TickerInv(a)'
    BY <2>1 DEF EventsInv, TickerInv, TypeOK
  <2> QED BY <2>2, <2>3 DEF EventsInv
<1>3. ASSUME UNCHANGED <<up, peers, ticker, leaving, hearing, told>>,
             UNCHANGED <<phase, taker>>
      PROVE  EventsInv'
  BY <1>3, EventsKept
<1>4. ASSUME UNCHANGED <<up, peers, ticker, leaving, hearing, told>>, UNCHANGED taker,
             NEW x \in Job, phase[x] # "greet", NEW p, p # "greet", Goes(x, p)
      PROVE  EventsInv'
  <2>1. \A y \in Job : phase'[y] = "greet" <=> phase[y] = "greet"
    BY <1>4 DEF Goes, TypeOK
  <2>2. \A m \in Msg : In(m) \in Job
    BY DEF In, Job
  <2> QED BY <1>4, <2>1, <2>2, EventsKept
<1>5. ASSUME NEW m \in Msg, Connect(m) PROVE EventsInv'
  <2>1. /\ UNCHANGED table /\ \/ Goes(Out(m), "hello") \/ Goes(Out(m), "over")
        /\ phase[Out(m)] = "new" /\ \A n \in Msg \ {m} : taker'[n] = taker[n]
    BY <1>5 DEF Connect, Out, TypeOK
  <2>2. \A n \in Msg : Out(m) # In(n) /\ In(n) \in Job /\ Out(m) \in Job
    BY DEF Out, In, Job
  <2>3. \A n \in Msg : phase'[In(n)] = phase[In(n)]
    BY <2>1, <2>2 DEF Goes, TypeOK
  <2>4. phase[In(m)] = "greet" => taker[m] # NoDevice /\ phase[Out(m)] # "new"
    BY DEF JobsInv, LinkInv
  <2>5. \A n \in Msg : phase[In(n)] = "greet" => taker'[n] = taker[n]
    BY <2>1, <2>4
  <2> QED BY <2>1, <2>3, <2>5, EventsKept DEF table
<1>6. ASSUME NEW m \in Msg, NEW x \in {In(m), Out(m)}, Record(x) PROVE EventsInv'
  <2>1. PICK p \in Recording \cup {"publish", "done"} : Goes(x, p)
    BY <1>6 DEF Record, FindContact, AddContact, FindConversation, AddConversation, AddMessage,
                Has, RecordFails, Recorded, Recording
  <2>2. phase[x] \in Recording /\ UNCHANGED table /\ UNCHANGED taker
    BY <1>6 DEF Record, FindContact, AddContact, FindConversation, AddConversation, AddMessage,
                Recording
  <2>3. x \in Job
    BY <1>6 DEF In, Out, Job
  <2>4. p # "greet" /\ phase[x] # "greet"
    BY <2>1, <2>2 DEF Recording
  <2> QED BY <1>4, <2>1, <2>2, <2>3, <2>4 DEF table
<1>7. ASSUME NEW m \in Msg, Sending(m) PROVE EventsInv'
  <2>1. CASE Write(m)
    <3>1. PICK p \in Recording \cup {"payload", "done", "over"} : Goes(Out(m), p)
      BY <2>1 DEF Write, Out, ToRecord, Recorded, Recording
    <3>2. phase[Out(m)] \in {"hello", "payload"} /\ UNCHANGED table /\ UNCHANGED taker
      BY <2>1 DEF Write, Out
    <3>3. Out(m) \in Job /\ p # "greet" /\ phase[Out(m)] # "greet"
      BY <3>1, <3>2 DEF Out, Job, Recording
    <3> QED BY <1>4, <3>1, <3>2, <3>3 DEF table
  <2>2. CASE Record(Out(m))
    BY <1>6, <2>2
  <2> QED BY <1>7, <2>1, <2>2 DEF Sending, Out
<1>8. ASSUME NEW m \in Msg, Receiving(m) PROVE EventsInv'
  <2>1. CASE ReadHello(m)
    BY <2>1, ReadHelloEvents
  <2>2. CASE Greet(m)
    BY <2>2, GreetEvents
  <2>3. CASE ReadPayload(m) \/ ReadFails(m) \/ NameFile(m) \/ WriteFile(m) \/ PublishMessage(m)
    <3>1. PICK p \in Recording \cup {"name file", "write file", "publish", "done", "over"} :
            Goes(In(m), p)
      BY <2>3 DEF ReadPayload, ReadFails, NameFile, WriteFile, PublishMessage, In, ToRecord,
                  Recorded, Recording
    <3>2. phase[In(m)] # "greet" /\ UNCHANGED table /\ UNCHANGED taker
      BY <2>3 DEF ReadPayload, ReadFails, NameFile, WriteFile, PublishMessage, In
    <3>3. In(m) \in Job /\ p # "greet"
      BY <3>1 DEF In, Job, Recording
    <3> QED BY <1>4, <3>1, <3>2, <3>3 DEF table
  <2>4. CASE Record(In(m))
    BY <1>6, <2>4
  <2> QED BY <1>8, <2>1, <2>2, <2>3, <2>4 DEF Receiving, In
<1>9. ASSUME NEW d \in Device, Move(d) PROVE EventsInv'
  BY <1>3, <1>9 DEF Move
<1>10. ASSUME NEW m \in Msg, Break(m) PROVE EventsInv'
  BY <1>3, <1>10 DEF Break, table
<1>11. CASE UNCHANGED vars
  BY <1>3, <1>11 DEF vars, table, jobs
<1> QED BY <1>1, <1>2, <1>5, <1>7, <1>8, <1>9, <1>10, <1>11, TickEvents, KillEvents DEF Next

--------------------------------------------------------------------------------
(* Numbers: the first id of a set, and the first name that is free *)

\* A set of numbers has a least one.
LEMMA Smallest ==
  ASSUME NEW S \in SUBSET Nat, S # {}
  PROVE  \E m \in S : \A k \in S : m <= k
<1> DEFINE R == {p \in Nat \X Nat : p[1] < p[2]}
<1>1. R = OpToRel(<, Nat)
  BY DEF OpToRel
<1>2. IsWellFoundedOn(R, Nat)
  BY <1>1, NatLessThanWellFounded
<1>3. PICK m \in S : \A k \in S : <<k, m>> \notin R
  <2> HIDE DEF R
  <2> QED BY <1>2, WFMin
<1>4. ASSUME NEW k \in S PROVE m <= k
  <2>1. <<k, m>> \in Nat \X Nat /\ m \in Nat /\ k \in Nat
    OBVIOUS
  <2>2. ~(k < m)
    BY <1>3, <2>1
  <2> QED BY <2>1, <2>2
<1> QED BY <1>4

\* What the store finds is there.
LEMMA FirstIsThere ==
  ASSUME NEW S, S # {}, \A r \in S : r.id \in Nat
  PROVE  First(S) \in S
<1> DEFINE T == {k \in Nat : \E r \in S : r.id = k}
<1>1. T # {} /\ T \in SUBSET Nat
  OBVIOUS
<1>2. PICK m \in T : \A k \in T : m <= k
  <2> HIDE DEF T
  <2> QED BY <1>1, Smallest
<1>3. PICK r \in S : r.id = m
  BY <1>2
<1>4. \A other \in S : r.id <= other.id
  BY <1>2, <1>3
<1> QED BY <1>3, <1>4 DEF First

\* An id is free for every new record.
LEMMA FreshIdIsNatural ==
  ASSUME NEW S, IsFiniteSet(S)
  PROVE  FreshId(S) \in Nat
BY FS_CardinalityType DEF FreshId

\* Every file that was written has its own name, so that one is left.
LEMMA NameIsFree ==
  ASSUME TypeOK, FilesInv, NEW d \in Device
  PROVE  \E k \in Saved : files[d][k] = NoDevice
<1> SUFFICES ASSUME \A k \in Saved : files[d][k] # NoDevice
             PROVE  FALSE
  OBVIOUS
<1> DEFINE f == [k \in Saved |-> files[d][k]]
<1>1. f \in [Saved -> File] /\ \A k \in Saved : path[f[k]] = k
  BY DEF FilesInv
<1>2. IsFiniteSet(File) /\ Cardinality(File) \in Nat
  BY FS_CardinalityType, MessagingAssumption
<1>3. IsFiniteSet(Saved) /\ Cardinality(Saved) = Cardinality(File) + 1
  BY <1>2, FS_Interval DEF Saved
<1> HIDE DEF f
<1>4. Cardinality(File) < Cardinality(Saved)
  BY <1>2, <1>3
<1>5. PICK j \in Saved, k \in Saved : j # k /\ f[j] = f[k]
  BY <1>1, <1>2, <1>3, <1>4, FS_PigeonHole
<1> QED BY <1>1, <1>5

--------------------------------------------------------------------------------
(* Jobs *)

\* A job is one of the two of a message.
LEMMA JobFacts ==
  /\ \A m \in Msg : In(m) \in Job /\ Out(m) \in Job
  /\ \A m, n \in Msg : /\ In(m) # Out(n)
                       /\ In(m) = In(n) => m = n
                       /\ Out(m) = Out(n) => m = n
  /\ \A x \in Job : x[1] \in Msg /\ (x = In(x[1]) \/ x = Out(x[1]))
BY DEF In, Out, Job

\* Where a job runs, and who its other end is.
LEMMA JobEnds ==
  /\ \A m \in Msg : Runs(In(m)) = taker[m] /\ Runs(Out(m)) = From[m]
  /\ \A x \in Job : Party(x) \in Device
BY MessagingAssumption DEF In, Out, Job, Runs, Party

\* A job that goes on leaves the others where they are.
LEMMA GoesTo ==
  ASSUME phase \in [Job -> Phase], NEW x \in Job, NEW p, Goes(x, p)
  PROVE  /\ phase'[x] = p
         /\ \A y \in Job \ {x} : phase'[y] = phase[y]
         /\ p \in Phase => phase' \in [Job -> Phase]
BY DEF Goes

\* A job that has begun runs on a device.
LEMMA RunsOnDevice ==
  ASSUME TypeOK, JobsInv, NEW x \in Job, phase[x] # "new"
  PROVE  Runs(x) \in Device
<1>1. CASE x = In(x[1])
  BY <1>1, JobFacts, JobEnds, TakerIsDevice
<1>2. CASE x = Out(x[1])
  BY <1>2, JobFacts, JobEnds, MessagingAssumption
<1> QED BY <1>1, <1>2, JobFacts

--------------------------------------------------------------------------------
(* Types *)

\* The types of the tables of peers; the balance of events is bounded by EventsInv.
TableType ==
  /\ up \in [Device -> BOOLEAN]
  /\ at \in [Device -> Ip \cup {Nowhere}]
  /\ peers \in [Device -> [Device -> {NoPeer} \cup [addr : Ip, age : 0 .. StaleAfter + 1]]]
  /\ inbox \in [Device -> SUBSET [from : Device, ip : Ip]]
  /\ ticker \in [Device -> Ticking]
  /\ leaving \in [Device -> SUBSET Device]
  /\ hearing \in [Device -> {NoPeer} \cup [from : Device, ip : Ip]]
  /\ told \in [Device -> [Device -> Int]]

\* The types of the jobs.
JobsType ==
  /\ phase \in [Job -> Phase]
  /\ memo \in [Job -> Nat]
  /\ taker \in [Msg -> Device \cup {NoDevice}]
  /\ seenFrom \in [Msg -> Ip \cup {Nowhere}]
  /\ wire \in [Msg -> 0 .. 2]
  /\ line \in [Msg -> {"closed", "up", "cut", "silent"}]
  /\ path \in [Msg -> Saved]

\* The types of the store.
StoreType ==
  /\ files \in [Device -> [Saved -> Msg \cup {NoDevice}]]
  /\ contacts \in [Device -> SUBSET [id : Nat, device : Device]]
  /\ conversations \in [Device -> SUBSET [id : Nat, contact : Nat]]
  /\ rows \in [Device -> SUBSET [id : Nat, conversation : Nat, job : Job]]

\* The type invariant, in parts.
LEMMA TypeParts == TypeOK => TableType /\ JobsType /\ StoreType
<1> SUFFICES ASSUME TypeOK PROVE told \in [Device -> [Device -> Int]]
  BY DEF TypeOK, TableType, JobsType, StoreType
<1>1. told \in [Device -> [Device -> -1 .. 2]]
  BY DEF TypeOK
<1>2. -1 .. 2 \subseteq Int
  OBVIOUS
<1>3. [Device -> -1 .. 2] \subseteq [Device -> Int]
  BY <1>2
<1> QED BY <1>1, <1>3

\* The balance is bounded by what is due.
LEMMA ToldIsBounded ==
  ASSUME told \in [Device -> [Device -> Int]], \A d, e \in Device : PairInv(d, e)
  PROVE  told \in [Device -> [Device -> -1 .. 2]]
<1>1. ASSUME NEW d \in Device, NEW e \in Device PROVE told[d][e] \in -1 .. 2
  <2>1. PairInv(d, e)
    BY <1>1
  <2>2. Cardinality(Greeting(d, e)) = IF Greeting(d, e) = {} THEN 0 ELSE 1
    BY <2>1, AtMostOne DEF PairInv
  <2>3. Listed(d, e) \in {0, 1}
    BY DEF Listed
  <2>4. Heard(d, e) => Greeting(d, e) = {}
    BY <2>1 DEF PairInv
  <2>5. told[d][e] = Listed(d, e) + (IF e \in leaving[d] THEN 1 ELSE 0)
                       - (IF Heard(d, e) THEN 1 ELSE 0)
                       - (IF Greeting(d, e) = {} THEN 0 ELSE 1)
    BY <2>1, <2>2 DEF PairInv
  <2> QED BY <2>3, <2>4, <2>5
<1> QED BY <1>1

\* A record of a peer that was just seen.
LEMMA UpsertTypes ==
  ASSUME TableType, NEW d \in Device, NEW e \in Device, NEW ip \in Ip, NEW new,
         Upserted(d, e, ip, new)
  PROVE  peers' \in [Device -> [Device -> {NoPeer} \cup [addr : Ip, age : 0 .. StaleAfter + 1]]]
<1>1. 0 \in 0 .. StaleAfter + 1
  BY MessagingAssumption
<1>2. [addr |-> ip, age |-> 0] \in [addr : Ip, age : 0 .. StaleAfter + 1]
  BY <1>1
<1> QED BY <1>2 DEF Upserted, TableType

\* Datagrams come from an address.
LEMMA AnnounceTypes ==
  ASSUME TableType, NEW d \in Device, NEW S, Announce(d, S)
  PROVE  inbox' \in [Device -> SUBSET [from : Device, ip : Ip]]
<1>1. CASE at[d] = Nowhere
  BY <1>1 DEF Announce, TableType
<1>2. CASE at[d] # Nowhere
  <2>1. [from |-> d, ip |-> at[d]] \in [from : Device, ip : Ip]
    BY <1>2 DEF TableType
  <2>2. PICK T : inbox' = [e \in Device |->
                    IF e \in T \ {d} THEN inbox[e] \cup {[from |-> d, ip |-> at[d]]}
                    ELSE inbox[e]]
    BY <1>2 DEF Announce
  <2> QED BY <2>1, <2>2 DEF TableType
<1> QED BY <1>1, <1>2

\* The tables stay well typed.
LEMMA TableTypeStep == ASSUME IInv, [Next]_vars PROVE TableType'
<1> TypeOK /\ JobsInv /\ TableType
  BY TypeParts DEF IInv
<1>1. CASE UNCHANGED table
  BY <1>1 DEF table, TableType
<1>2. ASSUME NEW d \in Device, Beacon(d) PROVE TableType'
  BY <1>2, AnnounceTypes DEF Beacon, TableType, Ticking, Stale
<1>3. ASSUME NEW d \in Device, PublishLeft(d) PROVE TableType'
  BY <1>3 DEF PublishLeft, TableType, Ticking
<1>4. ASSUME NEW d \in Device, Hear(d) PROVE TableType'
  <2>1. PICK i \in inbox[d], new \in BOOLEAN :
          /\ inbox' = [inbox EXCEPT ![d] = @ \ {i}]
          /\ Upserted(d, i.from, i.ip, new)
          /\ hearing' = [hearing EXCEPT ![d] = IF new THEN i ELSE NoPeer]
    BY <1>4 DEF Hear
  <2>2. i \in [from : Device, ip : Ip]
    BY DEF TableType
  <2>3. peers' \in [Device -> [Device -> {NoPeer} \cup [addr : Ip, age : 0 .. StaleAfter + 1]]]
    BY <2>1, <2>2, UpsertTypes
  <2> QED BY <1>4, <2>1, <2>2, <2>3 DEF Hear, TableType
<1>5. ASSUME NEW d \in Device, PublishJoined(d) PROVE TableType'
  <2>1. hearing[d].from \in Device
    BY <1>5 DEF PublishJoined, TableType
  <2>2. inbox' \in [Device -> SUBSET [from : Device, ip : Ip]]
    BY <1>5, AnnounceTypes DEF PublishJoined
  <2>3. told' \in [Device -> [Device -> Int]]
    BY <1>5, <2>1 DEF PublishJoined, TableType
  <2> QED BY <1>5, <2>2, <2>3 DEF PublishJoined, TableType
<1>6. ASSUME NEW m \in Msg, ReadHello(m) PROVE TableType'
  <2>1. taker[m] \in Device /\ seenFrom[m] \in Ip /\ From[m] \in Device
    BY <1>6, TakerIsDevice DEF ReadHello
  <2>2. peers' \in [Device -> [Device -> {NoPeer} \cup [addr : Ip, age : 0 .. StaleAfter + 1]]]
    BY <1>6, <2>1, UpsertTypes DEF ReadHello
  <2> QED BY <1>6, <2>2 DEF ReadHello, TableType
<1>7. ASSUME NEW m \in Msg, Greet(m) PROVE TableType'
  <2>1. taker[m] \in Device /\ From[m] \in Device
    BY <1>7, TakerIsDevice DEF Greet, In
  <2> QED BY <1>7, <2>1 DEF Greet, TableType
<1>8. CASE Tick
  <2>1. ASSUME NEW d \in Device, NEW e \in Device
        PROVE  peers'[d][e] \in {NoPeer} \cup [addr : Ip, age : 0 .. StaleAfter + 1]
    <3>1. peers[d][e] \in {NoPeer} \cup [addr : Ip, age : 0 .. StaleAfter + 1]
      BY DEF TableType
    <3>2. CASE peers[d][e] = NoPeer \/ peers[d][e].age > StaleAfter
      BY <1>8, <3>1, <3>2 DEF Tick
    <3>3. CASE ~(peers[d][e] = NoPeer \/ peers[d][e].age > StaleAfter)
      <4>1. peers[d][e].age \in 0 .. StaleAfter + 1 /\ peers[d][e].addr \in Ip
        BY <3>1, <3>3
      <4>2. peers[d][e].age + 1 \in 0 .. StaleAfter + 1
        BY <3>3, <4>1, MessagingAssumption
      <4>3. peers'[d][e] = [peers[d][e] EXCEPT !.age = @ + 1]
        BY <1>8, <3>3 DEF Tick
      <4> QED BY <3>1, <3>3, <4>1, <4>2, <4>3
    <3> QED BY <3>2, <3>3
  <2>2. peers' \in [Device -> [Device -> {NoPeer} \cup [addr : Ip, age : 0 .. StaleAfter + 1]]]
    BY <1>8, <2>1 DEF Tick
  <2> QED BY <1>8, <2>2 DEF Tick, TableType, Ticking
<1>9. ASSUME NEW d \in Device, Move(d) PROVE TableType'
  BY <1>9 DEF Move, TableType
<1>10. ASSUME NEW d \in Device, Kill(d) PROVE TableType'
  BY <1>10 DEF Kill, TableType
<1>11. ASSUME NEW d \in Device, Start(d) PROVE TableType'
  BY <1>11 DEF Start, TableType, Ticking
<1>12. ASSUME NEW m \in Msg,
              \/ Connect(m) \/ Write(m) \/ Break(m) \/ ReadPayload(m) \/ ReadFails(m)
              \/ NameFile(m) \/ WriteFile(m) \/ PublishMessage(m)
              \/ Record(In(m)) \/ Record(Out(m))
       PROVE  UNCHANGED table
  BY <1>12 DEF Connect, Write, Break, ReadPayload, ReadFails, NameFile, WriteFile,
               PublishMessage, Record
<1>13. CASE UNCHANGED vars
  BY <1>1, <1>13 DEF vars
<1> QED BY <1>1, <1>2, <1>3, <1>4, <1>5, <1>6, <1>7, <1>8, <1>9, <1>10, <1>11, <1>12, <1>13
           DEF Next, Discovery, Sending, Receiving, In, Out

\* What a query of record_message does to its job.
LEMMA RecordJob ==
  ASSUME TypeOK, JobsInv, NEW x \in Job, Record(x)
  PROVE  /\ phase[x] \in Recording /\ Runs(x) \in Device
         /\ \E p \in Recording \cup {Recorded(x)} : Goes(x, p)
         /\ UNCHANGED <<table, taker, seenFrom, wire, line, path, files>>
<1>1. phase[x] \in Recording
  BY DEF Record, FindContact, AddContact, FindConversation, AddConversation, AddMessage, Recording
<1>2. Runs(x) \in Device
  BY <1>1, RunsOnDevice DEF Recording
<1>3. \E p \in Recording \cup {Recorded(x)} : Goes(x, p)
  BY DEF Record, FindContact, AddContact, FindConversation, AddConversation, AddMessage,
         Has, RecordFails, Recording
<1> QED BY <1>1, <1>2, <1>3 DEF Record

\* The ids that jobs remember are numbers.
LEMMA RecordMemo ==
  ASSUME TypeOK, JobsInv, StoreInv, NEW x \in Job, Record(x)
  PROVE  memo' \in [Job -> Nat]
<1> DEFINE d == Runs(x)
<1>1. memo \in [Job -> Nat] /\ d \in Device
  BY RecordJob DEF TypeOK
<1>2. /\ contacts[d] \subseteq [id : Nat, device : Device]
      /\ conversations[d] \subseteq [id : Nat, contact : Nat]
      /\ IsFiniteSet(contacts[d]) /\ IsFiniteSet(conversations[d])
  BY <1>1 DEF TypeOK, StoreInv
<1>3. FreshId(contacts[d]) \in Nat /\ FreshId(conversations[d]) \in Nat
  BY <1>2, FreshIdIsNatural
<1>4. ASSUME UNCHANGED memo PROVE memo' \in [Job -> Nat]
  BY <1>1, <1>4
<1>5. ASSUME NEW i \in Nat, memo' = [memo EXCEPT ![x] = i] PROVE memo' \in [Job -> Nat]
  BY <1>1, <1>5
<1>6. CASE FindContact(x)
  <2> DEFINE found == {c \in contacts[d] : c.device = Party(x)}
  <2>1. found # {} => First(found).id \in Nat
    <3>1. \A r \in found : r.id \in Nat
      BY <1>2
    <3>2. found # {} => First(found) \in found
      <4> HIDE DEF found
      <4> QED BY <3>1, FirstIsThere
    <3> QED BY <1>2, <3>2
  <2>2. \E i \in Nat : memo' = [memo EXCEPT ![x] = i]
    BY <1>6, <2>1 DEF FindContact, Has
  <2> QED BY <1>5, <2>2
<1>7. CASE AddContact(x)
  BY <1>3, <1>4, <1>5, <1>7 DEF AddContact, Has, RecordFails
<1>8. CASE FindConversation(x)
  <2> DEFINE found == {v \in conversations[d] : v.contact = memo[x]}
  <2>1. found # {} => First(found).id \in Nat
    <3>1. \A r \in found : r.id \in Nat
      BY <1>2
    <3>2. found # {} => First(found) \in found
      <4> HIDE DEF found
      <4> QED BY <3>1, FirstIsThere
    <3> QED BY <1>2, <3>2
  <2>2. \E i \in Nat : memo' = [memo EXCEPT ![x] = i]
    BY <1>1, <1>8, <2>1 DEF FindConversation, Has
  <2> QED BY <1>5, <2>2
<1>9. CASE AddConversation(x)
  BY <1>3, <1>5, <1>9 DEF AddConversation, Has
<1>10. CASE AddMessage(x) \/ RecordFails(x)
  BY <1>4, <1>10 DEF AddMessage, RecordFails
<1> QED BY <1>6, <1>7, <1>8, <1>9, <1>10 DEF Record

\* Phases are phases.
LEMMA PhasesAre ==
  /\ Recording \subseteq Phase
  /\ \A x : Recorded(x) \in Phase /\ ToRecord(x) \in Phase
  /\ {"over", "hello", "payload", "greet", "done", "publish", "name file", "write file"}
       \subseteq Phase
BY DEF Recording, Phase, Recorded, ToRecord

\* The jobs stay well typed.
LEMMA JobsTypeStep == ASSUME IInv, [Next]_vars PROVE JobsType'
<1> TypeOK /\ JobsInv /\ StoreInv /\ FilesInv /\ JobsType
  BY TypeParts DEF IInv
<1>1. CASE UNCHANGED jobs
  BY <1>1 DEF jobs, JobsType
<1>2. ASSUME NEW d \in Device, Discovery(d) \/ Start(d)
      PROVE  UNCHANGED jobs
  BY <1>2 DEF Discovery, Beacon, PublishLeft, Hear, PublishJoined, Start
<1>3. ASSUME NEW d \in Device, NEW how \in {"cut", "silent"}, Broken(d, how)
      PROVE  line' \in [Msg -> {"closed", "up", "cut", "silent"}]
  BY <1>3 DEF Broken, JobsType
<1>4. ASSUME NEW d \in Device, Move(d) PROVE JobsType'
  BY <1>3, <1>4 DEF Move, JobsType
<1>5. ASSUME NEW d \in Device, Kill(d) PROVE JobsType'
  <2>1. phase' \in [Job -> Phase]
    BY <1>5, PhasesAre DEF Kill, JobsType
  <2> QED BY <1>3, <1>5, <2>1 DEF Kill, JobsType
<1>6. ASSUME NEW m \in Msg, Connect(m) PROVE JobsType'
  <2>1. phase' \in [Job -> Phase]
    <3>1. \E p \in Phase : Goes(Out(m), p)
      BY <1>6, PhasesAre DEF Connect, Out
    <3> QED BY <3>1, GoesTo, JobFacts DEF JobsType
  <2>2. OnNet(From[m]) => at[From[m]] \in Ip \cup {Nowhere}
    BY MessagingAssumption DEF TypeOK
  <2> QED BY <1>6, <2>1, <2>2 DEF Connect, JobsType, OnNet, Owner
<1>7. ASSUME NEW m \in Msg, Write(m) PROVE JobsType'
  <2>1. phase' \in [Job -> Phase]
    <3>1. \E p \in Phase : Goes(Out(m), p)
      BY <1>7, PhasesAre DEF Write, Out
    <3> QED BY <3>1, GoesTo, JobFacts DEF JobsType
  <2>2. wire[m] \in 0 .. 1
    <3>1. wire[m] \in 0 .. 2 /\ LinkInv(m)
      BY DEF JobsInv, JobsType
    <3>2. wire[m] = 0 \/ wire[m] <= 1
      BY <1>7, <3>1 DEF Write, LinkInv, Out
    <3> QED BY <3>1, <3>2
  <2>3. wire' = [wire EXCEPT ![m] = @ + 1] \/ wire' = wire \/ wire' = [wire EXCEPT ![m] = @]
    BY <1>7 DEF Write
  <2>4. wire' \in [Msg -> 0 .. 2]
    BY <2>2, <2>3 DEF JobsType
  <2> QED BY <1>7, <2>1, <2>4 DEF Write, JobsType
<1>8. ASSUME NEW m \in Msg, ReadHello(m) PROVE JobsType'
  <2>1. phase' \in [Job -> Phase]
    <3>1. \E p \in Phase : Goes(In(m), p)
      BY <1>8, PhasesAre DEF ReadHello, In
    <3> QED BY <3>1, GoesTo, JobFacts DEF JobsType
  <2> QED BY <1>8, <2>1 DEF ReadHello, JobsType
<1>9. ASSUME NEW m \in Msg, Greet(m) \/ ReadFails(m) \/ WriteFile(m) \/ PublishMessage(m)
      PROVE  JobsType'
  <2>1. phase' \in [Job -> Phase]
    <3>1. \E p \in Phase : Goes(In(m), p)
      BY <1>9, PhasesAre DEF Greet, ReadFails, WriteFile, PublishMessage, In
    <3> QED BY <3>1, GoesTo, JobFacts DEF JobsType
  <2> QED BY <1>9, <2>1 DEF Greet, ReadFails, WriteFile, PublishMessage, JobsType
<1>10. ASSUME NEW m \in Msg, ReadPayload(m) PROVE JobsType'
  <2>1. phase' \in [Job -> Phase]
    <3>1. \E p \in Phase : Goes(In(m), p)
      BY <1>10, PhasesAre DEF ReadPayload, In
    <3> QED BY <3>1, GoesTo, JobFacts DEF JobsType
  <2> QED BY <1>10, <2>1 DEF ReadPayload, JobsType
<1>11. ASSUME NEW m \in Msg, NameFile(m) PROVE JobsType'
  <2> DEFINE free == {k \in Saved : files[taker[m]][k] = NoDevice}
  <2>1. phase' \in [Job -> Phase]
    <3>1. \E p \in Phase : Goes(In(m), p)
      BY <1>11, PhasesAre DEF NameFile, In
    <3> QED BY <3>1, GoesTo, JobFacts DEF JobsType
  <2>2. taker[m] \in Device
    BY <1>11, TakerIsDevice DEF NameFile, In
  <2>3. free # {} /\ free \in SUBSET Nat
    <3>1. Cardinality(File) \in Nat
      BY FS_CardinalityType, MessagingAssumption
    <3> QED BY <2>2, <3>1, NameIsFree DEF Saved
  <2>4. path' = [path EXCEPT ![m] = CHOOSE k \in free : \A j \in free : k <= j]
    BY <1>11 DEF NameFile
  <2>5. (CHOOSE k \in free : \A j \in free : k <= j) \in free
    <3> HIDE DEF free
    <3> QED BY <2>3, Smallest
  <2>6. path' \in [Msg -> Saved]
    BY <2>4, <2>5 DEF JobsType
  <2> QED BY <1>11, <2>1, <2>6 DEF NameFile, JobsType
<1>12. ASSUME NEW x \in Job, Record(x) PROVE JobsType'
  <2>1. phase' \in [Job -> Phase]
    <3>1. PICK p \in Recording \cup {Recorded(x)} : Goes(x, p)
      BY <1>12, RecordJob
    <3>2. p \in Phase
      BY <3>1, PhasesAre
    <3> QED BY <3>1, <3>2, GoesTo DEF JobsType
  <2>2. memo' \in [Job -> Nat]
    BY <1>12, RecordMemo
  <2> QED BY <1>12, <2>1, <2>2 DEF Record, JobsType
<1>13. ASSUME NEW m \in Msg, Break(m) PROVE JobsType'
  BY <1>13 DEF Break, JobsType
<1>14. CASE Tick \/ UNCHANGED vars
  BY <1>1, <1>14 DEF Tick, vars
<1> QED BY <1>1, <1>2, <1>4, <1>5, <1>6, <1>7, <1>8, <1>9, <1>10, <1>11, <1>12, <1>13, <1>14,
           JobFacts DEF Next, Sending, Receiving, In, Out

\* The store stays well typed.
LEMMA StoreTypeStep == ASSUME IInv, [Next]_vars PROVE StoreType'
<1> TypeOK /\ JobsInv /\ StoreInv /\ StoreType
  BY TypeParts DEF IInv
<1>1. CASE UNCHANGED store
  BY <1>1 DEF store, StoreType
<1>2. ASSUME NEW m \in Msg, WriteFile(m) PROVE StoreType'
  <2>1. taker[m] \in Device
    BY <1>2, TakerIsDevice DEF WriteFile, In
  <2>2. path[m] \in Saved
    BY DEF TypeOK
  <2>3. files' = [files EXCEPT ![taker[m]][path[m]] = m] \/ files' = files
    BY <1>2 DEF WriteFile
  <2>4. files' \in [Device -> [Saved -> Msg \cup {NoDevice}]]
    BY <2>1, <2>2, <2>3 DEF StoreType
  <2> QED BY <1>2, <2>4 DEF WriteFile, StoreType
<1>3. ASSUME NEW x \in Job, Record(x) PROVE StoreType'
  <2> DEFINE d == Runs(x)
  <2>1. d \in Device /\ Party(x) \in Device /\ memo[x] \in Nat /\ UNCHANGED files
    BY <1>3, RecordJob, JobEnds DEF TypeOK
  <2>2. /\ FreshId(contacts[d]) \in Nat /\ FreshId(conversations[d]) \in Nat
        /\ FreshId(rows[d]) \in Nat
    BY <2>1, FreshIdIsNatural DEF StoreInv
  <2>3. CASE UNCHANGED <<contacts, conversations, rows>>
    BY <2>1, <2>3 DEF StoreType
  <2>4. CASE AddContact(x)
    <3>1. \/ UNCHANGED <<contacts, conversations, rows>>
          \/ /\ contacts' = [contacts EXCEPT ![d] = @ \cup {[id |-> FreshId(contacts[d]), device |-> Party(x)]}]
             /\ UNCHANGED <<conversations, rows>>
      BY <2>4 DEF AddContact, RecordFails
    <3>2. [id |-> FreshId(contacts[d]), device |-> Party(x)] \in [id : Nat, device : Device]
      BY <2>1, <2>2
    <3> HIDE DEF d
    <3> QED BY <2>1, <2>3, <3>1, <3>2 DEF StoreType
  <2>5. CASE AddConversation(x)
    <3>1. /\ conversations' = [conversations EXCEPT ![d] = @ \cup {[id |-> FreshId(conversations[d]), contact |-> memo[x]]}]
          /\ UNCHANGED <<contacts, rows>>
      BY <2>5 DEF AddConversation
    <3>2. [id |-> FreshId(conversations[d]), contact |-> memo[x]] \in [id : Nat, contact : Nat]
      BY <2>1, <2>2
    <3> HIDE DEF d
    <3> QED BY <2>1, <3>1, <3>2 DEF StoreType
  <2>6. CASE AddMessage(x)
    <3>1. /\ rows' = [rows EXCEPT ![d] = @ \cup
                        {[id |-> FreshId(rows[d]), conversation |-> memo[x], job |-> x]}]
          /\ UNCHANGED <<contacts, conversations>>
      BY <2>6 DEF AddMessage
    <3>2. [id |-> FreshId(rows[d]), conversation |-> memo[x], job |-> x]
             \in [id : Nat, conversation : Nat, job : Job]
      BY <2>1, <2>2
    <3> HIDE DEF d
    <3> QED BY <2>1, <3>1, <3>2 DEF StoreType
  <2> QED BY <1>3, <2>3, <2>4, <2>5, <2>6 DEF Record, FindContact, FindConversation, RecordFails
<1>4. ASSUME NEW d \in Device, Discovery(d) \/ Start(d) \/ Move(d) \/ Kill(d)
      PROVE  UNCHANGED store
  BY <1>4 DEF Discovery, Beacon, PublishLeft, Hear, PublishJoined, Start, Move, Kill
<1>5. ASSUME NEW m \in Msg,
             \/ Connect(m) \/ Write(m) \/ Break(m) \/ ReadHello(m) \/ Greet(m) \/ ReadPayload(m)
             \/ ReadFails(m) \/ NameFile(m) \/ PublishMessage(m)
      PROVE  UNCHANGED store
  BY <1>5 DEF Connect, Write, Break, ReadHello, Greet, ReadPayload, ReadFails, NameFile,
              PublishMessage
<1>6. CASE Tick \/ UNCHANGED vars
  BY <1>1, <1>6 DEF Tick, vars
<1> QED BY <1>1, <1>2, <1>3, <1>4, <1>5, <1>6, JobFacts DEF Next, Sending, Receiving, In, Out

\* So is the whole state.
LEMMA TypeStep == ASSUME IInv, [Next]_vars PROVE TypeOK'
<1>1. TableType' /\ JobsType' /\ StoreType' /\ EventsInv'
  BY TableTypeStep, JobsTypeStep, StoreTypeStep, EventsStep
<1>2. (told \in [Device -> [Device -> -1 .. 2]])'
  <2>1. (told \in [Device -> [Device -> Int]])' /\ (\A d, e \in Device : PairInv(d, e))'
    BY <1>1 DEF TableType, EventsInv
  <2> QED BY <2>1, ToldIsBounded, PTL
<1>3. (upsets \in 0 .. MaxUpsets)'
  <2>1. upsets \in 0 .. MaxUpsets
    BY DEF IInv, TypeOK
  <2>2. ASSUME NEW d \in Device, Discovery(d) \/ Move(d) \/ Kill(d) \/ Start(d)
        PROVE  NoUpset \/ Upset
    <3>1. \A S : Announce(d, S) => NoUpset \/ Upset
      BY DEF Announce
    <3> QED BY <2>2, <3>1 DEF Discovery, Beacon, PublishLeft, Hear, PublishJoined, Move, Kill, Start
  <2>3. ASSUME NEW m \in Msg, Connect(m) \/ Sending(m) \/ Break(m)
        PROVE  NoUpset \/ Upset
    BY <2>3 DEF Connect, Sending, Write, Record, Break
  <2>4. ASSUME NEW m \in Msg, Receiving(m)
        PROVE  NoUpset \/ Upset
    BY <2>4 DEF Receiving, ReadHello, Greet, ReadPayload, ReadFails, NameFile, WriteFile,
                PublishMessage, Record
  <2>5. ASSUME Tick \/ UNCHANGED vars PROVE NoUpset \/ Upset
    BY <2>5 DEF Tick, NoUpset, vars
  <2>6. NoUpset \/ Upset
    BY <2>2, <2>3, <2>4, <2>5 DEF Next
  <2> QED BY <2>1, <2>6, MessagingAssumption DEF Upset, NoUpset
<1> QED BY <1>1, <1>2, <1>3 DEF TypeOK, TableType, JobsType, StoreType

--------------------------------------------------------------------------------
(* Connections *)

\* A step of one job that has begun keeps what holds of the others.
LEMMA JobsKept ==
  ASSUME JobsInv, UNCHANGED <<up, taker, seenFrom>>, NEW x \in Job, Begun(x),
         \A y \in Job \ {x} : phase'[y] = phase[y],
         \A n \in Msg \ {x[1]} : wire'[n] = wire[n],
         LinkInv(x[1])'
  PROVE  JobsInv'
<1>1. ASSUME NEW n \in Msg PROVE LinkInv(n)'
  <2>1. CASE n = x[1]
    BY <2>1
  <2>2. CASE n # x[1]
    <3>1. In(n) # x /\ Out(n) # x
      BY <2>2 DEF In, Out
    <3>2. LinkInv(n)
      BY DEF JobsInv
    <3> QED BY <2>2, <3>1, <3>2, JobFacts DEF LinkInv
  <2> QED BY <2>1, <2>2
<1>2. ASSUME NEW y \in Job, NEW d \in Device, Runs(y)' = d, ~up'[d]
      PROVE  ~Begun(y)'
  <2>1. Runs(y) = d /\ ~up[d]
    BY <1>2 DEF Runs
  <2>2. ~Begun(y)
    BY <2>1 DEF JobsInv
  <2> QED BY <2>2 DEF Begun
<1> QED BY <1>1, <1>2 DEF JobsInv

\* A step of the receiving end that leaves the connection alone.
LEMMA InJobKept ==
  ASSUME TypeOK, JobsInv, NEW m \in Msg, taker[m] # NoDevice,
         UNCHANGED <<up, taker, seenFrom, wire>>, Begun(In(m)), NEW p, Goes(In(m), p),
         p \in Whole => wire[m] = 2, p \in {"name file", "write file"} => m \in File
  PROVE  JobsInv'
<1>1. LinkInv(m)
  BY DEF JobsInv
<1>2. phase'[In(m)] = p /\ \A y \in Job \ {In(m)} : phase'[y] = phase[y]
  BY GoesTo, JobFacts DEF TypeOK
<1>3. phase'[Out(m)] = phase[Out(m)]
  BY <1>2, JobFacts
<1>4. LinkInv(m)'
  BY <1>1, <1>2, <1>3 DEF LinkInv
<1>5. In(m)[1] = m /\ In(m) \in Job
  BY JobFacts DEF In
<1> QED BY <1>2, <1>4, <1>5, JobsKept

\* A connection is taken by a device that is up.
LEMMA ConnectJobs ==
  ASSUME TypeOK, JobsInv, NEW m \in Msg, Connect(m)
  PROVE  JobsInv'
<1>1. /\ up[From[m]] /\ phase[Out(m)] = "new"
      /\ UNCHANGED <<up, wire>>
      /\ \A n \in Msg \ {m} : taker'[n] = taker[n] /\ seenFrom'[n] = seenFrom[n]
  BY DEF Connect, Out, table, TypeOK
<1>2. LinkInv(m)
  BY DEF JobsInv
<1>3. taker[m] = NoDevice /\ phase[In(m)] = "new" /\ wire[m] = 0
  BY <1>1, <1>2 DEF LinkInv
<1>4. /\ phase'[Out(m)] \in {"hello", "over"}
      /\ \A y \in Job \ {Out(m)} : phase'[y] = phase[y]
  BY GoesTo, JobFacts DEF Connect, Out, TypeOK
<1>5. phase'[In(m)] = "new"
  BY <1>3, <1>4, JobFacts
<1>6. \/ taker'[m] = NoDevice /\ phase'[Out(m)] = "over"
      \/ taker'[m] \in Device /\ up[taker'[m]] /\ seenFrom'[m] \in Ip
  <2>1. at[From[m]] \in Ip \cup {Nowhere}
    BY MessagingAssumption DEF TypeOK
  <2>2. \A p : Goes(Out(m), p) => phase'[Out(m)] = p
    BY JobFacts DEF Goes, TypeOK
  <2> QED BY <1>3, <2>1, <2>2 DEF Connect, OnNet, Owner, Out, TypeOK
<1>7. LinkInv(m)'
  BY <1>1, <1>3, <1>4, <1>5, <1>6, MessagingAssumption DEF LinkInv, Whole, Recording
<1>8. ASSUME NEW n \in Msg PROVE LinkInv(n)'
  <2>1. CASE n = m
    BY <1>7, <2>1
  <2>2. CASE n # m
    <3>1. In(n) # Out(m) /\ Out(n) # Out(m) /\ In(n) \in Job /\ Out(n) \in Job
      BY <2>2, JobFacts
    <3>2. LinkInv(n)
      BY DEF JobsInv
    <3> QED BY <1>1, <1>4, <2>2, <3>1, <3>2 DEF LinkInv
  <2> QED BY <2>1, <2>2
<1>9. ASSUME NEW y \in Job, NEW d \in Device, Runs(y)' = d, ~up'[d]
      PROVE  ~Begun(y)'
  <2>1. CASE y = Out(m)
    BY <1>1, <1>9, <2>1 DEF Runs, Out
  <2>2. CASE y = In(m)
    BY <1>1, <1>6, <1>9, <2>2, MessagingAssumption DEF Runs, In
  <2>3. CASE y # Out(m) /\ y # In(m)
    <3>1. phase'[y] = phase[y]
      BY <1>4, <2>3
    <3>2. Runs(y)' = Runs(y)
      <4>1. CASE y = Out(y[1])
        BY <4>1 DEF Runs, Out
      <4>2. CASE y = In(y[1]) /\ y[1] # m
        BY <1>1, <4>2, JobFacts DEF Runs, In
      <4> QED BY <2>3, <4>1, <4>2, JobFacts
    <3>3. ~Begun(y)
      BY <1>1, <1>9, <3>2 DEF JobsInv
    <3> QED BY <3>1, <3>3 DEF Begun
  <2> QED BY <2>1, <2>2, <2>3
<1> QED BY <1>8, <1>9 DEF JobsInv

\* The sender writes two frames at most.
LEMMA WriteJobs ==
  ASSUME TypeOK, JobsInv, NEW m \in Msg, Write(m)
  PROVE  JobsInv'
<1>1. /\ phase[Out(m)] \in {"hello", "payload"}
      /\ UNCHANGED <<up, taker, seenFrom>>
      /\ \A n \in Msg \ {m} : wire'[n] = wire[n]
  BY DEF Write, Out, table, TypeOK
<1>2. LinkInv(m) /\ wire[m] \in 0 .. 2 /\ Out(m) \in Job /\ Out(m)[1] = m
  BY JobFacts DEF JobsInv, TypeOK, Out
<1>3. taker[m] # NoDevice /\ seenFrom[m] \in Ip
  BY <1>1, <1>2 DEF LinkInv
<1>4. /\ \A y \in Job \ {Out(m)} : phase'[y] = phase[y]
      /\ \/ phase'[Out(m)] = "payload" /\ phase[Out(m)] = "hello"
         \/ phase'[Out(m)] \in {"find contact", "done"} /\ phase[Out(m)] = "payload"
         \/ phase'[Out(m)] = "over" /\ wire' = wire
  BY <1>2, GoesTo DEF Write, Out, TypeOK, ToRecord, Recorded
<1>5. phase'[In(m)] = phase[In(m)]
  BY <1>4, JobFacts
<1>6. wire'[m] = wire[m] \/ wire'[m] = wire[m] + 1
  BY <1>2 DEF Write, TypeOK
<1>7. phase[In(m)] \in Whole => wire'[m] = 2
  <2>1. phase[Out(m)] = "hello" => wire[m] = 0
    BY <1>2 DEF LinkInv
  <2>2. phase[Out(m)] = "payload" => wire[m] <= 1
    BY <1>2 DEF LinkInv
  <2>3. phase[In(m)] \in Whole => wire[m] = 2
    BY <1>2 DEF LinkInv
  <2> QED BY <1>1, <1>2, <2>1, <2>2, <2>3
<1>8. LinkInv(m)'
  <2>1. phase'[Out(m)] = "payload" => wire'[m] <= 1
    <3> SUFFICES ASSUME phase'[Out(m)] = "payload" PROVE wire'[m] <= 1
      OBVIOUS
    <3>1. phase[Out(m)] = "hello"
      BY <1>4
    <3>2. wire[m] = 0
      BY <1>2, <3>1 DEF LinkInv
    <3> QED BY <1>6, <3>2
  <2>2. /\ phase'[Out(m)] \notin {"new", "hello"}
        /\ phase'[Out(m)] \notin {"greet", "name file", "write file", "publish"}
    BY <1>4
  <2>3. phase'[In(m)] \in {"name file", "write file"} => m \in File
    BY <1>2, <1>5 DEF LinkInv
  <2> QED BY <1>1, <1>3, <1>5, <1>7, <2>1, <2>2, <2>3 DEF LinkInv
<1>9. Begun(Out(m))
  BY <1>1 DEF Begun
<1> QED BY <1>1, <1>2, <1>4, <1>8, <1>9, JobsKept

\* A daemon that is killed ends its jobs.
LEMMA KillJobs ==
  ASSUME TypeOK, JobsInv, NEW b \in Device, Kill(b)
  PROVE  JobsInv'
<1>1. /\ up' = [up EXCEPT ![b] = FALSE]
      /\ phase' = [x \in Job |-> IF Runs(x) = b /\ Begun(x) THEN "over" ELSE phase[x]]
      /\ UNCHANGED <<taker, seenFrom, wire>>
  BY DEF Kill
<1>2. ASSUME NEW x \in Job PROVE phase'[x] = "over" \/ phase'[x] = phase[x]
  BY <1>1
<1>3. ASSUME NEW m \in Msg PROVE LinkInv(m)'
  <2>1. LinkInv(m) /\ In(m) \in Job /\ Out(m) \in Job
    BY JobFacts DEF JobsInv
  <2>2. taker[m] = NoDevice => phase'[In(m)] = phase[In(m)]
    <3>1. taker[m] = NoDevice => Runs(In(m)) # b
      BY JobEnds, MessagingAssumption
    <3> QED BY <1>1, <2>1, <3>1
  <2>3. phase'[Out(m)] = "new" <=> phase[Out(m)] = "new"
    <3>1. phase[Out(m)] = "new" => ~Begun(Out(m))
      BY DEF Begun, Out
    <3> QED BY <1>1, <1>2, <2>1, <3>1
  <2>4. phase'[In(m)] = "over" \/ phase'[In(m)] = phase[In(m)]
    BY <1>2, <2>1
  <2>5. phase'[Out(m)] = "over" \/ phase'[Out(m)] = phase[Out(m)]
    BY <1>2, <2>1
  <2> QED BY <1>1, <2>1, <2>2, <2>3, <2>4, <2>5 DEF LinkInv, Whole, Recording
<1>4. ASSUME NEW y \in Job, NEW d \in Device, Runs(y)' = d, ~up'[d]
      PROVE  ~Begun(y)'
  <2>1. Runs(y) = d
    BY <1>1, <1>4 DEF Runs
  <2>2. CASE Begun(y)
    <3>1. up[d]
      BY <2>1, <2>2 DEF JobsInv
    <3>2. d = b
      BY <1>1, <1>4, <3>1 DEF TypeOK
    <3>3. phase'[y] = "over"
      BY <1>1, <2>1, <2>2, <3>2
    <3> QED BY <3>3 DEF Begun
  <2>3. CASE ~Begun(y)
    <3>1. phase'[y] = phase[y]
      BY <1>1, <2>3
    <3> QED BY <2>3, <3>1 DEF Begun
  <2> QED BY <2>2, <2>3
<1> QED BY <1>3, <1>4 DEF JobsInv

\* What two jobs know of their connection stays true.
LEMMA JobsStep == ASSUME IInv, [Next]_vars PROVE JobsInv'
<1> TypeOK /\ JobsInv
  BY DEF IInv
<1>1. ASSUME UNCHANGED <<phase, taker, seenFrom, wire>>, \A d \in Device : up[d] => up'[d]
      PROVE  JobsInv'
  <2>1. \A m \in Msg : LinkInv(m)'
    BY <1>1 DEF JobsInv, LinkInv
  <2>2. ASSUME NEW y \in Job, NEW d \in Device, Runs(y)' = d, ~up'[d]
        PROVE  ~Begun(y)'
    <3>1. Runs(y) = d /\ ~up[d]
      BY <1>1, <2>2 DEF Runs
    <3> QED BY <1>1, <3>1 DEF JobsInv, Begun
  <2> QED BY <2>1, <2>2 DEF JobsInv
<1>2. ASSUME NEW d \in Device, Discovery(d) \/ Start(d) \/ Move(d) PROVE JobsInv'
  <2>1. UNCHANGED <<phase, taker, seenFrom, wire>>
    BY <1>2 DEF Discovery, Beacon, PublishLeft, Hear, PublishJoined, Start, Move, jobs
  <2>2. UNCHANGED up \/ up' = [up EXCEPT ![d] = TRUE]
    BY <1>2 DEF Discovery, Beacon, PublishLeft, Hear, PublishJoined, Start, Move
  <2>3. \A e \in Device : up[e] => up'[e]
    BY <2>2 DEF TypeOK
  <2> QED BY <1>1, <2>1, <2>3
<1>3. ASSUME NEW m \in Msg,
             \/ ReadHello(m) \/ Greet(m) \/ ReadPayload(m) \/ ReadFails(m)
             \/ NameFile(m) \/ WriteFile(m) \/ PublishMessage(m)
      PROVE  JobsInv'
  <2>1. UNCHANGED <<up, taker, seenFrom, wire>>
    BY <1>3 DEF ReadHello, Greet, ReadPayload, ReadFails, NameFile, WriteFile, PublishMessage, table
  <2>2. taker[m] # NoDevice
    <3>1. CASE ReadFails(m)
      BY <3>1 DEF ReadFails
    <3>2. CASE ~ReadFails(m)
      <4>1. phase[In(m)] # "new" \/ wire[m] >= 1
        BY <1>3, <3>2 DEF ReadHello, Greet, ReadPayload, NameFile, WriteFile, PublishMessage, In
      <4> QED BY <4>1, TakerIsDevice, MessagingAssumption
    <3> QED BY <3>1, <3>2
  <2>3. Begun(In(m))
    BY <1>3 DEF ReadHello, Greet, ReadPayload, ReadFails, NameFile, WriteFile, PublishMessage, In,
                Begun
  <2>4. LinkInv(m)
    BY DEF JobsInv
  <2>5. \E p : /\ Goes(In(m), p)
               /\ p \in Whole => wire[m] = 2
               /\ p \in {"name file", "write file"} => m \in File
    <3>1. CASE ReadHello(m) \/ Greet(m) \/ ReadFails(m)
      <4>1. PICK p \in {"greet", "payload", "over"} : Goes(In(m), p)
        BY <3>1 DEF ReadHello, Greet, ReadFails, In
      <4>2. p \notin Whole /\ p \notin {"name file", "write file"}
        BY DEF Whole, Recording
      <4> QED BY <4>1, <4>2
    <3>2. CASE ReadPayload(m)
      <4> DEFINE q == IF m \in File THEN "name file" ELSE ToRecord(In(m))
      <4>1. wire[m] = 2 /\ (q \in {"name file", "write file"} => m \in File)
        BY <3>2 DEF ReadPayload, ToRecord, Recorded
      <4>2. Goes(In(m), q)
        BY <3>2 DEF ReadPayload, In
      <4> HIDE DEF q
      <4> QED BY <4>1, <4>2
    <3>3. CASE NameFile(m)
      <4>1. phase[In(m)] = "name file" /\ Goes(In(m), "write file")
        BY <3>3 DEF NameFile, In
      <4>2. wire[m] = 2 /\ m \in File
        BY <2>4, <4>1 DEF LinkInv, Whole
      <4> QED BY <4>1, <4>2
    <3>4. CASE WriteFile(m)
      <4>1. phase[In(m)] = "write file" /\ \E p \in {ToRecord(In(m)), "over"} : Goes(In(m), p)
        BY <3>4 DEF WriteFile, In
      <4>2. {ToRecord(In(m)), "over"} \cap {"name file", "write file"} = {}
        BY DEF ToRecord, Recorded
      <4>3. wire[m] = 2
        BY <2>4, <4>1 DEF LinkInv, Whole
      <4> QED BY <4>1, <4>2, <4>3
    <3>5. CASE PublishMessage(m)
      <4>1. phase[In(m)] = "publish" /\ \E p \in {"done"} : Goes(In(m), p)
        BY <3>5 DEF PublishMessage, In
      <4>2. {"done"} \cap {"name file", "write file"} = {}
        OBVIOUS
      <4>3. wire[m] = 2
        BY <2>4, <4>1 DEF LinkInv, Whole
      <4> QED BY <4>1, <4>2, <4>3
    <3> QED BY <1>3, <3>1, <3>2, <3>3, <3>4, <3>5
  <2> QED BY <2>1, <2>2, <2>3, <2>5, InJobKept
<1>4. ASSUME NEW m \in Msg, Record(In(m)) PROVE JobsInv'
  <2>1. phase[In(m)] \in Recording /\ UNCHANGED <<up, taker, seenFrom, wire>>
    BY <1>4, RecordJob, JobFacts DEF table
  <2>2. wire[m] = 2 /\ taker[m] # NoDevice /\ Begun(In(m))
    BY <2>1 DEF JobsInv, LinkInv, Whole, Begun, Recording
  <2>3. PICK p \in Recording \cup {"publish"} : Goes(In(m), p)
    BY <1>4, RecordJob, JobFacts DEF Recorded, In
  <2> QED BY <2>1, <2>2, <2>3, InJobKept DEF Recording
<1>5. ASSUME NEW m \in Msg, Record(Out(m)) PROVE JobsInv'
  <2>1. phase[Out(m)] \in Recording /\ UNCHANGED <<up, taker, seenFrom, wire>>
    BY <1>5, RecordJob, JobFacts DEF table
  <2>2. PICK p \in Recording \cup {"done"} : Goes(Out(m), p)
    BY <1>5, RecordJob, JobFacts DEF Recorded, Out
  <2>3. phase'[Out(m)] = p /\ \A y \in Job \ {Out(m)} : phase'[y] = phase[y]
    BY <2>2, GoesTo, JobFacts DEF TypeOK
  <2>4. phase'[In(m)] = phase[In(m)]
    BY <2>3, JobFacts
  <2>5. LinkInv(m)'
    BY <2>1, <2>3, <2>4 DEF JobsInv, LinkInv, Recording
  <2>6. Begun(Out(m)) /\ Out(m)[1] = m /\ Out(m) \in Job
    BY <2>1, JobFacts DEF Begun, Recording, Out
  <2> QED BY <2>1, <2>3, <2>5, <2>6, JobsKept
<1>6. ASSUME NEW m \in Msg, Break(m) PROVE JobsInv'
  BY <1>1, <1>6 DEF Break, table
<1>7. CASE Tick \/ UNCHANGED vars
  BY <1>1, <1>7 DEF Tick, vars, table, jobs
<1> QED BY <1>2, <1>3, <1>4, <1>5, <1>6, <1>7, ConnectJobs, WriteJobs, KillJobs
           DEF Next, Sending, Receiving, In, Out

--------------------------------------------------------------------------------
(* Files *)

\* Phases after the file is written, or was not to be; and after the row.
Written == Recording \cup {"publish", "done", "over"}
Settled == {"publish", "done", "over"}

\* What goes only forward, whatever the step: phases, the runner of a job, and
\* the frames written.
LEMMA Forward ==
  ASSUME IInv, [Next]_vars
  PROVE  /\ \A m \in Msg : phase[In(m)] \in Written => phase'[In(m)] \in Written /\ path'[m] = path[m]
         /\ \A x \in Job : phase[x] \in Settled => phase'[x] \in Settled
         /\ \A x \in Job : phase[x] # "new" => Runs(x)' = Runs(x)
         /\ \A m \in Msg : wire[m] = 2 => wire'[m] = 2
<1> TypeOK /\ JobsInv /\ phase \in [Job -> Phase]
  BY DEF IInv, TypeOK
<1> DEFINE Goal == /\ \A m \in Msg : phase[In(m)] \in Written => phase'[In(m)] \in Written /\ path'[m] = path[m]
                   /\ \A x \in Job : phase[x] \in Settled => phase'[x] \in Settled
                   /\ \A x \in Job : phase[x] # "new" => Runs(x)' = Runs(x)
                   /\ \A m \in Msg : wire[m] = 2 => wire'[m] = 2
<1>1. ASSUME UNCHANGED taker PROVE \A x \in Job : phase[x] # "new" => Runs(x)' = Runs(x)
  BY <1>1 DEF Runs
<1>2. ASSUME UNCHANGED <<phase, path, wire, taker>> PROVE Goal
  BY <1>1, <1>2
<1>3. ASSUME NEW x \in Job, NEW p, Goes(x, p),
             phase[x] \in Settled => p \in Settled,
             phase[x] \in Written => p \in Written
      PROVE  /\ \A y \in Job : phase[y] \in Settled => phase'[y] \in Settled
             /\ \A m \in Msg : phase[In(m)] \in Written => phase'[In(m)] \in Written
  BY <1>3, GoesTo, JobFacts
<1>4. ASSUME NEW d \in Device, Discovery(d) \/ Start(d) \/ Move(d) PROVE Goal
  <2>1. UNCHANGED <<phase, path, wire, taker>>
    BY <1>4 DEF Discovery, Beacon, PublishLeft, Hear, PublishJoined, Start, Move, jobs
  <2> QED BY <1>2, <2>1
<1>5. ASSUME NEW m \in Msg, Connect(m) PROVE Goal
  <2>1. /\ phase[Out(m)] = "new" /\ UNCHANGED <<wire, path>>
        /\ \A n \in Msg \ {m} : taker'[n] = taker[n]
    BY <1>5 DEF Connect, Out, TypeOK
  <2>2. PICK p : Goes(Out(m), p)
    BY <1>5 DEF Connect, Out
  <2>3. phase[In(m)] = "new"
    BY <2>1 DEF JobsInv, LinkInv
  <2>4. ASSUME NEW x \in Job, phase[x] # "new" PROVE Runs(x)' = Runs(x)
    <3>1. CASE x = Out(x[1])
      BY <3>1 DEF Runs, Out
    <3>2. CASE x = In(x[1]) /\ x[1] # m
      BY <2>1, <3>2, JobFacts DEF Runs, In
    <3>3. CASE x = In(m)
      BY <2>3, <2>4, <3>3
    <3> QED BY <3>1, <3>2, <3>3, JobFacts
  <2>5. phase[Out(m)] \notin Settled /\ phase[Out(m)] \notin Written
    BY <2>1 DEF Settled, Written, Recording
  <2> QED BY <1>3, <2>1, <2>2, <2>4, <2>5, JobFacts
<1>6. ASSUME NEW m \in Msg, Write(m) PROVE Goal
  <2>1. /\ phase[Out(m)] \in {"hello", "payload"} /\ UNCHANGED <<taker, path>>
        /\ \A n \in Msg \ {m} : wire'[n] = wire[n]
    BY <1>6 DEF Write, Out, TypeOK
  <2>2. PICK p : Goes(Out(m), p)
    BY <1>6 DEF Write, Out
  <2>3. wire[m] # 2
    <3>1. LinkInv(m)
      BY DEF JobsInv
    <3>2. wire[m] = 0 \/ wire[m] <= 1
      BY <2>1, <3>1 DEF LinkInv
    <3> QED BY <3>2
  <2>4. phase[Out(m)] \notin Settled /\ phase[Out(m)] \notin Written
    BY <2>1 DEF Settled, Written, Recording
  <2> QED BY <1>1, <1>3, <2>1, <2>2, <2>3, <2>4, JobFacts
<1>7. ASSUME NEW m \in Msg, ReadHello(m) \/ Greet(m) \/ ReadPayload(m) \/ ReadFails(m)
      PROVE  Goal
  <2>1. /\ phase[In(m)] \in {"new", "greet", "payload"}
        /\ UNCHANGED <<wire, taker, path>>
    BY <1>7 DEF ReadHello, Greet, ReadPayload, ReadFails, In
  <2>2. PICK p : Goes(In(m), p)
    BY <1>7 DEF ReadHello, Greet, ReadPayload, ReadFails, In
  <2>3. phase[In(m)] \notin Settled /\ phase[In(m)] \notin Written
    BY <2>1 DEF Settled, Written, Recording
  <2> QED BY <1>1, <1>3, <2>1, <2>2, <2>3, JobFacts
<1>8. ASSUME NEW m \in Msg, NameFile(m) PROVE Goal
  <2>1. /\ phase[In(m)] = "name file" /\ UNCHANGED <<wire, taker>>
        /\ \A n \in Msg \ {m} : path'[n] = path[n]
    BY <1>8 DEF NameFile, In, TypeOK
  <2>2. PICK p : Goes(In(m), p)
    BY <1>8 DEF NameFile, In
  <2>3. phase[In(m)] \notin Settled /\ phase[In(m)] \notin Written
    BY <2>1 DEF Settled, Written, Recording
  <2> QED BY <1>1, <1>3, <2>1, <2>2, <2>3, JobFacts
<1>9. ASSUME NEW m \in Msg, WriteFile(m) \/ PublishMessage(m) PROVE Goal
  <2>1. /\ phase[In(m)] \in {"write file", "publish"} /\ UNCHANGED <<wire, taker, path>>
    BY <1>9 DEF WriteFile, PublishMessage, In
  <2>2. PICK p : Goes(In(m), p) /\ (phase[In(m)] = "publish" => p = "done")
    BY <1>9 DEF WriteFile, PublishMessage, In
  <2>3. /\ phase[In(m)] \in Settled => p \in Settled
        /\ phase[In(m)] \in Written => p \in Written
    BY <2>1, <2>2 DEF Settled, Written, Recording
  <2> QED BY <1>1, <1>3, <2>1, <2>2, <2>3, JobFacts
<1>10. ASSUME NEW x \in Job, Record(x) PROVE Goal
  <2>1. phase[x] \in Recording /\ UNCHANGED <<wire, taker, path>>
    BY <1>10, RecordJob
  <2>2. PICK p \in Recording \cup {Recorded(x)} : Goes(x, p)
    BY <1>10, RecordJob
  <2>3. phase[x] \notin Settled /\ p \in Written
    BY <2>1, <2>2 DEF Settled, Written, Recording, Recorded
  <2> QED BY <1>1, <1>3, <2>1, <2>2, <2>3
<1>11. ASSUME NEW d \in Device, Kill(d) PROVE Goal
  <2>1. /\ \A x \in Job : phase'[x] = "over" \/ phase'[x] = phase[x]
        /\ UNCHANGED <<wire, taker, path>>
    BY <1>11 DEF Kill
  <2> QED BY <1>1, <2>1, JobFacts DEF Settled, Written
<1>12. ASSUME NEW m \in Msg, Break(m) PROVE Goal
  BY <1>2, <1>12 DEF Break
<1>13. CASE Tick \/ UNCHANGED vars
  BY <1>2, <1>13 DEF Tick, vars, jobs
<1> QED BY <1>4, <1>5, <1>6, <1>7, <1>8, <1>9, <1>10, <1>11, <1>12, <1>13, JobFacts
           DEF Next, Sending, Receiving, In, Out

\* No file is lost or written twice.
LEMMA FilesStep == ASSUME IInv, [Next]_vars PROVE FilesInv'
<1> TypeOK /\ JobsInv /\ FilesInv
  BY DEF IInv
<1>1. ASSUME NEW d \in Device, NEW k \in Saved, files[d][k] # NoDevice
      PROVE  LET m == files[d][k]
             IN m \in File /\ path'[m] = k /\ phase'[In(m)] \in Written
  <2>1. files[d][k] \in Msg
    BY <1>1, MessagingAssumption DEF FilesInv
  <2> QED BY <1>1, <2>1, Forward DEF FilesInv, Written
<1>2. CASE UNCHANGED files
  BY <1>1, <1>2 DEF FilesInv, Written
<1>3. ASSUME NEW m \in Msg, WriteFile(m) PROVE FilesInv'
  <2>1. phase[In(m)] = "write file" /\ taker[m] \in Device /\ path[m] \in Saved
    BY <1>3, TakerIsDevice DEF WriteFile, In, TypeOK
  <2>2. m \in File /\ path' = path
    BY <1>3, <2>1 DEF WriteFile, JobsInv, LinkInv
  <2>3. CASE files' = [files EXCEPT ![taker[m]][path[m]] = m] /\ Goes(In(m), ToRecord(In(m)))
    <3>1. phase'[In(m)] \in Written
      BY <2>3, GoesTo, JobFacts DEF TypeOK, ToRecord, Recorded, Written, Recording
    <3>2. ASSUME NEW d \in Device, NEW k \in Saved
          PROVE  files'[d][k] = IF d = taker[m] /\ k = path[m] THEN m ELSE files[d][k]
      BY <2>1, <2>3 DEF TypeOK
    <3> QED BY <1>1, <2>2, <3>1, <3>2 DEF FilesInv, Written
  <2> QED BY <1>2, <1>3, <2>3 DEF WriteFile, In
<1>4. UNCHANGED files \/ \E m \in Msg : WriteFile(m)
  <2>1. ASSUME NEW d \in Device, Discovery(d) \/ Move(d) \/ Kill(d) \/ Start(d)
        PROVE  UNCHANGED files
    BY <2>1 DEF Discovery, Beacon, PublishLeft, Hear, PublishJoined, Move, Kill, Start, store
  <2>2. ASSUME NEW m \in Msg, Connect(m) \/ Sending(m) \/ Break(m)
        PROVE  UNCHANGED files
    BY <2>2 DEF Connect, Sending, Write, Record, Break, store
  <2>3. ASSUME NEW m \in Msg, Receiving(m), ~WriteFile(m)
        PROVE  UNCHANGED files
    BY <2>3 DEF Receiving, ReadHello, Greet, ReadPayload, ReadFails, NameFile, PublishMessage,
                Record, store
  <2>4. ASSUME Tick \/ UNCHANGED vars PROVE UNCHANGED files
    BY <2>4 DEF Tick, vars, store
  <2> QED BY <2>1, <2>2, <2>3, <2>4 DEF Next
<1> QED BY <1>2, <1>3, <1>4

--------------------------------------------------------------------------------
(* The store *)

\* What fits a job still fits it when the tables have only grown.
LEMMA FitsStay ==
  ASSUME NEW x \in Job, Runs(x)' = Runs(x), NEW i,
         contacts[Runs(x)] \subseteq contacts'[Runs(x)],
         conversations[Runs(x)] \subseteq conversations'[Runs(x)]
  PROVE  /\ ContactFits(x, i) => ContactFits(x, i)'
         /\ ConversationFits(x, i) => ConversationFits(x, i)'
<1>1. Party(x)' = Party(x)
  BY DEF Party
<1>2. \A j : ContactFits(x, j) => ContactFits(x, j)'
  BY <1>1 DEF ContactFits
<1> QED BY <1>2 DEF ConversationFits

\* What a job remembers after a step.
LEMMA FitsNow ==
  ASSUME NEW x, NEW i, memo'[x] = i
  PROVE  /\ ContactFits(x, i)' => ContactFits(x, memo[x])'
         /\ ConversationFits(x, i)' => ConversationFits(x, memo[x])'
BY DEF ContactFits, ConversationFits

\* Phases in which a job has found something in the store.
Found == {"find conversation", "add conversation", "add message"}

\* Steps that leave the store alone.
LEMMA StoreKept ==
  ASSUME IInv, [Next]_vars, UNCHANGED <<memo, contacts, conversations, rows>>,
         \A x \in Job : phase'[x] \in Found => phase'[x] = phase[x]
  PROVE  StoreInv'
<1> TypeOK /\ JobsInv /\ StoreInv
  BY DEF IInv
<1>1. ASSUME NEW x \in Job, phase[x] # "new", NEW i
      PROVE  /\ ContactFits(x, i) => ContactFits(x, i)'
             /\ ConversationFits(x, i) => ConversationFits(x, i)'
  BY <1>1, Forward, FitsStay
<1>2. ASSUME NEW d \in Device, NEW r \in rows[d]
      PROVE  /\ Runs(r.job)' = d /\ phase'[r.job] \in Settled
             /\ ConversationFits(r.job, r.conversation)'
             /\ r.job[2] = "in" => wire'[r.job[1]] = 2
  <2>1. r.job \in Job /\ r.job[1] \in Msg
    BY JobFacts DEF TypeOK
  <2>2. phase[r.job] \in Settled /\ phase[r.job] # "new"
    BY DEF StoreInv, Settled
  <2>3. /\ Runs(r.job) = d /\ ConversationFits(r.job, r.conversation)
        /\ r.job[2] = "in" => wire[r.job[1]] = 2
    BY DEF StoreInv
  <2>4. /\ Runs(r.job)' = d /\ phase'[r.job] \in Settled
        /\ r.job[2] = "in" => wire'[r.job[1]] = 2
    BY <2>1, <2>2, <2>3, Forward
  <2>5. PICK x, i : x \in Job /\ x = r.job /\ i = r.conversation
    BY <2>1
  <2>6. ConversationFits(x, i)'
    BY <1>1, <2>2, <2>3, <2>5
  <2> QED BY <2>4, <2>5, <2>6
<1>3. ASSUME NEW x \in Job
      PROVE  /\ phase'[x] \in {"find conversation", "add conversation"} => ContactFits(x, memo[x])'
             /\ phase'[x] = "add message" => ConversationFits(x, memo[x])'
  <2>1. PICK i : i = memo[x]
    OBVIOUS
  <2>2. /\ ContactFits(x, i)' => ContactFits(x, memo[x])'
        /\ ConversationFits(x, i)' => ConversationFits(x, memo[x])'
    BY <2>1, FitsNow
  <2>3. /\ phase[x] \in {"find conversation", "add conversation"} => ContactFits(x, i)
        /\ phase[x] = "add message" => ConversationFits(x, i)
    BY <2>1 DEF StoreInv
  <2>4. phase'[x] \in Found => phase'[x] = phase[x] /\ phase[x] # "new"
    BY DEF Found
  <2> QED BY <1>1, <2>2, <2>3, <2>4 DEF Found
<1> QED BY <1>2, <1>3 DEF StoreInv, Settled

\* A query adds to the tables of the device it runs on.
LEMMA RecordGrows ==
  ASSUME TypeOK, JobsInv, NEW x \in Job, Record(x), NEW d \in Device
  PROVE  /\ contacts[d] \subseteq contacts'[d]
         /\ conversations[d] \subseteq conversations'[d]
         /\ rows[d] \subseteq rows'[d]
<1>1. \/ UNCHANGED <<contacts, conversations, rows>>
      \/ AddContact(x) \/ AddConversation(x) \/ AddMessage(x)
  BY DEF Record, FindContact, FindConversation, RecordFails
<1>2. CASE AddContact(x)
  <2>1. contacts' = contacts \/ \E c : contacts' = [contacts EXCEPT ![Runs(x)] = @ \cup {c}]
    BY <1>2 DEF AddContact, RecordFails
  <2>2. UNCHANGED <<conversations, rows>>
    BY <1>2 DEF AddContact, RecordFails
  <2>3. contacts[d] \subseteq contacts'[d]
    <3>1. d \in DOMAIN contacts
      BY DEF TypeOK
    <3>2. CASE contacts' = contacts
      BY <3>2
    <3>3. ASSUME NEW c, contacts' = [contacts EXCEPT ![Runs(x)] = @ \cup {c}]
          PROVE  contacts[d] \subseteq contacts'[d]
      BY <3>1, <3>3
    <3> QED BY <2>1, <3>2, <3>3
  <2> QED BY <2>2, <2>3
<1>3. CASE AddConversation(x)
  <2>1. \E c : conversations' = [conversations EXCEPT ![Runs(x)] = @ \cup {c}]
    BY <1>3 DEF AddConversation
  <2> QED BY <1>3, <2>1 DEF AddConversation, TypeOK
<1>4. CASE AddMessage(x)
  <2>1. \E c : rows' = [rows EXCEPT ![Runs(x)] = @ \cup {c}]
    BY <1>4 DEF AddMessage
  <2> QED BY <1>4, <2>1 DEF AddMessage, TypeOK
<1> QED BY <1>1, <1>2, <1>3, <1>4

\* What a query finds or adds fits its job.
LEMMA RecordFits ==
  ASSUME TypeOK, JobsInv, StoreInv, NEW x \in Job, Record(x)
  PROVE  /\ phase'[x] \in {"find conversation", "add conversation"} => ContactFits(x, memo[x])'
         /\ phase'[x] = "add message" => ConversationFits(x, memo[x])'
<1> DEFINE d == Runs(x)
<1> SUFFICES ASSUME NEW i, memo'[x] = i
             PROVE  /\ phase'[x] \in {"find conversation", "add conversation"} => ContactFits(x, i)'
                    /\ phase'[x] = "add message" => ConversationFits(x, i)'
  BY FitsNow
<1>1. /\ d \in Device /\ Runs(x)' = d /\ Party(x)' = Party(x)
      /\ memo \in [Job -> Nat] /\ phase \in [Job -> Phase]
  BY RecordJob DEF Runs, Party, TypeOK
<1>2. /\ contacts[d] \subseteq [id : Nat, device : Device]
      /\ conversations[d] \subseteq [id : Nat, contact : Nat]
  BY <1>1 DEF TypeOK
<1>3. ASSUME NEW j
      PROVE  /\ ContactFits(x, j) => ContactFits(x, j)'
             /\ ConversationFits(x, j) => ConversationFits(x, j)'
  BY <1>1, RecordGrows, FitsStay
<1>4. ASSUME NEW p, Goes(x, p) PROVE phase'[x] = p
  BY <1>1, <1>4, GoesTo
<1>5. ASSUME NEW j, memo' = [memo EXCEPT ![x] = j] PROVE i = j
  BY <1>1, <1>5
<1>6. ASSUME Goes(x, Recorded(x))
      PROVE  phase'[x] \notin Found
  BY <1>4, <1>6 DEF Recorded, Found
<1>7. CASE FindContact(x)
  <2> DEFINE found == {c \in contacts[d] : c.device = Party(x)}
  <2>1. CASE found = {}
    <3>1. phase'[x] = "add contact"
      BY <1>4, <1>7, <2>1 DEF FindContact, Has
    <3> QED BY <3>1
  <2>2. CASE found # {}
    <3>1. phase'[x] = "find conversation" /\ i = First(found).id
      BY <1>4, <1>5, <1>7, <2>2 DEF FindContact, Has
    <3>2. \A r \in found : r.id \in Nat
      BY <1>2
    <3>3. First(found) \in found
      <4> HIDE DEF found
      <4> QED BY <2>2, <3>2, FirstIsThere
    <3>4. ContactFits(x, First(found).id)
      BY <3>3 DEF ContactFits
    <3> HIDE DEF found
    <3> QED BY <1>3, <3>1, <3>4
  <2> QED BY <2>1, <2>2
<1>8. CASE AddContact(x)
  <2>1. CASE RecordFails(x)
    BY <1>6, <2>1 DEF RecordFails, Found
  <2>2. CASE ~RecordFails(x)
    <3> DEFINE c == [id |-> FreshId(contacts[d]), device |-> Party(x)]
    <3>1. /\ phase'[x] = "find conversation" /\ i = FreshId(contacts[d])
          /\ contacts' = [contacts EXCEPT ![d] = @ \cup {c}]
      BY <1>4, <1>5, <1>8, <2>2 DEF AddContact, Has
    <3>2. c \in contacts'[d]
      <4> HIDE DEF c, d
      <4> QED BY <1>1, <3>1 DEF TypeOK
    <3>3. c.id = i /\ c.device = Party(x)
      BY <3>1
    <3>4. ContactFits(x, i)'
      <4> HIDE DEF c, d
      <4> QED BY <1>1, <3>2, <3>3 DEF ContactFits
    <3> QED BY <3>1, <3>4
  <2> QED BY <2>1, <2>2
<1>9. CASE FindConversation(x)
  <2> DEFINE found == {v \in conversations[d] : v.contact = memo[x]}
  <2>1. ContactFits(x, memo[x])
    BY <1>9 DEF FindConversation, StoreInv
  <2>2. CASE found = {}
    <3>1. phase'[x] = "add conversation" /\ i = memo[x]
      BY <1>4, <1>5, <1>9, <2>2 DEF FindConversation, Has
    <3> QED BY <1>3, <2>1, <3>1
  <2>3. CASE found # {}
    <3>1. phase'[x] = "add message" /\ i = First(found).id
      BY <1>4, <1>5, <1>9, <2>3 DEF FindConversation, Has
    <3>2. \A r \in found : r.id \in Nat
      BY <1>2
    <3>3. First(found) \in found
      <4> HIDE DEF found
      <4> QED BY <2>3, <3>2, FirstIsThere
    <3>4. ConversationFits(x, First(found).id)
      BY <2>1, <3>3 DEF ConversationFits
    <3> HIDE DEF found
    <3> QED BY <1>3, <3>1, <3>4
  <2> QED BY <2>2, <2>3
<1>10. CASE AddConversation(x)
  <2> DEFINE v == [id |-> FreshId(conversations[d]), contact |-> memo[x]]
  <2>1. /\ phase'[x] = "add message" /\ i = FreshId(conversations[d])
        /\ conversations' = [conversations EXCEPT ![d] = @ \cup {v}]
    BY <1>4, <1>5, <1>10 DEF AddConversation, Has
  <2>2. v \in conversations'[d]
    <3> HIDE DEF v, d
    <3> QED BY <1>1, <2>1 DEF TypeOK
  <2>3. ContactFits(x, memo[x])
    BY <1>10 DEF AddConversation, StoreInv
  <2>4. PICK j : j = memo[x]
    OBVIOUS
  <2>5. v.id = i /\ v.contact = j
    BY <2>1, <2>4
  <2>6. ContactFits(x, j)'
    BY <1>3, <2>3, <2>4
  <2>7. ConversationFits(x, i)'
    <3> HIDE DEF v, d
    <3> QED BY <1>1, <2>2, <2>5, <2>6 DEF ConversationFits
  <2> QED BY <2>1, <2>7
<1>11. CASE AddMessage(x) \/ RecordFails(x)
  BY <1>6, <1>11 DEF AddMessage, RecordFails, Found
<1> QED BY <1>7, <1>8, <1>9, <1>10, <1>11 DEF Record

\* A device has one contact for every other.
LEMMA RecordContacts ==
  ASSUME TypeOK, JobsInv, StoreInv, NEW x \in Job, Record(x), NEW d \in Device
  PROVE  /\ IsFiniteSet(contacts'[d]) /\ IsFiniteSet(conversations'[d]) /\ IsFiniteSet(rows'[d])
         /\ \A c, other \in contacts'[d] : other.device = c.device => other = c
<1>1. IsFiniteSet(contacts[d]) /\ IsFiniteSet(conversations[d]) /\ IsFiniteSet(rows[d])
  BY DEF StoreInv
<1>2. \A c, other \in contacts[d] : other.device = c.device => other = c
  BY DEF StoreInv
<1>3. CASE UNCHANGED <<contacts, conversations, rows>>
  BY <1>1, <1>2, <1>3
<1>4. CASE AddContact(x) /\ ~RecordFails(x)
  <2>1. PICK c : /\ contacts' = [contacts EXCEPT ![Runs(x)] = @ \cup {c}]
                 /\ \A other \in contacts[Runs(x)] : other.device # c.device
                 /\ UNCHANGED <<conversations, rows>>
    <3> DEFINE c == [id |-> FreshId(contacts[Runs(x)]), device |-> Party(x)]
    <3>1. /\ contacts' = [contacts EXCEPT ![Runs(x)] = @ \cup {c}]
          /\ \A other \in contacts[Runs(x)] : other.device # Party(x)
          /\ UNCHANGED <<conversations, rows>>
      BY <1>4 DEF AddContact
    <3>2. c.device = Party(x)
      OBVIOUS
    <3> HIDE DEF c
    <3> QED BY <3>1, <3>2
  <2>2. CASE d = Runs(x)
    <3>1. contacts'[d] = contacts[d] \cup {c}
      BY <2>1, <2>2 DEF TypeOK
    <3>2. IsFiniteSet(contacts'[d])
      BY <1>1, <3>1, FS_AddElement
    <3> QED BY <1>1, <1>2, <2>1, <2>2, <3>1, <3>2
  <2>3. CASE d # Runs(x)
    <3>1. contacts'[d] = contacts[d]
      BY <2>1, <2>3 DEF TypeOK
    <3> QED BY <1>1, <1>2, <2>1, <3>1
  <2> QED BY <2>2, <2>3
<1>5. CASE AddConversation(x)
  <2>1. PICK v : /\ conversations' = [conversations EXCEPT ![Runs(x)] = @ \cup {v}]
                 /\ UNCHANGED <<contacts, rows>>
    BY <1>5 DEF AddConversation
  <2>2. conversations'[d] = conversations[d] \/ conversations'[d] = conversations[d] \cup {v}
    BY <2>1 DEF TypeOK
  <2>3. IsFiniteSet(conversations'[d])
    BY <1>1, <2>2, FS_AddElement
  <2> QED BY <1>1, <1>2, <2>1, <2>3
<1>6. CASE AddMessage(x)
  <2>1. PICK r : /\ rows' = [rows EXCEPT ![Runs(x)] = @ \cup {r}]
                 /\ UNCHANGED <<contacts, conversations>>
    BY <1>6 DEF AddMessage
  <2>2. rows'[d] = rows[d] \/ rows'[d] = rows[d] \cup {r}
    BY <2>1 DEF TypeOK
  <2>3. IsFiniteSet(rows'[d])
    BY <1>1, <2>2, FS_AddElement
  <2> QED BY <1>1, <1>2, <2>1, <2>3
<1> QED BY <1>3, <1>4, <1>5, <1>6 DEF Record, FindContact, FindConversation, RecordFails

\* Every row is of one job, which is past its recording.
LEMMA RecordRows ==
  ASSUME IInv, [Next]_vars, NEW x \in Job, Record(x), NEW d \in Device, NEW r \in rows'[d]
  PROVE  /\ Runs(r.job)' = d /\ phase'[r.job] \in Settled
         /\ ConversationFits(r.job, r.conversation)'
         /\ r.job[2] = "in" => wire'[r.job[1]] = 2
         /\ \A q \in rows'[d] : q.job = r.job => q = r
<1> TypeOK /\ JobsInv /\ StoreInv
  BY DEF IInv
<1>1. /\ phase[x] \in Recording /\ UNCHANGED <<taker, wire>> /\ Runs(x) \in Device
      /\ phase[x] \notin Settled /\ phase[x] # "new"
  BY RecordJob DEF Settled, Recording
<1>2. \A i : \A y \in Job :
         /\ Runs(y)' = Runs(y)
         /\ Runs(y) \in Device /\ ConversationFits(y, i) => ConversationFits(y, i)'
  <2>1. ASSUME NEW y \in Job, NEW i
        PROVE  /\ Runs(y)' = Runs(y)
               /\ Runs(y) \in Device /\ ConversationFits(y, i) => ConversationFits(y, i)'
    <3>1. Runs(y)' = Runs(y)
      BY <1>1 DEF Runs
    <3> QED BY <3>1, RecordGrows, FitsStay
  <2> QED BY <2>1
<1>3. ASSUME NEW q \in rows[d]
      PROVE  /\ q.job \in Job /\ q.job # x
             /\ Runs(q.job)' = d /\ phase'[q.job] \in Settled
             /\ ConversationFits(q.job, q.conversation)'
             /\ q.job[2] = "in" => wire'[q.job[1]] = 2
             /\ \A other \in rows[d] : other.job = q.job => other = q
  <2>1. q.job \in Job
    BY DEF TypeOK
  <2>2. /\ Runs(q.job) = d /\ phase[q.job] \in Settled
        /\ ConversationFits(q.job, q.conversation)
        /\ q.job[2] = "in" => wire[q.job[1]] = 2
        /\ \A other \in rows[d] : other.job = q.job => other = q
    BY DEF StoreInv, Settled
  <2>3. q.job # x
    BY <1>1, <2>2
  <2>4. PICK y, i : y \in Job /\ y = q.job /\ i = q.conversation
    BY <2>1
  <2>5. ConversationFits(y, i)' /\ Runs(y)' = d
    BY <1>2, <2>2, <2>4
  <2>6. phase'[y] \in Settled
    BY <2>2, <2>4, Forward
  <2> QED BY <1>1, <2>1, <2>2, <2>3, <2>4, <2>5, <2>6
<1>4. CASE rows' = rows
  BY <1>3, <1>4
<1>5. CASE rows' # rows
  <2>1. AddMessage(x)
    BY <1>5 DEF Record, FindContact, AddContact, FindConversation, AddConversation, RecordFails
  <2> DEFINE new == [id |-> FreshId(rows[Runs(x)]), conversation |-> memo[x], job |-> x]
  <2>2. /\ phase[x] = "add message" /\ Goes(x, Recorded(x))
        /\ rows' = [rows EXCEPT ![Runs(x)] = @ \cup {new}]
    BY <2>1 DEF AddMessage
  <2>3. new.job = x /\ new.conversation = memo[x]
    OBVIOUS
  <2> HIDE DEF new
  <2>4. CASE r \in rows[d] /\ d # Runs(x)
    BY <1>3, <2>2, <2>4 DEF TypeOK
  <2>5. CASE r \in rows[d] /\ d = Runs(x)
    <3>1. rows'[d] = rows[d] \cup {new}
      BY <1>1, <2>2, <2>5 DEF TypeOK
    <3> QED BY <1>3, <2>3, <2>5, <3>1
  <2>6. CASE r \notin rows[d]
    <3>1. d = Runs(x) /\ r = new /\ rows'[d] = rows[d] \cup {new}
      BY <1>1, <2>2, <2>6 DEF TypeOK
    <3>2. \A q \in rows'[d] : q.job = r.job => q = r
      BY <1>3, <2>3, <3>1
    <3>3. phase'[x] \in Settled
      BY <2>2, GoesTo DEF TypeOK, Recorded, Settled
    <3>4. PICK i : i = memo[x]
      OBVIOUS
    <3>5. ConversationFits(x, i)'
      BY <1>1, <1>2, <2>2, <3>4 DEF StoreInv
    <3>6. x[2] = "in" => wire'[x[1]] = 2
      <4>1. CASE x = In(x[1])
        BY <1>1, <4>1, JobFacts DEF JobsInv, LinkInv, Whole
      <4>2. CASE x = Out(x[1])
        BY <4>2 DEF Out
      <4> QED BY <4>1, <4>2, JobFacts
    <3> QED BY <1>2, <2>3, <3>1, <3>2, <3>3, <3>4, <3>5, <3>6
  <2> QED BY <2>4, <2>5, <2>6
<1> QED BY <1>4, <1>5

\* Every query keeps the store true.
LEMMA RecordStore ==
  ASSUME IInv, [Next]_vars, NEW x \in Job, Record(x)
  PROVE  StoreInv'
<1> TypeOK /\ JobsInv /\ StoreInv
  BY DEF IInv
<1>1. ASSUME NEW y \in Job
      PROVE  /\ phase'[y] \in {"find conversation", "add conversation"} => ContactFits(y, memo[y])'
             /\ phase'[y] = "add message" => ConversationFits(y, memo[y])'
  <2>1. CASE y = x
    BY <2>1, RecordFits
  <2>2. CASE y # x
    <3>1. phase'[y] = phase[y]
      BY <2>2, RecordJob, GoesTo DEF TypeOK
    <3>2. memo'[y] = memo[y]
      BY <2>2 DEF Record, FindContact, AddContact, FindConversation, AddConversation, AddMessage,
                  Has, RecordFails, TypeOK
    <3>3. Runs(y)' = Runs(y)
      BY RecordJob DEF Runs
    <3>4. PICK i : i = memo[y]
      OBVIOUS
    <3>5. phase[y] # "new" => /\ ContactFits(y, i) => ContactFits(y, i)'
                              /\ ConversationFits(y, i) => ConversationFits(y, i)'
      BY <3>3, RunsOnDevice, RecordGrows, FitsStay
    <3>6. /\ ContactFits(y, i)' => ContactFits(y, memo[y])'
          /\ ConversationFits(y, i)' => ConversationFits(y, memo[y])'
      BY <3>2, <3>4, FitsNow
    <3>7. /\ phase[y] \in {"find conversation", "add conversation"} => ContactFits(y, i)
          /\ phase[y] = "add message" => ConversationFits(y, i)
      BY <3>4 DEF StoreInv
    <3> QED BY <3>1, <3>5, <3>6, <3>7
  <2> QED BY <2>1, <2>2
<1> QED BY <1>1, RecordContacts, RecordRows DEF StoreInv, Settled

\* Every step keeps the store true.
LEMMA StoreStep == ASSUME IInv, [Next]_vars PROVE StoreInv'
<1> phase \in [Job -> Phase]
  BY DEF IInv, TypeOK
<1>1. ASSUME UNCHANGED <<memo, contacts, conversations, rows, phase>> PROVE StoreInv'
  BY <1>1, StoreKept
<1>2. ASSUME UNCHANGED <<memo, contacts, conversations, rows>>, NEW x \in Job, NEW p, p \notin Found,
             Goes(x, p)
      PROVE  StoreInv'
  <2>1. \A y \in Job : phase'[y] \in Found => phase'[y] = phase[y]
    BY <1>2, GoesTo
  <2> QED BY <1>2, <2>1, StoreKept
<1>3. ASSUME NEW d \in Device, Discovery(d) \/ Start(d) \/ Move(d) PROVE StoreInv'
  <2>1. UNCHANGED <<memo, contacts, conversations, rows, phase>>
    BY <1>3 DEF Discovery, Beacon, PublishLeft, Hear, PublishJoined, Start, Move, jobs, store
  <2> QED BY <1>1, <2>1
<1>4. ASSUME NEW m \in Msg, Connect(m) \/ Write(m) PROVE StoreInv'
  <2>1. UNCHANGED <<memo, contacts, conversations, rows>>
    BY <1>4 DEF Connect, Write, store
  <2>2. \E p \in {"hello", "over", "payload", ToRecord(Out(m))} : Goes(Out(m), p)
    BY <1>4 DEF Connect, Write, Out
  <2>3. {"hello", "over", "payload", ToRecord(Out(m))} \cap Found = {}
    BY DEF ToRecord, Recorded, Found
  <2> QED BY <1>2, <2>1, <2>2, <2>3, JobFacts
<1>5. ASSUME NEW m \in Msg,
             \/ ReadHello(m) \/ Greet(m) \/ ReadPayload(m) \/ ReadFails(m)
             \/ NameFile(m) \/ WriteFile(m) \/ PublishMessage(m)
      PROVE  StoreInv'
  <2> DEFINE P == {"greet", "payload", "over", "name file", "write file", "done", ToRecord(In(m))}
  <2>1. UNCHANGED <<memo, contacts, conversations, rows>>
    BY <1>5 DEF ReadHello, Greet, ReadPayload, ReadFails, NameFile, WriteFile, PublishMessage, store
  <2>2. \E p \in P : Goes(In(m), p)
    BY <1>5 DEF ReadHello, Greet, ReadPayload, ReadFails, NameFile, WriteFile, PublishMessage, In
  <2>3. P \cap Found = {}
    BY DEF ToRecord, Recorded, Found
  <2> HIDE DEF P
  <2> QED BY <1>2, <2>1, <2>2, <2>3, JobFacts
<1>6. ASSUME NEW d \in Device, Kill(d) PROVE StoreInv'
  <2>1. \A y \in Job : phase'[y] \in Found => phase'[y] = phase[y]
    BY <1>6 DEF Kill, Found
  <2> QED BY <1>6, <2>1, StoreKept DEF Kill, store
<1>7. ASSUME NEW m \in Msg, Break(m) PROVE StoreInv'
  BY <1>1, <1>7 DEF Break, store
<1>8. CASE Tick \/ UNCHANGED vars
  BY <1>1, <1>8 DEF Tick, vars, jobs, store
<1> QED BY <1>3, <1>4, <1>5, <1>6, <1>7, <1>8, RecordStore, JobFacts
           DEF Next, Sending, Receiving, In, Out

--------------------------------------------------------------------------------
(* The theorems *)

\* The invariant holds at the start.
LEMMA InitInv == Init => IInv
<1> SUFFICES ASSUME Init PROVE IInv
  OBVIOUS
<1>1. 0 \in Saved
  BY FS_CardinalityType, MessagingAssumption DEF Saved
<1>2. TypeOK
  <2>1. /\ peers \in [Device -> [Device -> {NoPeer} \cup [addr : Ip, age : 0 .. StaleAfter + 1]]]
        /\ told \in [Device -> [Device -> -1 .. 2]]
    BY DEF Init
  <2>2. /\ up \in [Device -> BOOLEAN] /\ at \in [Device -> Ip \cup {Nowhere}]
        /\ inbox \in [Device -> SUBSET [from : Device, ip : Ip]]
        /\ ticker \in [Device -> Ticking] /\ leaving \in [Device -> SUBSET Device]
        /\ hearing \in [Device -> {NoPeer} \cup [from : Device, ip : Ip]]
    BY MessagingAssumption DEF Init, Ticking
  <2>3. JobsType
    BY <1>1 DEF Init, JobsType, Phase
  <2>4. StoreType
    BY DEF Init, StoreType
  <2>5. upsets \in 0 .. MaxUpsets
    BY MessagingAssumption DEF Init
  <2> QED BY <2>1, <2>2, <2>3, <2>4, <2>5 DEF TypeOK, JobsType, StoreType
<1>3. EventsInv
  <2>1. ASSUME NEW d \in Device, NEW e \in Device PROVE PairInv(d, e)
    <3>1. Greeting(d, e) = {}
      BY DEF Init, Greeting, Job
    <3>2. told[d][e] = 0 /\ Listed(d, e) = 0 /\ leaving[d] = {} /\ ~Heard(d, e)
      BY DEF Init, Listed, Heard
    <3> QED BY <3>1, <3>2, FS_EmptySet DEF PairInv
  <2>2. ASSUME NEW d \in Device PROVE TickerInv(d)
    BY DEF Init, TickerInv
  <2> QED BY <2>1, <2>2 DEF EventsInv
<1>4. JobsInv
  <2>1. ASSUME NEW m \in Msg PROVE LinkInv(m)
    BY JobFacts DEF Init, LinkInv, Whole, Recording
  <2> QED BY <2>1 DEF Init, JobsInv
<1>5. FilesInv
  BY DEF Init, FilesInv
<1>6. StoreInv
  BY FS_EmptySet DEF Init, StoreInv
<1> QED BY <1>2, <1>3, <1>4, <1>5, <1>6 DEF IInv

\* The invariant that the properties follow from: types, the balance of events
\* for every pair of devices, connections and what was read from them, one name
\* for every file, and a store whose contacts, conversations and rows belong to
\* the jobs that wrote them.
THEOREM Invariance == Spec => []IInv
<1>1. IInv /\ [Next]_vars => IInv'
  BY TypeStep, EventsStep, JobsStep, FilesStep, StoreStep DEF IInv
<1> QED BY InitInv, <1>1, PTL DEF Spec

\* PeerJoined and PeerLeft are published once for every change of the peer table.
THEOREM EventsBalanceHolds == Spec => []EventsBalance
<1>1. IInv => EventsBalance
  BY DEF IInv, EventsInv, PairInv, Heard, EventsBalance
<1> QED BY Invariance, <1>1, PTL

\* The history that a device keeps is of messages that were sent, in the
\* conversation with their other end.
THEOREM HistoryIsTrueHolds == Spec => []HistoryIsTrue
<1>1. ASSUME IInv PROVE HistoryIsTrue
  <2> TypeOK /\ StoreInv
    BY <1>1 DEF IInv
  <2>1. ASSUME NEW d \in Device, NEW r \in rows[d]
        PROVE  \E v \in conversations[d], c \in contacts[d] :
                  /\ v.id = r.conversation /\ c.id = v.contact /\ c.device = Party(r.job)
                  /\ \A other \in contacts[d] : other.device = c.device => other = c
    <3>1. Runs(r.job) = d /\ ConversationFits(r.job, r.conversation)
      BY DEF StoreInv
    <3>2. PICK v \in conversations[d] : v.id = r.conversation /\ ContactFits(r.job, v.contact)
      BY <3>1 DEF ConversationFits
    <3>3. PICK c \in contacts[d] : c.id = v.contact /\ c.device = Party(r.job)
      BY <3>1, <3>2 DEF ContactFits
    <3>4. \A other \in contacts[d] : other.device = c.device => other = c
      BY <3>1, <3>3 DEF StoreInv
    <3> QED BY <3>1, <3>2, <3>3, <3>4
  <2>2. ASSUME NEW d \in Device, NEW r \in rows[d]
        PROVE  /\ Runs(r.job) = d
               /\ \A q \in rows[d] : q.job = r.job => q = r
               /\ r.job[2] = "in" => wire[r.job[1]] = 2
    BY DEF StoreInv
  <2> QED BY <2>1, <2>2 DEF HistoryIsTrue
<1> QED BY Invariance, <1>1, PTL
================================================================================
