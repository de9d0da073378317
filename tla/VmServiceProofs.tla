---------------------------- MODULE VmServiceProofs ----------------------------
(***************************************************************************)
(* What holds of a VM daemon for every number of requests, machines,       *)
(* retries and restarts, proved: what a create, a destroy and a cleanup    *)
(* that were answered stand for at the provider.                           *)
(***************************************************************************)
EXTENDS VmService, FiniteSetTheorems, TLAPS

Request == [op : Op, id : Id \cup {NoId}, via : {"http", "ipc"},
            stage : Waiting \cup Over \cup {"idle"},
            route : 1..3, attempt : 1..MaxRetries + 1,
            polls : 0..HealthPolls - 1, misses : 0..MissesToReady - 1,
            reply : {"ok", "error"},
            snap : SUBSET Id, left : SUBSET Id, there : SUBSET Id,
            listed : BOOLEAN, errors : BOOLEAN]

Used == {i \in Id : vm[i] # "free"}
Gone == {i \in Id : vm[i] = "gone"}

(* A machine was made by one request, under that request's key, the only one *)
(* of that key, and its id is not handed out again.                        *)
MadeInv ==
  /\ madeBy \in [Id -> {{}} \cup {{[key |-> <<r>>, by |-> r]} : r \in Req}]
  /\ \A i \in Id : madeBy[i] # {} => vm[i] # "free"
  /\ \A i, j \in Id : madeBy[i] # {} /\ madeBy[i] = madeBy[j] => i = j

(* Request c names machines that were made.                                 *)
Named(c, used) ==
  /\ c.id \in used \cup {NoId} /\ c.snap \subseteq used /\ c.left \subseteq used
  /\ c.stage # "idle" /\ c.op \in {"destroy", "pause", "resume", "use"} => c.id \in used
  /\ c.stage \in {"call", "back"} /\ c.op = "cleanup" => c.id \in used
  /\ c.stage \in {"back", "done"} /\ c.op = "create" /\ c.reply = "ok" => c.id \in used
  /\ c.stage \in {"poll", "track"} => c.op = "create" /\ c.id \in used
  /\ c.stage \in {"sweep", "list", "raw"} => c.op = "cleanup"

(* A call that destroys only leaves a route the provider does not know, and  *)
(* is answered "ok" for a machine that is gone.                            *)
Destroys(c, gone) ==
  /\ CallOp(c) = "destroy" /\ c.stage = "call" =>
       \A k \in 1..c.route - 1 : <<"destroy", Routes("destroy")[k]>> \notin Serves
  /\ CallOp(c) = "destroy" /\ c.stage = "back" /\ c.reply = "ok" => c.id \in gone
  /\ c.op = "destroy" /\ c.stage = "done" /\ c.reply = "ok" => c.id \in gone

(* A cleanup has destroyed what it has gone past, or knows of an error.      *)
Cleans(c, gone) ==
  c.op = "cleanup" =>
    /\ c.stage \in {"check", "sweep", "call", "back", "list"} => ~c.listed
    /\ c.stage \in {"sweep", "call", "back"} => c.errors \/ c.snap \subseteq c.left \cup gone
    /\ c.stage = "list" => c.errors \/ c.snap \subseteq gone
    /\ c.stage = "raw" => c.errors \/ c.there \subseteq c.left \cup gone
    /\ c.stage = "done" /\ c.listed => c.errors \/ c.there \subseteq gone

BaseInv ==
  /\ vm \in [Id -> {"free", "running", "paused", "gone"}]
  /\ sessions \subseteq Used
  /\ req \in [Req -> Request]
  /\ restarts \in 0..MaxRestarts
  /\ MadeInv
  /\ \A r \in Req : Named(req[r], Used)

IInv ==
  BaseInv /\ \A r \in Req : Destroys(req[r], Gone) /\ Cleans(req[r], Gone)
--------------------------------------------------------------------------------
(* The calls of the client. *)

(* An operation has two or three routes. *)
LEMMA RoutesAre ==
  ASSUME NEW op \in Op
  PROVE  /\ Len(Routes(op)) \in {2, 3}
         /\ \A k \in 1..Len(Routes(op)) : Routes(op)[k] \in Route
<1>1. CASE op = "create"
  BY <1>1 DEF Routes, Route
<1>2. CASE op = "destroy"
  BY <1>2 DEF Routes, Route
<1>3. CASE op \notin {"create", "destroy"}
  BY <1>3 DEF Routes, Route, Op
<1> QED
  BY <1>1, <1>2, <1>3

(* After an attempt a request stands at the call again, or it is back.       *)
LEMMA AfterIs ==
  ASSUME NEW c \in Request, c.stage = "call", NEW i \in Id \cup {NoId}, NEW reply \in Reply
  PROVE  LET d == After(c, i, reply) IN
         /\ d \in Request
         /\ d.op = c.op /\ d.via = c.via /\ d.snap = c.snap /\ d.left = c.left
         /\ d.there = c.there /\ d.listed = c.listed /\ d.errors = c.errors
         /\ \/ /\ d.stage = "call" /\ d.id = c.id
               /\ d.route = c.route \/ (reply = "not_found" /\ d.route = c.route + 1)
            \/ /\ d.stage = "back" /\ d.id = i /\ d.reply = Outcome(c, reply)
               /\ ~FallsBack(c, reply)
<1> DEFINE d == After(c, i, reply)
<1>0. Len(Routes(CallOp(c))) \in {2, 3}
  BY RoutesAre DEF CallOp, Op, Request
<1> MaxRetries \in Nat
  BY VmAssumption
<1> 1 \in 1..3 /\ 1 \in 1..MaxRetries + 1
  OBVIOUS
<1> c.route \in 1..3 /\ c.attempt \in 1..MaxRetries + 1
  BY DEF Request
<1>1. CASE Retries(c, reply)
  <2>1. d = [c EXCEPT !.attempt = @ + 1]
    BY <1>1 DEF After, Retries
  <2> QED
    BY <2>1, <1>1 DEF Request, Retries
<1>2. CASE ~Retries(c, reply) /\ FallsBack(c, reply)
  <2>1. d = [c EXCEPT !.route = @ + 1, !.attempt = 1]
    BY <1>2 DEF After
  <2>2. c.route + 1 \in 1..3
    <3>1. c.route < Len(Routes(CallOp(c)))
      BY <1>2 DEF FallsBack
    <3>2. PICK n \in {2, 3} : c.route < n
      BY <1>0, <3>1
    <3> QED
      BY <3>2
  <2> QED
    <3>1. d \in Request
      BY <2>1, <2>2 DEF Request
    <3>2. d.route = c.route + 1 /\ reply = "not_found" /\ d.stage = c.stage /\ d.id = c.id
      BY <2>1, <1>2 DEF Request, FallsBack
    <3> QED
      BY <2>1, <3>1, <3>2 DEF Request
<1>3. CASE ~Retries(c, reply) /\ ~FallsBack(c, reply)
  <2>1. d = [c EXCEPT !.stage = "back", !.reply = Outcome(c, reply),
                   !.id = i, !.route = 1, !.attempt = 1]
    BY <1>3 DEF After
  <2>2. Outcome(c, reply) \in {"ok", "error"}
    BY DEF Outcome
  <2> DEFINE e == [c EXCEPT !.stage = "back", !.reply = Outcome(c, reply), !.id = i]
  <2>5. e \in Request
    BY <2>2 DEF Request, Waiting
  <2>6. d = [e EXCEPT !.route = 1, !.attempt = 1]
    BY <2>1
  <2>3. d \in Request
    BY <2>5, <2>6 DEF Request
  <2>4. /\ d.op = c.op /\ d.via = c.via /\ d.snap = c.snap /\ d.left = c.left
        /\ d.there = c.there /\ d.listed = c.listed /\ d.errors = c.errors
        /\ d.stage = "back" /\ d.id = i /\ d.reply = Outcome(c, reply)
    BY <2>1 DEF Request
  <2> QED
    BY <1>3, <2>3, <2>4
<1> QED
  BY <1>1, <1>2, <1>3

(* What an attempt does at the provider: a machine that is gone stays gone,  *)
(* a destroy destroys, and a create with a known key makes nothing.        *)
LEMMA EffectsAre ==
  ASSUME BaseInv, NEW r \in Req, req[r].stage = "call", NEW e \in Effects(r, req[r])
  PROVE  /\ e.id \in Id /\ e.reply \in Reply
         /\ e.state \in {"free", "running", "paused", "gone"}
         /\ vm[e.id] = "gone" => e.state = "gone"
         /\ vm[e.id] # "free" \/ e.reply = "ok" => e.state # "free"
         /\ req[r].op # "create" => e.id = req[r].id
         /\ CallOp(req[r]) = "destroy" => e.state = "gone" /\ e.reply = "ok"
         /\ vm[e.id] = "free" => \A j \in Id : madeBy[j] # {[key |-> <<r>>, by |-> r]}
<1> DEFINE c == req[r]
<1>0. /\ c \in Request /\ vm \in [Id -> {"free", "running", "paused", "gone"}]
      /\ c.op # "create" => c.id \in Used
      /\ MadeInv
  BY DEF BaseInv, Named, Request, Op
<1>1. CASE c.op = "create"
  <2>0. e \in Creation(r, c)
    BY <1>1 DEF Effects, CallOp
  <2> DEFINE made == {i \in Id : \E m \in madeBy[i] : m.key = Key(r, c)}
  <2>1. CASE made # {}
    <3>1. e \in UNION {To(i, vm[i], "ok") : i \in made}
      BY <2>0, <2>1 DEF Creation
    <3>2. PICK i \in made : e = [id |-> i, state |-> vm[i], reply |-> "ok"]
      BY <3>1 DEF To
    <3>3. vm[i] # "free"
      BY <1>0 DEF MadeInv
    <3> QED
      BY <1>0, <1>1, <3>2, <3>3 DEF Reply, CallOp
  <2>2. CASE made = {}
    <3>1. ASSUME NEW j \in Id, madeBy[j] = {[key |-> <<r>>, by |-> r]} PROVE FALSE
      <4>1. [key |-> <<r>>, by |-> r] \in madeBy[j]
        BY <3>1
      <4>2. [key |-> <<r>>, by |-> r].key = Key(r, c)
        BY DEF Key
      <4> QED
        BY <4>1, <4>2, <2>2
    <3>2. Free # {}
      BY <2>0, <2>2 DEF Creation
    <3>3. FreshId \in Id /\ vm[FreshId] = "free"
      BY <3>2 DEF FreshId, Free
    <3>4. e \in To(FreshId, "running", "ok") \cup To(FreshId, "free", "limit")
      BY <2>0, <2>2, <3>2 DEF Creation
    <3> QED
      BY <1>1, <3>1, <3>3, <3>4 DEF To, Reply, CallOp
  <2> QED
    BY <2>1, <2>2
<1>2. CASE c.op \in {"destroy", "cleanup"}
  <2>1. e = [id |-> c.id, state |-> "gone", reply |-> "ok"]
    BY <1>2 DEF Effects, To, CallOp
  <2> QED
    BY <1>0, <1>2, <2>1 DEF Reply, Used
<1>3. CASE c.op = "use"
  <2>1. PICK a \in {"ok", "not_found", "refused"} : e = [id |-> c.id, state |-> vm[c.id], reply |-> a]
    BY <1>3 DEF Effects, To, CallOp
  <2> QED
    BY <1>0, <1>3, <2>1 DEF Reply, Used, CallOp
<1>4. CASE c.op \in {"pause", "resume"}
  <2>1. /\ e.id = c.id /\ e.reply \in Reply
        /\ e.state \in {"running", "paused", "gone"}
        /\ vm[c.id] = "gone" => e.state = "gone"
    BY <1>4 DEF Effects, To, CallOp, Reply
  <2> QED
    BY <1>0, <1>4, <2>1 DEF Used, CallOp
<1> QED
  BY <1>0, <1>1, <1>2, <1>3, <1>4 DEF Request, Op

--------------------------------------------------------------------------------
(* What a step has to show: the request it moved, and that no machine comes  *)
(* back.                                                                   *)

(* A step that moves request r to d. *)
LEMMA Keeps ==
  ASSUME IInv, NEW r \in Req, NEW d \in Request, req' = [req EXCEPT ![r] = d],
         vm' \in [Id -> {"free", "running", "paused", "gone"}],
         Used \subseteq Used', Gone \subseteq Gone',
         sessions' \subseteq Used', UNCHANGED restarts, MadeInv',
         Named(d, Used'), Destroys(d, Gone'), Cleans(d, Gone')
  PROVE  IInv'
<1>1. ASSUME NEW q \in Req
      PROVE  Named(req'[q], Used') /\ Destroys(req'[q], Gone') /\ Cleans(req'[q], Gone')
  <2>1. CASE q = r
    BY <2>1 DEF IInv, BaseInv
  <2>2. CASE q # r
    <3>1. req'[q] = req[q]
      BY <2>2 DEF IInv, BaseInv
    <3>2. Named(req[q], Used) /\ Destroys(req[q], Gone) /\ Cleans(req[q], Gone)
      BY DEF IInv, BaseInv
    <3> HIDE DEF Used, Gone
    <3>3. Named(req[q], Used')
      BY <3>2 DEF Named
    <3>4. Destroys(req[q], Gone')
      BY <3>2 DEF Destroys
    <3>5. Cleans(req[q], Gone')
      BY <3>2 DEF Cleans
    <3> QED
      BY <3>1, <3>3, <3>4, <3>5
  <2> QED
    BY <2>1, <2>2
<1> QED
  BY <1>1 DEF IInv, BaseInv

(* Most steps leave the provider alone. *)
LEMMA KeepsStill ==
  ASSUME IInv, NEW r \in Req, NEW d \in Request, req' = [req EXCEPT ![r] = d],
         UNCHANGED <<vm, madeBy, restarts>>, sessions' \subseteq Used,
         Named(d, Used), Destroys(d, Gone), Cleans(d, Gone)
  PROVE  IInv'
<1>1. Used' = Used /\ Gone' = Gone /\ MadeInv'
  BY DEF Used, Gone, MadeInv, IInv, BaseInv
<1>2. vm' \in [Id -> {"free", "running", "paused", "gone"}]
  BY DEF IInv, BaseInv
<1> QED
  BY <1>1, <1>2, Keeps

--------------------------------------------------------------------------------
(* One lemma per step of a request. *)

(* What the invariant says of one request. *)
LEMMA RequestIs ==
  ASSUME IInv, NEW r \in Req
  PROVE  /\ req[r] \in Request
         /\ Named(req[r], Used) /\ Destroys(req[r], Gone) /\ Cleans(req[r], Gone)
         /\ sessions \subseteq Used /\ Used \subseteq Id /\ Gone \subseteq Used
BY DEF IInv, BaseInv, Used, Gone

(* Bounds of the counters. *)
LEMMA PollsAre ==
  /\ 0 \in 0..HealthPolls - 1 /\ 0 \in 0..MissesToReady - 1
  /\ 1 \in 1..3 /\ 1 \in 1..MaxRetries + 1
  /\ \A p \in 0..HealthPolls - 1 : ~(p + 1 >= HealthPolls) => p + 1 \in 0..HealthPolls - 1
  /\ \A m \in 0..MissesToReady - 1 : ~(m + 1 >= MissesToReady) => m + 1 \in 0..MissesToReady - 1
<1>1. HealthPolls \in Nat /\ MissesToReady \in Nat /\ MaxRetries \in Nat /\ HealthPolls > 0 /\ MissesToReady > 0
  BY VmAssumption
<1> QED
  BY <1>1

(* A request before it arrives. *)
LEMMA IdleIs ==
  /\ Idle \in Request
  /\ Idle.snap = {} /\ Idle.left = {} /\ Idle.listed = FALSE /\ Idle.stage = "idle"
  /\ Idle.id = NoId
<1>1. Idle \in Request
  BY PollsAre DEF Idle, Request, Op
<1>2. /\ Idle.snap = {} /\ Idle.left = {} /\ Idle.listed = FALSE /\ Idle.stage = "idle"
      /\ Idle.id = NoId
  BY DEF Idle
<1> QED
  BY <1>1, <1>2

(* A request that was answered. *)
LEMMA EndIs ==
  ASSUME NEW c \in Request, NEW reply \in {"ok", "error"}
  PROVE  LET d == End(c, reply) IN
         /\ d \in Request /\ d.stage = "done" /\ d.reply = reply /\ d.snap = {}
         /\ d.op = c.op /\ d.id = c.id /\ d.left = c.left /\ d.there = c.there
         /\ d.listed = c.listed /\ d.errors = c.errors
BY PollsAre DEF End, Request, Over

(* A request that calls the client. *)
LEMMA CallIs ==
  ASSUME NEW c \in Request
  PROVE  LET d == Call(c) IN
         /\ d \in Request /\ d.stage = "call" /\ d.route = 1 /\ d.reply = c.reply
         /\ d.snap = c.snap /\ d.op = c.op /\ d.id = c.id /\ d.left = c.left
         /\ d.there = c.there /\ d.listed = c.listed /\ d.errors = c.errors
BY PollsAre DEF Call, Request, Waiting

(* A request comes in. *)
LEMMA ArriveStep == ASSUME IInv, NEW r \in Req, Arrive(r) PROVE IInv'
<1>1. PICK op \in Op, via \in {"http", "ipc"}, i \in Id \cup {NoId} :
         /\ (op \in {"create", "cleanup"}) <=> (i = NoId)
         /\ i # NoId => vm[i] # "free"
         /\ req' = [req EXCEPT ![r] = [Idle EXCEPT !.op = op, !.id = i, !.via = via,
                                                   !.stage = "check"]]
  BY DEF Arrive
<1> DEFINE d == [Idle EXCEPT !.op = op, !.id = i, !.via = via, !.stage = "check"]
<1>2. d \in Request
  BY IdleIs, PollsAre DEF Request, Waiting
<1>3. /\ d.op = op /\ d.id = i /\ d.stage = "check" /\ d.snap = {} /\ d.left = {}
      /\ d.listed = FALSE
  BY IdleIs DEF Request
<1> HIDE DEF d
<1>4. Named(d, Used)
  BY <1>1, <1>3 DEF Named, Used
<1>5. Destroys(d, Gone) /\ Cleans(d, Gone)
  BY <1>3 DEF Destroys, Cleans
<1> QED
  BY <1>1, <1>2, <1>4, <1>5, RequestIs, KeepsStill DEF Arrive, d

(* It is turned away. *)
LEMMA TurnedStep == ASSUME IInv, NEW r \in Req, Turned(r) PROVE IInv'
<1> DEFINE c == req[r]
           d == End(c, "error")
<1>1. Named(c, Used) /\ Cleans(c, Gone) /\ c.stage = "check" /\ c \in Request
  BY RequestIs DEF Turned
<1>2. /\ d \in Request /\ d.stage = "done" /\ d.reply = "error" /\ d.snap = {}
      /\ d.op = c.op /\ d.id = c.id /\ d.left = c.left /\ d.listed = c.listed
  BY <1>1, EndIs
<1>3. req' = [req EXCEPT ![r] = d] /\ UNCHANGED <<vm, madeBy, restarts, sessions>>
  BY DEF Turned
<1> HIDE DEF c, d
<1>4. Named(d, Used)
  BY <1>1, <1>2 DEF Named
<1>5. Destroys(d, Gone) /\ Cleans(d, Gone)
  BY <1>1, <1>2 DEF Destroys, Cleans
<1> QED
  BY <1>2, <1>3, <1>4, <1>5, RequestIs, KeepsStill

(* It is admitted. *)
LEMMA AdmitStep == ASSUME IInv, NEW r \in Req, Admit(r) PROVE IInv'
<1> DEFINE c == req[r]
           s == [c EXCEPT !.stage = "sweep", !.snap = sessions, !.left = sessions]
           d == IF c.op = "cleanup" THEN s ELSE Call(c)
<1>1. Named(c, Used) /\ Cleans(c, Gone) /\ c.stage = "check" /\ c \in Request
  BY RequestIs DEF Admit
<1>2. req' = [req EXCEPT ![r] = d] /\ UNCHANGED <<vm, madeBy, restarts, sessions>>
  BY DEF Admit
<1>3. d \in Request /\ Named(d, Used) /\ Destroys(d, Gone) /\ Cleans(d, Gone)
  <2>1. CASE c.op = "cleanup"
    <3>1. d = s
      BY <2>1
    <3>2. s \in Request
      BY <1>1, RequestIs DEF Request, Waiting
    <3>3. /\ s.op = "cleanup" /\ s.stage = "sweep" /\ s.snap = sessions /\ s.left = sessions
          /\ s.listed = c.listed /\ s.id = c.id
      BY <1>1, <2>1 DEF Request
    <3>4. sessions \subseteq Used
      BY RequestIs
    <3> HIDE DEF s, d, c
    <3>5. Named(s, Used)
      BY <1>1, <3>3, <3>4 DEF Named
    <3>6. Destroys(s, Gone) /\ Cleans(s, Gone)
      BY <1>1, <2>1, <3>3 DEF Destroys, Cleans
    <3> QED
      BY <3>1, <3>2, <3>5, <3>6
  <2>2. CASE c.op # "cleanup"
    <3>1. d = Call(c)
      BY <2>2
    <3> HIDE DEF d, c
    <3>2. d \in Request /\ d.stage = "call" /\ d.route = 1 /\ d.op = c.op
          /\ d.id = c.id /\ d.snap = c.snap /\ d.left = c.left
      BY <1>1, <3>1, CallIs
    <3>3. Named(d, Used)
      BY <1>1, <2>2, <3>2 DEF Named
    <3>4. Destroys(d, Gone) /\ Cleans(d, Gone)
      BY <2>2, <3>2 DEF Destroys, Cleans
    <3> QED
      BY <3>2, <3>3, <3>4
  <2> QED
    BY <2>1, <2>2
<1> HIDE DEF d
<1> QED
  BY <1>2, <1>3, RequestIs, KeepsStill

(* An attempt at the provider, in each of its three ways. *)
LEMMA AttemptStep ==
  ASSUME IInv, NEW r \in Req, Attempt(r),
         \E k \in 1..3 : <<"destroy", Routes("destroy")[k]>> \in Serves
  PROVE  IInv'
<1> DEFINE c == req[r]
           place == <<CallOp(c), Routes(CallOp(c))[c.route]>>
<1>1. /\ c \in Request /\ c.stage = "call" /\ c.id \in Id \cup {NoId}
      /\ Named(c, Used) /\ Destroys(c, Gone) /\ Cleans(c, Gone)
      /\ UNCHANGED <<sessions, restarts>>
  BY RequestIs DEF Attempt, Request
<1>2. ASSUME NEW i \in Used' \cup {NoId}, NEW reply \in Reply,
             req' = [req EXCEPT ![r] = After(c, i, reply)],
             c.op # "create" => i = c.id,
             reply = "ok" => i \in Used' /\ (CallOp(c) = "destroy" => i \in Gone'),
             reply = "not_found" /\ CallOp(c) = "destroy" =>
               place \notin Serves,
             vm' \in [Id -> {"free", "running", "paused", "gone"}],
             Used \subseteq Used', Gone \subseteq Gone', MadeInv'
      PROVE  IInv'
  <2> DEFINE d == After(c, i, reply)
  <2>0. i \in Id \cup {NoId}
    BY <1>2 DEF Used
  <2>1. /\ d \in Request /\ d.op = c.op /\ d.snap = c.snap /\ d.left = c.left
        /\ d.there = c.there /\ d.listed = c.listed /\ d.errors = c.errors
        /\ \/ /\ d.stage = "call" /\ d.id = c.id
              /\ d.route = c.route \/ (reply = "not_found" /\ d.route = c.route + 1)
           \/ /\ d.stage = "back" /\ d.id = i /\ d.reply = Outcome(c, reply)
              /\ ~FallsBack(c, reply)
    BY <1>1, <2>0, AfterIs
  <2>2. CallOp(d) = CallOp(c) /\ c.route \in 1..3
    BY <1>1, <2>1 DEF CallOp, Request
  <2>3. sessions' \subseteq Used'
    BY <1>1, <1>2, RequestIs
  <2>4. CallOp(c) = "destroy" =>
          /\ \A k \in 1..c.route - 1 : <<"destroy", Routes("destroy")[k]>> \notin Serves
          /\ place = <<"destroy", Routes("destroy")[c.route]>>
          /\ FallsBack(c, reply) <=> reply = "not_found" /\ c.route < 3
    <3>1. Len(Routes("destroy")) = 3
      BY DEF Routes
    <3> QED
      BY <1>1, <3>1 DEF Destroys, FallsBack
  <2>5. Named(d, Used')
    <3> HIDE DEF d, c, Used, Gone, place
    <3> QED
      BY <1>1, <1>2, <2>1 DEF Named, Outcome, CallOp
  <2>6. Destroys(d, Gone')
    <3> HIDE DEF d, c, Used, Gone, place
    <3>1. CASE d.stage = "call"
      BY <1>2, <2>1, <2>2, <2>4, <3>1 DEF Destroys
    <3>2. CASE d.stage = "back"
      <4>1. CallOp(c) = "destroy" /\ reply = "not_found" => FALSE
        BY <1>2, <2>1, <2>2, <2>4, <3>2
      <4> QED
        BY <1>2, <2>1, <2>2, <3>2, <4>1 DEF Destroys, Outcome
    <3> QED
      BY <2>1, <3>1, <3>2
  <2>7. Cleans(d, Gone')
    <3> HIDE DEF d, c, Used, Gone, place
    <3> QED
      BY <1>1, <1>2, <2>1 DEF Cleans
  <2>8. req' = [req EXCEPT ![r] = d] /\ UNCHANGED restarts
    BY <1>1, <1>2
  <2> HIDE DEF d
  <2> QED
    BY <1>2, <2>1, <2>3, <2>5, <2>6, <2>7, <2>8, Keeps
<1>3. ASSUME UNCHANGED <<vm, madeBy>>
      PROVE  /\ vm' \in [Id -> {"free", "running", "paused", "gone"}]
             /\ Used' = Used /\ Gone' = Gone /\ MadeInv'
  BY <1>3 DEF IInv, BaseInv, MadeInv, Used, Gone
<1>4. c.id \in Used \cup {NoId}
  BY <1>1 DEF Named
<1>5. ASSUME NEW reply \in {"transient", "broken", "lost", "refused"},
             req' = [req EXCEPT ![r] = After(c, c.id, reply)], UNCHANGED <<vm, madeBy>>
      PROVE  IInv'
  <2>1. reply \in Reply /\ reply # "ok" /\ reply # "not_found"
    BY <1>5 DEF Reply
  <2> QED
    BY <1>2, <1>3, <1>4, <1>5, <2>1
<1>6. ASSUME place \notin Serves,
             req' = [req EXCEPT ![r] = After(c, c.id, "not_found")], UNCHANGED <<vm, madeBy>>
      PROVE  IInv'
  <2>1. "not_found" \in Reply
    BY DEF Reply
  <2> QED
    BY <1>2, <1>3, <1>4, <1>6, <2>1
<1>7. ASSUME NEW e \in Effects(r, c),
             vm' = [vm EXCEPT ![e.id] = e.state],
             madeBy' = IF vm[e.id] = "free" /\ e.state # "free"
                         THEN [madeBy EXCEPT ![e.id] = {[key |-> Key(r, c), by |-> r]}]
                         ELSE madeBy,
             NEW heard \in {e.reply, "transient", "broken", "lost"},
             req' = [req EXCEPT ![r] = After(c, IF heard = "ok" THEN e.id ELSE c.id, heard)]
      PROVE  IInv'
  <2>1. /\ e.id \in Id /\ e.reply \in Reply
        /\ e.state \in {"free", "running", "paused", "gone"}
        /\ vm[e.id] = "gone" => e.state = "gone"
        /\ vm[e.id] # "free" \/ e.reply = "ok" => e.state # "free"
        /\ c.op # "create" => e.id = c.id
        /\ CallOp(c) = "destroy" => e.state = "gone" /\ e.reply = "ok"
        /\ vm[e.id] = "free" => \A j \in Id : madeBy[j] # {[key |-> <<r>>, by |-> r]}
    BY <1>1, EffectsAre DEF IInv
  <2>2. /\ vm \in [Id -> {"free", "running", "paused", "gone"}] /\ MadeInv
    BY DEF IInv, BaseInv
  <2>3. vm' \in [Id -> {"free", "running", "paused", "gone"}]
    BY <1>7, <2>1, <2>2
  <2>4. /\ Used \subseteq Used' /\ Gone \subseteq Gone'
        /\ e.state # "free" => e.id \in Used'
        /\ e.state = "gone" => e.id \in Gone'
    BY <1>7, <2>1, <2>2 DEF Used, Gone
  <2>5. MadeInv'
    <3>1. CASE vm[e.id] = "free" /\ e.state # "free"
      <4> DEFINE one == {[key |-> <<r>>, by |-> r]}
      <4>1. madeBy' = [madeBy EXCEPT ![e.id] = one]
        BY <1>7, <3>1 DEF Key
      <4>2. one \in {{}} \cup {{[key |-> <<q>>, by |-> q]} : q \in Req} /\ one # {}
        OBVIOUS
      <4>3. \A j \in Id : madeBy[j] # one
        BY <2>1, <3>1
      <4> HIDE DEF one
      <4>4. madeBy' \in [Id -> {{}} \cup {{[key |-> <<q>>, by |-> q]} : q \in Req}]
        BY <2>1, <2>2, <4>1, <4>2 DEF MadeInv
      <4>5. ASSUME NEW i \in Id, madeBy'[i] # {} PROVE vm'[i] # "free"
        BY <1>7, <2>1, <2>2, <3>1, <4>1, <4>5 DEF MadeInv
      <4>6. ASSUME NEW i \in Id, NEW j \in Id, madeBy'[i] # {}, madeBy'[i] = madeBy'[j] PROVE i = j
        BY <2>1, <2>2, <4>1, <4>3, <4>6 DEF MadeInv
      <4> QED
        BY <4>4, <4>5, <4>6 DEF MadeInv
    <3>2. CASE ~(vm[e.id] = "free" /\ e.state # "free")
      <4>1. madeBy' = madeBy
        BY <1>7, <3>2
      <4>2. \A i \in Id : vm[i] # "free" => vm'[i] # "free"
        BY <2>4 DEF Used
      <4> QED
        BY <2>2, <4>1, <4>2 DEF MadeInv
    <3> QED
      BY <3>1, <3>2
  <2>6. heard \in Reply
    BY <2>1 DEF Reply
  <2>7. CASE heard = "ok"
    <3>1. req' = [req EXCEPT ![r] = After(c, e.id, heard)] /\ e.reply = "ok"
      BY <1>7, <2>7
    <3>2. e.id \in Used' /\ (CallOp(c) = "destroy" => e.id \in Gone')
      BY <2>1, <2>4, <3>1
    <3> QED
      BY <1>2, <2>1, <2>3, <2>4, <2>5, <2>6, <2>7, <3>1, <3>2
  <2>8. CASE heard # "ok"
    <3>1. req' = [req EXCEPT ![r] = After(c, c.id, heard)]
      BY <1>7, <2>8
    <3>2. heard = "not_found" => CallOp(c) # "destroy"
      BY <1>7, <2>1
    <3>3. c.id \in Used' \cup {NoId}
      BY <1>4, <2>4
    <3> QED
      BY <1>2, <2>3, <2>4, <2>5, <2>6, <2>8, <3>1, <3>2, <3>3
  <2> QED
    BY <2>7, <2>8
<1> QED
  <2>1. \/ \E reply \in {"transient", "broken", "lost", "refused"} :
             req' = [req EXCEPT ![r] = After(c, c.id, reply)] /\ UNCHANGED <<vm, madeBy>>
        \/ /\ place \notin Serves
           /\ req' = [req EXCEPT ![r] = After(c, c.id, "not_found")]
           /\ UNCHANGED <<vm, madeBy>>
        \/ \E e \in Effects(r, c) :
             /\ vm' = [vm EXCEPT ![e.id] = e.state]
             /\ madeBy' = IF vm[e.id] = "free" /\ e.state # "free"
                            THEN [madeBy EXCEPT ![e.id] = {[key |-> Key(r, c), by |-> r]}]
                            ELSE madeBy
             /\ \E heard \in {e.reply, "transient", "broken", "lost"} :
                  req' = [req EXCEPT ![r] = After(c, IF heard = "ok" THEN e.id ELSE c.id, heard)]
    BY Zenon DEF Attempt
  <2> QED
    BY <1>5, <1>6, <1>7, <2>1

(* The machine is there. *)
LEMMA ProvisionedStep == ASSUME IInv, NEW r \in Req, Provisioned(r) PROVE IInv'
<1> DEFINE c == req[r]
           d == [c EXCEPT !.stage = "poll"]
<1>1. /\ c \in Request /\ Named(c, Used) /\ Destroys(c, Gone) /\ Cleans(c, Gone)
      /\ c.stage = "back" /\ c.op = "create" /\ c.reply = "ok"
  BY RequestIs DEF Provisioned
<1>2. /\ req' = [req EXCEPT ![r] = d]
      /\ UNCHANGED <<vm, madeBy, restarts>>
      /\ sessions' \subseteq sessions
  BY DEF Provisioned
<1>3. /\ d \in Request
      /\ d.op = c.op /\ d.id = c.id /\ d.snap = c.snap /\ d.left = c.left
      /\ d.there = c.there /\ d.listed = c.listed /\ d.errors = c.errors
      /\ d.stage = "poll"
  BY <1>1 DEF Request, Waiting, Over
<1>4. sessions' \subseteq Used
  BY <1>1, <1>2, RequestIs DEF Named
<1> HIDE DEF c, d
<1>5. Named(d, Used)
  BY <1>1, <1>3 DEF Named
<1>6. Destroys(d, Gone)
  BY <1>1, <1>3 DEF Named, Destroys, CallOp
<1>7. Cleans(d, Gone)
  BY <1>1, <1>3 DEF Named, Cleans
<1> QED
  BY <1>2, <1>3, <1>4, <1>5, <1>6, <1>7, KeepsStill

(* It is tracked. *)
LEMMA TrackStep == ASSUME IInv, NEW r \in Req, Track(r) PROVE IInv'
<1> DEFINE c == req[r]
           d == End(c, "ok")
<1>1. /\ c \in Request /\ Named(c, Used) /\ Destroys(c, Gone) /\ Cleans(c, Gone)
      /\ c.stage = "track"
  BY RequestIs DEF Track
<1>2. /\ req' = [req EXCEPT ![r] = d]
      /\ UNCHANGED <<vm, madeBy, restarts>>
      /\ sessions' \subseteq sessions \cup {c.id}
  BY DEF Track
<1>3. /\ d \in Request
      /\ d.op = c.op /\ d.id = c.id /\ d.snap = {} /\ d.left = c.left
      /\ d.there = c.there /\ d.listed = c.listed /\ d.errors = c.errors
      /\ d.stage = "done"
  BY <1>1, EndIs DEF Request
<1>4. sessions' \subseteq Used
  BY <1>1, <1>2, RequestIs DEF Named
<1> HIDE DEF c, d
<1>5. Named(d, Used)
  BY <1>1, <1>3 DEF Named
<1>6. Destroys(d, Gone)
  BY <1>1, <1>3 DEF Named, Destroys, CallOp
<1>7. Cleans(d, Gone)
  BY <1>1, <1>3 DEF Named, Cleans
<1> QED
  BY <1>2, <1>3, <1>4, <1>5, <1>6, <1>7, KeepsStill

(* A destroy ends. *)
LEMMA DestroyedStep == ASSUME IInv, NEW r \in Req, Destroyed(r) PROVE IInv'
<1> DEFINE c == req[r]
           d == End(c, c.reply)
<1>1. /\ c \in Request /\ Named(c, Used) /\ Destroys(c, Gone) /\ Cleans(c, Gone)
      /\ c.stage = "back" /\ c.op = "destroy" /\ c.reply \in {"ok", "error"}
  BY RequestIs DEF Destroyed, Request
<1>2. /\ req' = [req EXCEPT ![r] = d]
      /\ UNCHANGED <<vm, madeBy, restarts>>
      /\ sessions' \subseteq sessions
  BY DEF Destroyed
<1>3. /\ d \in Request
      /\ d.op = c.op /\ d.id = c.id /\ d.snap = {} /\ d.left = c.left
      /\ d.there = c.there /\ d.listed = c.listed /\ d.errors = c.errors
      /\ d.stage = "done"
      /\ d.reply = c.reply
  BY <1>1, EndIs DEF Request
<1>4. sessions' \subseteq Used
  BY <1>1, <1>2, RequestIs DEF Named
<1> HIDE DEF c, d
<1>5. Named(d, Used)
  BY <1>1, <1>3 DEF Named
<1>6. Destroys(d, Gone)
  BY <1>1, <1>3 DEF Named, Destroys, CallOp
<1>7. Cleans(d, Gone)
  BY <1>1, <1>3 DEF Named, Cleans
<1> QED
  BY <1>2, <1>3, <1>4, <1>5, <1>6, <1>7, KeepsStill

(* A resume ends. *)
LEMMA ResumedStep == ASSUME IInv, NEW r \in Req, Resumed(r) PROVE IInv'
<1> DEFINE c == req[r]
           d == End(c, "ok")
<1>1. /\ c \in Request /\ Named(c, Used) /\ Destroys(c, Gone) /\ Cleans(c, Gone)
      /\ c.stage = "back" /\ c.op = "resume"
  BY RequestIs DEF Resumed
<1>2. /\ req' = [req EXCEPT ![r] = d]
      /\ UNCHANGED <<vm, madeBy, restarts>>
      /\ sessions' \subseteq sessions \cup {c.id}
  BY DEF Resumed
<1>3. /\ d \in Request
      /\ d.op = c.op /\ d.id = c.id /\ d.snap = {} /\ d.left = c.left
      /\ d.there = c.there /\ d.listed = c.listed /\ d.errors = c.errors
      /\ d.stage = "done"
  BY <1>1, EndIs DEF Request
<1>4. sessions' \subseteq Used
  BY <1>1, <1>2, RequestIs DEF Named
<1> HIDE DEF c, d
<1>5. Named(d, Used)
  BY <1>1, <1>3 DEF Named
<1>6. Destroys(d, Gone)
  BY <1>1, <1>3 DEF Named, Destroys, CallOp
<1>7. Cleans(d, Gone)
  BY <1>1, <1>3 DEF Named, Cleans
<1> QED
  BY <1>2, <1>3, <1>4, <1>5, <1>6, <1>7, KeepsStill

(* An answer is passed on. *)
LEMMA PassedOnStep == ASSUME IInv, NEW r \in Req, PassedOn(r) PROVE IInv'
<1> DEFINE c == req[r]
           d == End(c, c.reply)
<1>1. /\ c \in Request /\ Named(c, Used) /\ Destroys(c, Gone) /\ Cleans(c, Gone)
      /\ c.stage = "back" /\ c.reply \in {"ok", "error"}
      /\ (c.op \in {"pause", "use"} \/ (c.op \in {"create", "resume"} /\ c.reply # "ok"))
  BY RequestIs DEF PassedOn, Request
<1>2. /\ req' = [req EXCEPT ![r] = d]
      /\ UNCHANGED <<vm, madeBy, restarts>>
      /\ sessions' \subseteq sessions
  BY DEF PassedOn
<1>3. /\ d \in Request
      /\ d.op = c.op /\ d.id = c.id /\ d.snap = {} /\ d.left = c.left
      /\ d.there = c.there /\ d.listed = c.listed /\ d.errors = c.errors
      /\ d.stage = "done"
      /\ d.reply = c.reply
  BY <1>1, EndIs DEF Request
<1>4. sessions' \subseteq Used
  BY <1>1, <1>2, RequestIs DEF Named
<1> HIDE DEF c, d
<1>5. Named(d, Used)
  BY <1>1, <1>3 DEF Named
<1>6. Destroys(d, Gone)
  BY <1>1, <1>3 DEF Named, Destroys, CallOp
<1>7. Cleans(d, Gone)
  BY <1>1, <1>3 DEF Named, Cleans
<1> QED
  BY <1>2, <1>3, <1>4, <1>5, <1>6, <1>7, KeepsStill

(* The caller goes away. *)
LEMMA HangUpStep == ASSUME IInv, NEW r \in Req, HangUp(r) PROVE IInv'
<1> DEFINE c == req[r]
           d == [c EXCEPT !.stage = "cut"]
<1>1. /\ c \in Request /\ Named(c, Used) /\ Destroys(c, Gone) /\ Cleans(c, Gone)
      /\ c.stage \in Waiting
  BY RequestIs DEF HangUp
<1>2. /\ req' = [req EXCEPT ![r] = d]
      /\ UNCHANGED <<vm, madeBy, restarts>>
      /\ sessions' \subseteq sessions
  BY DEF HangUp
<1>3. /\ d \in Request
      /\ d.op = c.op /\ d.id = c.id /\ d.snap = c.snap /\ d.left = c.left
      /\ d.there = c.there /\ d.listed = c.listed /\ d.errors = c.errors
      /\ d.stage = "cut"
  BY <1>1 DEF Request, Waiting, Over
<1>4. sessions' \subseteq Used
  BY <1>1, <1>2, RequestIs DEF Named
<1> HIDE DEF c, d
<1>5. Named(d, Used)
  BY <1>1, <1>3 DEF Named, Waiting
<1>6. Destroys(d, Gone)
  BY <1>1, <1>3 DEF Named, Destroys, CallOp
<1>7. Cleans(d, Gone)
  BY <1>1, <1>3 DEF Named, Cleans
<1> QED
  BY <1>2, <1>3, <1>4, <1>5, <1>6, <1>7, KeepsStill

(* A cleanup has destroyed a tracked machine. *)
LEMMA SweptStep == ASSUME IInv, NEW r \in Req, Swept(r) PROVE IInv'
<1> DEFINE c == req[r]
           d == [c EXCEPT !.stage = "sweep", !.left = @ \ {c.id}, !.errors = @ \/ c.reply # "ok"]
<1>1. /\ c \in Request /\ Named(c, Used) /\ Destroys(c, Gone) /\ Cleans(c, Gone)
      /\ c.stage = "back" /\ c.op = "cleanup" /\ c.reply \in {"ok", "error"}
  BY RequestIs DEF Swept, Request
<1>2. /\ req' = [req EXCEPT ![r] = d]
      /\ UNCHANGED <<vm, madeBy, restarts>>
      /\ sessions' \subseteq sessions
  <2>1. req' = [req EXCEPT ![r] = d]
    BY Zenon DEF Swept
  <2>2. UNCHANGED <<vm, madeBy, restarts>> /\ sessions' = sessions \ {c.id}
    BY Zenon DEF Swept
  <2> QED
    BY <2>1, <2>2
<1>3. /\ d \in Request
      /\ d.op = c.op /\ d.id = c.id /\ d.snap = c.snap /\ d.left = c.left \ {c.id}
      /\ d.there = c.there /\ d.listed = c.listed /\ (d.errors <=> c.errors \/ c.reply # "ok")
      /\ d.stage = "sweep"
  BY <1>1 DEF Request, Waiting, Over
<1>4. sessions' \subseteq Used
  BY <1>1, <1>2, RequestIs DEF Named
<1> HIDE DEF c, d
<1>5. Named(d, Used)
  BY <1>1, <1>3 DEF Named
<1>6. Destroys(d, Gone)
  BY <1>1, <1>3 DEF Named, Destroys, CallOp
<1>7. Cleans(d, Gone)
  BY <1>1, <1>3 DEF Named, Cleans, Destroys, CallOp
<1> QED
  BY <1>2, <1>3, <1>4, <1>5, <1>6, <1>7, KeepsStill

(* It is polled. *)
LEMMA PollStep == ASSUME IInv, NEW r \in Req, Poll(r) PROVE IInv'
<1> DEFINE c == req[r]
<1>1. /\ c \in Request /\ Named(c, Used) /\ Destroys(c, Gone) /\ Cleans(c, Gone)
      /\ c.stage = "poll"
      /\ UNCHANGED <<vm, madeBy, restarts, sessions>>
  BY RequestIs DEF Poll
<1>2. PICK d \in Request :
        /\ req' = [req EXCEPT ![r] = d]
        /\ d.op = c.op /\ d.id = c.id /\ d.snap = c.snap /\ d.left = c.left
        /\ d.stage \in {"poll", "track"}
  <2>1. [c EXCEPT !.stage = "track"] \in Request
    BY <1>1 DEF Request, Waiting
  <2>2. CASE req' = [req EXCEPT ![r] = [c EXCEPT !.stage = "track"]]
    <3>1. LET d == [c EXCEPT !.stage = "track"] IN
          /\ d.op = c.op /\ d.id = c.id /\ d.snap = c.snap /\ d.left = c.left
          /\ d.stage = "track"
      BY <1>1 DEF Request
    <3> QED
      BY <2>1, <2>2, <3>1
  <2>3. ASSUME NEW misses \in {0, c.misses + 1},
               ~(misses >= MissesToReady \/ c.polls + 1 >= HealthPolls),
               req' = [req EXCEPT ![r] = [c EXCEPT !.polls = @ + 1, !.misses = misses]]
        PROVE  \E d \in Request :
                 /\ req' = [req EXCEPT ![r] = d]
                 /\ d.op = c.op /\ d.id = c.id /\ d.snap = c.snap /\ d.left = c.left
                 /\ d.stage \in {"poll", "track"}
    <3> DEFINE d == [c EXCEPT !.polls = @ + 1, !.misses = misses]
    <3>1. c.polls \in 0..HealthPolls - 1 /\ c.misses \in 0..MissesToReady - 1
      BY <1>1 DEF Request
    <3>2. c.polls + 1 \in 0..HealthPolls - 1 /\ misses \in 0..MissesToReady - 1
      BY <2>3, <3>1, PollsAre
    <3>3. d \in Request
      BY <1>1, <3>2 DEF Request
    <3>4. d.op = c.op /\ d.id = c.id /\ d.snap = c.snap /\ d.left = c.left /\ d.stage = "poll"
      BY <1>1 DEF Request
    <3> QED
      BY <2>3, <3>3, <3>4
  <2>4. \/ req' = [req EXCEPT ![r] = [c EXCEPT !.stage = "track"]]
        \/ \E misses \in {0, c.misses + 1} :
             /\ ~(misses >= MissesToReady \/ c.polls + 1 >= HealthPolls)
             /\ req' = [req EXCEPT ![r] = [c EXCEPT !.polls = @ + 1, !.misses = misses]]
    BY DEF Poll
  <2> QED
    BY <2>2, <2>3, <2>4
<1> HIDE DEF c
<1>3. Named(d, Used)
  BY <1>1, <1>2 DEF Named
<1>4. Destroys(d, Gone) /\ Cleans(d, Gone)
  BY <1>1, <1>2 DEF Named, Destroys, Cleans, CallOp
<1> QED
  BY <1>1, <1>2, <1>3, <1>4, RequestIs, KeepsStill

(* A cleanup goes to its next tracked machine. *)
LEMMA SweepNextStep == ASSUME IInv, NEW r \in Req, SweepNext(r) PROVE IInv'
<1> DEFINE c == req[r]
<1>1. /\ c \in Request /\ Named(c, Used) /\ Cleans(c, Gone)
      /\ c.stage = "sweep" /\ c.op = "cleanup" /\ c.left \subseteq Id
      /\ UNCHANGED <<vm, madeBy, restarts, sessions>>
  BY RequestIs DEF SweepNext, Named
<1>2. CASE c.left = {} /\ req' = [req EXCEPT ![r] = [c EXCEPT !.stage = "list"]]
  <2> DEFINE d == [c EXCEPT !.stage = "list"]
  <2>1. /\ d \in Request /\ d.op = c.op /\ d.id = c.id /\ d.snap = c.snap
        /\ d.left = c.left /\ d.listed = c.listed /\ d.errors = c.errors /\ d.stage = "list"
    BY <1>1 DEF Request, Waiting
  <2> HIDE DEF c, d
  <2>2. Named(d, Used) /\ Destroys(d, Gone)
    BY <1>1, <2>1 DEF Named, Destroys
  <2>3. Cleans(d, Gone)
    BY <1>1, <1>2, <2>1 DEF Cleans
  <2> QED
    BY <1>1, <1>2, <2>1, <2>2, <2>3, RequestIs, KeepsStill DEF d
<1>3. ASSUME NEW i \in c.left, req' = [req EXCEPT ![r] = [Call(c) EXCEPT !.id = i]]
      PROVE  IInv'
  <2> DEFINE d == [Call(c) EXCEPT !.id = i]
  <2>1. /\ d \in Request /\ d.op = c.op /\ d.id = i /\ d.snap = c.snap /\ d.route = 1
        /\ d.left = c.left /\ d.listed = c.listed /\ d.errors = c.errors /\ d.stage = "call"
    BY <1>1, <1>3, CallIs DEF Request
  <2>2. req' = [req EXCEPT ![r] = d]
    BY <1>3
  <2> HIDE DEF c, d
  <2>3. Named(d, Used)
    BY <1>1, <1>3, <2>1 DEF Named
  <2>4. Destroys(d, Gone) /\ Cleans(d, Gone)
    BY <1>1, <2>1 DEF Destroys, Cleans
  <2> QED
    BY <1>1, <2>1, <2>2, <2>3, <2>4, RequestIs, KeepsStill
<1> QED
  BY <1>2, <1>3 DEF SweepNext

(* A cleanup lists the machines. *)
LEMMA ListStep == ASSUME IInv, NEW r \in Req, List(r) PROVE IInv'
<1> DEFINE c == req[r]
           seen == [c EXCEPT !.stage = "raw", !.listed = TRUE, !.there = Alive,
                             !.left = Alive \ c.snap]
<1>1. /\ c \in Request /\ Named(c, Used) /\ Cleans(c, Gone)
      /\ c.stage = "list" /\ c.op = "cleanup"
      /\ UNCHANGED <<vm, madeBy, restarts, sessions>>
  BY RequestIs DEF List, Named
<1>2. Alive \subseteq Used /\ Alive \cap Gone = {} /\ Alive \subseteq Id
  BY DEF Alive, Used, Gone
<1>3. CASE req' = [req EXCEPT ![r] = seen]
  <2>1. /\ seen \in Request /\ seen.op = c.op /\ seen.id = c.id /\ seen.snap = c.snap
        /\ seen.left = Alive \ c.snap /\ seen.there = Alive /\ seen.listed = TRUE
        /\ seen.errors = c.errors /\ seen.stage = "raw"
    BY <1>1, <1>2 DEF Request, Waiting
  <2> HIDE DEF c, seen
  <2>2. Named(seen, Used) /\ Destroys(seen, Gone)
    BY <1>1, <1>2, <2>1 DEF Named, Destroys
  <2>3. Cleans(seen, Gone)
    BY <1>1, <1>2, <2>1 DEF Cleans
  <2> QED
    BY <1>1, <1>3, <2>1, <2>2, <2>3, RequestIs, KeepsStill
<1>4. CASE req' = [req EXCEPT ![r] = End(c, "ok")]
  <2> DEFINE d == End(c, "ok")
  <2>1. /\ d \in Request /\ d.op = c.op /\ d.id = c.id /\ d.snap = {} /\ d.left = c.left
        /\ d.listed = c.listed /\ d.stage = "done"
    BY <1>1, EndIs
  <2> HIDE DEF c, d
  <2>2. Named(d, Used) /\ Destroys(d, Gone) /\ Cleans(d, Gone)
    BY <1>1, <2>1 DEF Named, Destroys, Cleans
  <2> QED
    BY <1>1, <1>4, <2>1, <2>2, RequestIs, KeepsStill DEF d
<1> QED
  BY <1>3, <1>4 DEF List

(* A cleanup deletes a machine that was not tracked. *)
LEMMA DeleteNextStep == ASSUME IInv, NEW r \in Req, DeleteNext(r) PROVE IInv'
<1> DEFINE c == req[r]
<1>1. /\ c \in Request /\ Named(c, Used) /\ Cleans(c, Gone)
      /\ c.stage = "raw" /\ c.op = "cleanup"
      /\ UNCHANGED <<madeBy, restarts, sessions>>
  BY RequestIs DEF DeleteNext, Named
<1>2. CASE c.left = {} /\ req' = [req EXCEPT ![r] = End(c, "ok")] /\ UNCHANGED vm
  <2> DEFINE d == End(c, "ok")
  <2>1. /\ d \in Request /\ d.op = c.op /\ d.id = c.id /\ d.snap = {} /\ d.left = c.left
        /\ d.there = c.there /\ d.errors = c.errors /\ d.stage = "done"
    BY <1>1, EndIs
  <2> HIDE DEF c, d
  <2>2. Named(d, Used) /\ Destroys(d, Gone)
    BY <1>1, <2>1 DEF Named, Destroys
  <2>3. Cleans(d, Gone)
    BY <1>1, <1>2, <2>1 DEF Cleans
  <2> QED
    BY <1>1, <1>2, <2>1, <2>2, <2>3, RequestIs, KeepsStill DEF d
<1>3. ASSUME NEW i \in c.left, NEW works \in BOOLEAN, NEW heard \in BOOLEAN, heard => works,
             vm' = IF works THEN [vm EXCEPT ![i] = "gone"] ELSE vm,
             req' = [req EXCEPT ![r] = [c EXCEPT !.left = @ \ {i}, !.errors = @ \/ ~heard]]
      PROVE  IInv'
  <2> DEFINE d == [c EXCEPT !.left = @ \ {i}, !.errors = @ \/ ~heard]
  <2>1. /\ d \in Request /\ d.op = c.op /\ d.id = c.id /\ d.snap = c.snap
        /\ d.left = c.left \ {i} /\ d.there = c.there /\ (d.errors <=> c.errors \/ ~heard)
        /\ d.stage = "raw"
    BY <1>1 DEF Request
  <2>2. /\ vm \in [Id -> {"free", "running", "paused", "gone"}] /\ MadeInv
        /\ i \in Used /\ i \in Id
    BY <1>1, <1>3 DEF IInv, BaseInv, Named, Used
  <2>3. /\ vm' \in [Id -> {"free", "running", "paused", "gone"}]
        /\ \A j \in Id : vm[j] # "free" => vm'[j] # "free"
        /\ Used \subseteq Used' /\ Gone \subseteq Gone' /\ (heard => i \in Gone')
    BY <1>3, <2>2 DEF Used, Gone
  <2>4. MadeInv'
    BY <1>1, <2>2, <2>3 DEF MadeInv
  <2>5. sessions' \subseteq Used'
    BY <1>1, <2>3, RequestIs
  <2>6. req' = [req EXCEPT ![r] = d]
    BY <1>3
  <2> HIDE DEF c, d, Used, Gone
  <2>7. Named(d, Used') /\ Destroys(d, Gone')
    BY <1>1, <2>1, <2>3 DEF Named, Destroys
  <2>8. Cleans(d, Gone')
    BY <1>1, <2>1, <2>3 DEF Cleans
  <2> QED
    BY <1>1, <2>1, <2>3, <2>4, <2>5, <2>6, <2>7, <2>8, Keeps
<1> QED
  BY <1>2, <1>3 DEF DeleteNext

(* A machine times out: as any request that is where it was. *)
LEMMA TimesOutStep == ASSUME IInv, NEW i \in Id, TimesOut(i) PROVE IInv'
<1>1. /\ vm \in [Id -> {"free", "running", "paused", "gone"}] /\ MadeInv /\ req \in [Req -> Request]
      /\ restarts \in 0..MaxRestarts /\ vm[i] = "running"
      /\ UNCHANGED <<madeBy, sessions, req, restarts>>
  BY DEF IInv, BaseInv, TimesOut
<1>2. /\ vm' \in [Id -> {"free", "running", "paused", "gone"}]
      /\ \A j \in Id : vm[j] # "free" => vm'[j] # "free"
      /\ Used \subseteq Used' /\ Gone \subseteq Gone'
  BY <1>1 DEF TimesOut, Used, Gone
<1>3. MadeInv' /\ sessions' \subseteq Used'
  BY <1>1, <1>2, RequestIs DEF MadeInv, IInv, BaseInv
<1>4. ASSUME NEW q \in Req
      PROVE  Named(req'[q], Used') /\ Destroys(req'[q], Gone') /\ Cleans(req'[q], Gone')
  <2>1. req'[q] = req[q] /\ Named(req[q], Used) /\ Destroys(req[q], Gone) /\ Cleans(req[q], Gone)
    BY <1>1, RequestIs
  <2> HIDE DEF Used, Gone
  <2>2. Named(req[q], Used')
    BY <1>2, <2>1 DEF Named
  <2>3. Destroys(req[q], Gone') /\ Cleans(req[q], Gone')
    BY <1>2, <2>1 DEF Destroys, Cleans
  <2> QED
    BY <2>1, <2>2, <2>3
<1> QED
  BY <1>1, <1>2, <1>3, <1>4 DEF IInv, BaseInv

(* A restart cuts every request that waits. *)
LEMMA RestartStep == ASSUME IInv, Restart PROVE IInv'
<1>1. /\ UNCHANGED <<vm, madeBy>> /\ sessions' = {}
      /\ req' = [r \in Req |-> IF req[r].stage \in Waiting
                               THEN [req[r] EXCEPT !.stage = "cut"] ELSE req[r]]
  BY DEF Restart
<1>2. restarts' \in 0..MaxRestarts
  BY VmAssumption DEF Restart, IInv, BaseInv
<1>3. Used' = Used /\ Gone' = Gone /\ MadeInv' /\ vm' \in [Id -> {"free", "running", "paused", "gone"}]
  BY <1>1 DEF Used, Gone, MadeInv, IInv, BaseInv
<1>4. ASSUME NEW q \in Req
      PROVE  /\ req'[q] \in Request
             /\ Named(req'[q], Used) /\ Destroys(req'[q], Gone) /\ Cleans(req'[q], Gone)
  <2> DEFINE c == req[q]
             d == [c EXCEPT !.stage = "cut"]
  <2>1. c \in Request /\ Named(c, Used) /\ Destroys(c, Gone) /\ Cleans(c, Gone)
    BY RequestIs
  <2>2. CASE c.stage \in Waiting
    <3>1. req'[q] = d
      BY <1>1, <2>2
    <3>2. /\ d \in Request /\ d.op = c.op /\ d.id = c.id /\ d.snap = c.snap /\ d.left = c.left
          /\ d.stage = "cut" /\ c.stage # "idle"
      BY <2>1, <2>2 DEF Request, Waiting, Over
    <3> HIDE DEF c, d
    <3>3. Named(d, Used) /\ Destroys(d, Gone) /\ Cleans(d, Gone)
      BY <2>1, <3>2 DEF Named, Destroys, Cleans
    <3> QED
      BY <3>1, <3>2, <3>3
  <2>3. CASE c.stage \notin Waiting
    <3>1. req'[q] = c
      BY <1>1, <2>3
    <3> HIDE DEF c
    <3> QED
      BY <2>1, <3>1
  <2> QED
    BY <2>2, <2>3
<1>5. req' \in [Req -> Request]
  BY <1>1, <1>4
<1> QED
  BY <1>1, <1>2, <1>3, <1>4, <1>5 DEF IInv, BaseInv

--------------------------------------------------------------------------------
(* The invariant. *)

(* The invariant holds at the start. *)
LEMMA Initially == ASSUME Init PROVE IInv
<1>1. /\ vm \in [Id -> {"free", "running", "paused", "gone"}]
      /\ madeBy = [i \in Id |-> {}] /\ sessions = {} /\ restarts = 0
      /\ req = [r \in Req |-> Idle]
  BY DEF Init
<1>2. restarts \in 0..MaxRestarts /\ sessions \subseteq Used
  BY <1>1, VmAssumption
<1>3. req \in [Req -> Request]
  BY <1>1, IdleIs
<1>4. MadeInv
  BY <1>1 DEF MadeInv
<1>5. ASSUME NEW r \in Req PROVE Named(req[r], Used) /\ Destroys(req[r], Gone) /\ Cleans(req[r], Gone)
  BY <1>1, IdleIs DEF Named, Destroys, Cleans
<1> QED
  BY <1>1, <1>2, <1>3, <1>4, <1>5 DEF IInv, BaseInv

(* Every step keeps it. *)
LEMMA Inductive ==
  ASSUME IInv, [Next]_vars, \E k \in 1..3 : <<"destroy", Routes("destroy")[k]>> \in Serves
  PROVE  IInv'
<1>1. ASSUME NEW r \in Req, Step(r) PROVE IInv'
  BY <1>1, TurnedStep, AdmitStep, AttemptStep, ProvisionedStep, PollStep, TrackStep,
     DestroyedStep, ResumedStep, PassedOnStep, SweepNextStep, SweptStep, ListStep,
     DeleteNextStep
  DEF Step, Unauthorized, NotImplemented
<1>2. ASSUME NEW r \in Req, Arrive(r) \/ HangUp(r) PROVE IInv'
  BY <1>2, ArriveStep, HangUpStep
<1>3. CASE UNCHANGED vars
  <2>1. Used' = Used /\ Gone' = Gone
    BY <1>3 DEF vars, Used, Gone
  <2> QED
    BY <1>3, <2>1 DEF vars, IInv, BaseInv, MadeInv
<1> QED
  BY <1>1, <1>2, <1>3, TimesOutStep, RestartStep DEF Next

(* The provider knows one of the routes at which machines are destroyed      *)
(* (DesktopClient::destroy).                                               *)
DestroyServed == \E k \in 1..3 : <<"destroy", Routes("destroy")[k]>> \in Serves

(* It always holds. *)
LEMMA Invariance == ASSUME DestroyServed PROVE Spec => []IInv
<1>1. Init => IInv
  BY Initially
<1>2. IInv /\ [Next]_vars => IInv'
  BY Inductive DEF DestroyServed
<1> QED
  BY <1>1, <1>2, PTL DEF Spec

(* Every reachable state of the requests, the sessions and the machines is   *)
(* well typed (VmManager).                                                 *)
THEOREM TypeCorrect == ASSUME DestroyServed PROVE Spec => []TypeOK
<1>1. ASSUME IInv PROVE TypeOK
  <2>1. ASSUME NEW i \in Id
        PROVE  Cardinality(madeBy[i]) <= 1 /\ \A m \in madeBy[i] : m.by \in Req
    <3>1. madeBy[i] = {} \/ \E r \in Req : madeBy[i] = {[key |-> <<r>>, by |-> r]}
      BY <1>1 DEF IInv, BaseInv, MadeInv
    <3>2. CASE madeBy[i] = {}
      BY <3>2, FS_EmptySet
    <3>3. ASSUME NEW r \in Req, madeBy[i] = {[key |-> <<r>>, by |-> r]}
          PROVE  Cardinality(madeBy[i]) <= 1 /\ \A m \in madeBy[i] : m.by \in Req
      <4>1. Cardinality(madeBy[i]) = 1
        BY <3>3, FS_Singleton
      <4> QED
        BY <3>3, <4>1
    <3> QED
      BY <3>1, <3>2, <3>3
  <2> QED
    BY <1>1, <2>1 DEF TypeOK, IInv, BaseInv, Request, Used
<1> QED
  BY <1>1, Invariance, PTL

(* One create makes one machine at most, however often the client repeats    *)
(* it and whatever answers are lost (DesktopClient::create,                *)
(* request_with_retry).                                                    *)
THEOREM OneMachinePerCreateHolds ==
  ASSUME DestroyServed PROVE Spec => []OneMachinePerCreate
<1>1. ASSUME IInv PROVE OneMachinePerCreate
  <2> SUFFICES ASSUME NEW i \in Id, NEW j \in Id, NEW p \in madeBy[i], NEW q \in madeBy[j],
                      p.by = q.by
               PROVE  i = j
    BY DEF OneMachinePerCreate
  <2>1. PICK r \in Req : madeBy[i] = {[key |-> <<r>>, by |-> r]}
    BY <1>1 DEF IInv, BaseInv, MadeInv
  <2>2. PICK s \in Req : madeBy[j] = {[key |-> <<s>>, by |-> s]}
    BY <1>1 DEF IInv, BaseInv, MadeInv
  <2>3. r = s
    BY <2>1, <2>2
  <2> QED
    BY <1>1, <2>1, <2>2, <2>3 DEF IInv, BaseInv, MadeInv
<1> QED
  BY <1>1, Invariance, PTL

(* A destroy that was answered "ok" destroyed the machine, as long as the    *)
(* provider knows one of the routes (VmManager::destroy).                  *)
THEOREM DestroyedIsGoneHolds ==
  ASSUME DestroyServed PROVE Spec => []DestroyedIsGone
<1>1. IInv => DestroyedIsGone
  BY DEF IInv, Destroys, Gone, DestroyedIsGone
<1> QED
  BY <1>1, Invariance, PTL

(* A cleanup that saw the provider's list and reports no error left none of  *)
(* its machines (cleanup_vms).                                             *)
THEOREM CleanupReportsTruthHolds ==
  ASSUME DestroyServed PROVE Spec => []CleanupReportsTruth
<1>1. IInv => CleanupReportsTruth
  BY DEF IInv, Cleans, Gone, CleanupReportsTruth
<1> QED
  BY <1>1, Invariance, PTL

--------------------------------------------------------------------------------
(* What is tracked. *)

(* Request r goes on as d: it stays what it was, and only a destroy and a    *)
(* cleanup take from the sessions, only what they destroy.                 *)
GoesOn(r, d) ==
  LET c == req[r] IN
  /\ req' = [req EXCEPT ![r] = d]
  /\ UNCHANGED restarts
  /\ d.stage # "idle" /\ (c.stage # "idle" => d.op = c.op /\ (c.op = "destroy" => d.id = c.id))
  /\ d.stage = "done" /\ d.op = "create" /\ d.reply = "ok" => d.id \in sessions'
  /\ \/ sessions \subseteq sessions'
     \/ d.op = "destroy" /\ sessions' = sessions \ {d.id}
     \/ d.op = "cleanup"

(* Every step of a request is such a move. *)
LEMMA StepGoesOn ==
  ASSUME IInv, NEW r \in Req, Step(r) \/ Arrive(r) \/ HangUp(r)
  PROVE  \E d : GoesOn(r, d)
<1> DEFINE c == req[r]
<1>0. c \in Request /\ c.reply \in {"ok", "error"} /\ Named(c, Used)
  BY RequestIs DEF Request
<1>1. CASE Arrive(r)
  <2>1. PICK op \in Op, via \in {"http", "ipc"}, i \in Id \cup {NoId} :
           req' = [req EXCEPT ![r] = [Idle EXCEPT !.op = op, !.id = i, !.via = via,
                                                     !.stage = "check"]]
    BY <1>1 DEF Arrive
  <2> DEFINE d == [Idle EXCEPT !.op = op, !.id = i, !.via = via, !.stage = "check"]
  <2>2. d.stage = "check"
    BY IdleIs DEF Request
  <2>3. c.stage = "idle" /\ UNCHANGED <<restarts, sessions>> /\ req' = [req EXCEPT ![r] = d]
    BY <1>1, <2>1 DEF Arrive
  <2> HIDE DEF c, d
  <2> QED
    BY <2>2, <2>3 DEF GoesOn, c
<1>2. CASE Turned(r)
  <2> DEFINE d == End(c, "error")
  <2>1. d.stage = "done" /\ d.op = c.op /\ d.id = c.id /\ d.reply = "error"
    BY <1>0, EndIs
  <2> HIDE DEF d
  <2> QED
    BY <1>2, <2>1 DEF Turned, GoesOn, d
<1>3. CASE Admit(r)
  <2> DEFINE d == IF c.op = "cleanup"
                    THEN [c EXCEPT !.stage = "sweep", !.snap = sessions, !.left = sessions]
                    ELSE Call(c)
  <2>1. d.stage \in {"sweep", "call"} /\ d.op = c.op /\ d.id = c.id
    BY <1>0, CallIs DEF Request
  <2>2. req' = [req EXCEPT ![r] = d] /\ UNCHANGED <<restarts, sessions>>
    BY <1>3 DEF Admit
  <2> HIDE DEF c, d
  <2> QED
    BY <2>1, <2>2 DEF GoesOn, c
<1>4. CASE Attempt(r)
  <2>1. c.stage = "call" /\ UNCHANGED <<restarts, sessions>>
    BY <1>4 DEF Attempt
  <2>2. ASSUME NEW i \in Id \cup {NoId}, NEW reply \in Reply,
               req' = [req EXCEPT ![r] = After(c, i, reply)], c.op # "create" => i = c.id
        PROVE  \E d : GoesOn(r, d)
    <3> DEFINE d == After(c, i, reply)
    <3>1. d.op = c.op /\ d.stage \in {"call", "back"} /\ d.id \in {c.id, i}
      BY <1>0, <2>1, <2>2, AfterIs
    <3>2. req' = [req EXCEPT ![r] = d]
      BY <2>2
    <3> HIDE DEF c, d
    <3> QED
      BY <2>1, <2>2, <3>1, <3>2 DEF GoesOn, c
  <2>3. \E i \in Id \cup {NoId}, reply \in Reply :
           req' = [req EXCEPT ![r] = After(c, i, reply)] /\ (c.op # "create" => i = c.id)
    <3>1. CASE \E reply \in {"transient", "broken", "lost", "refused", "not_found"} :
                  req' = [req EXCEPT ![r] = After(c, c.id, reply)]
      BY <1>0, <3>1 DEF Reply, Request
    <3>2. ASSUME NEW e \in Effects(r, c), NEW heard \in {e.reply, "transient", "broken", "lost"},
                 req' = [req EXCEPT ![r] = After(c, IF heard = "ok" THEN e.id ELSE c.id, heard)]
          PROVE  \E i \in Id \cup {NoId}, reply \in Reply :
                   req' = [req EXCEPT ![r] = After(c, i, reply)] /\ (c.op # "create" => i = c.id)
      <4>1. e.id \in Id /\ e.reply \in Reply /\ (c.op # "create" => e.id = c.id)
        BY <2>1, EffectsAre DEF IInv
      <4>2. heard \in Reply
        BY <4>1 DEF Reply
      <4>3. (IF heard = "ok" THEN e.id ELSE c.id) \in Id \cup {NoId}
        BY <1>0, <4>1 DEF Request
      <4> QED
        BY <3>2, <4>1, <4>2, <4>3
    <3>3. \/ \E reply \in {"transient", "broken", "lost", "refused"} :
               req' = [req EXCEPT ![r] = After(c, c.id, reply)]
          \/ req' = [req EXCEPT ![r] = After(c, c.id, "not_found")]
          \/ \E e \in Effects(r, c) : \E heard \in {e.reply, "transient", "broken", "lost"} :
               req' = [req EXCEPT ![r] = After(c, IF heard = "ok" THEN e.id ELSE c.id, heard)]
      BY <1>4, Zenon DEF Attempt
    <3> QED
      BY <3>1, <3>2, <3>3
  <2> QED
    BY <2>2, <2>3
<1>5. ASSUME NEW s \in Waiting \cup Over, req' = [req EXCEPT ![r].stage = s],
             s # "done", UNCHANGED <<restarts, sessions>>
      PROVE  \E d : GoesOn(r, d)
  <2> DEFINE d == [c EXCEPT !.stage = s]
  <2>1. d.op = c.op /\ d.id = c.id /\ d.stage = s /\ s # "idle"
    BY <1>0 DEF Request, Waiting, Over
  <2>2. req' = [req EXCEPT ![r] = d]
    BY <1>5
  <2> HIDE DEF c, d
  <2> QED
    BY <1>5, <2>1, <2>2 DEF GoesOn, c
<1>6. CASE Provisioned(r) \/ HangUp(r)
  <2>1. "poll" \in Waiting /\ "cut" \in Over
    BY DEF Waiting, Over
  <2> QED
    BY <1>5, <1>6, <2>1 DEF Provisioned, HangUp
<1>7. CASE Poll(r)
  <2>1. PICK p, m : \/ req' = [req EXCEPT ![r] = [c EXCEPT !.stage = "track"]]
                    \/ req' = [req EXCEPT ![r] = [c EXCEPT !.polls = p, !.misses = m]]
    BY <1>7 DEF Poll
  <2>2. c.stage = "poll" /\ UNCHANGED <<restarts, sessions>>
    BY <1>7 DEF Poll
  <2>3. PICK d \in {[c EXCEPT !.stage = "track"], [c EXCEPT !.polls = p, !.misses = m]} :
           req' = [req EXCEPT ![r] = d]
    BY <2>1
  <2>4. d.op = c.op /\ d.id = c.id /\ d.stage \in {"poll", "track"}
    BY <1>0, <2>2, <2>3 DEF Request
  <2> HIDE DEF c
  <2> QED
    BY <2>2, <2>3, <2>4 DEF GoesOn, c
<1>8. CASE Track(r) \/ Destroyed(r) \/ Resumed(r) \/ PassedOn(r)
  <2>1. PICK reply \in {"ok", "error"} :
          /\ req' = [req EXCEPT ![r] = End(c, reply)] /\ UNCHANGED restarts
          /\ \/ sessions' = sessions \cup {c.id}
             \/ c.op = "destroy" /\ sessions' = sessions \ {c.id}
             \/ (c.op # "create" \/ reply # "ok") /\ sessions' = sessions
    BY <1>0, <1>8 DEF Track, Destroyed, Resumed, PassedOn
  <2> DEFINE d == End(c, reply)
  <2>2. d.stage = "done" /\ d.op = c.op /\ d.id = c.id /\ d.reply = reply
    BY <1>0, EndIs
  <2>3. req' = [req EXCEPT ![r] = d]
    BY <2>1
  <2> HIDE DEF c, d
  <2> QED
    BY <2>1, <2>2, <2>3 DEF GoesOn, c
<1>9. ASSUME NEW d, req' = [req EXCEPT ![r] = d], c.op = "cleanup", d.op = "cleanup",
             d.stage # "idle", UNCHANGED restarts
      PROVE  \E x : GoesOn(r, x)
  <2>1. GoesOn(r, d)
    BY <1>9 DEF GoesOn
  <2> QED
    BY <2>1
<1>10. CASE SweepNext(r) \/ Swept(r) \/ List(r) \/ DeleteNext(r)
  <2>1. c.op = "cleanup" /\ UNCHANGED restarts
    BY <1>0, <1>10 DEF Named, SweepNext, Swept, List, DeleteNext
  <2>2. End(c, "ok").op = "cleanup" /\ End(c, "ok").stage = "done"
    BY <1>0, <2>1, EndIs
  <2>3. ASSUME SweepNext(r) PROVE \E d : GoesOn(r, d)
    <3>1. UNCHANGED sessions
      BY <2>3 DEF SweepNext
    <3>2. "list" \in Waiting
      BY DEF Waiting
    <3>3. CASE req' = [req EXCEPT ![r].stage = "list"]
      BY <1>5, <2>1, <3>1, <3>2, <3>3
    <3>4. ASSUME NEW i, req' = [req EXCEPT ![r] = [Call(c) EXCEPT !.id = i]]
          PROVE  \E d : GoesOn(r, d)
      <4>1. /\ [Call(c) EXCEPT !.id = i].op = "cleanup"
            /\ [Call(c) EXCEPT !.id = i].stage = "call"
        BY <1>0, <2>1, CallIs DEF Request
      <4> QED
        BY <1>9, <2>1, <3>4, <4>1
    <3>5. \/ req' = [req EXCEPT ![r].stage = "list"]
          \/ \E i : req' = [req EXCEPT ![r] = [Call(c) EXCEPT !.id = i]]
      BY <2>3 DEF SweepNext
    <3> QED
      BY <3>3, <3>4, <3>5
  <2>4. ASSUME Swept(r) PROVE \E d : GoesOn(r, d)
    <3> DEFINE d == [c EXCEPT !.stage = "sweep", !.left = @ \ {c.id}, !.errors = @ \/ c.reply # "ok"]
    <3>1. d.op = "cleanup" /\ d.stage = "sweep"
      BY <1>0, <2>1 DEF Request
    <3>2. req' = [req EXCEPT ![r] = d]
      BY <2>4, Zenon DEF Swept
    <3> HIDE DEF c, d
    <3> QED
      BY <1>9, <2>1, <3>1, <3>2
  <2>5. ASSUME List(r) PROVE \E d : GoesOn(r, d)
    <3> DEFINE d == [c EXCEPT !.stage = "raw", !.listed = TRUE, !.there = Alive,
                              !.left = Alive \ c.snap]
    <3>1. d.op = "cleanup" /\ d.stage = "raw"
      BY <1>0, <2>1 DEF Request
    <3>2. req' = [req EXCEPT ![r] = d] \/ req' = [req EXCEPT ![r] = End(c, "ok")]
      BY <2>5 DEF List
    <3> HIDE DEF c, d
    <3> QED
      BY <1>9, <2>1, <2>2, <3>1, <3>2
  <2>6. ASSUME DeleteNext(r) PROVE \E d : GoesOn(r, d)
    <3>1. CASE req' = [req EXCEPT ![r] = End(c, "ok")]
      BY <1>9, <2>1, <2>2, <3>1
    <3>2. ASSUME NEW i, NEW heard \in BOOLEAN,
                 req' = [req EXCEPT ![r] = [c EXCEPT !.left = @ \ {i}, !.errors = @ \/ ~heard]]
          PROVE  \E d : GoesOn(r, d)
      <4> DEFINE d == [c EXCEPT !.left = @ \ {i}, !.errors = @ \/ ~heard]
      <4>1. d.op = "cleanup" /\ d.stage = "raw"
        BY <1>0, <2>1, <2>6 DEF Request, DeleteNext
      <4>2. req' = [req EXCEPT ![r] = d]
        BY <3>2
      <4> HIDE DEF c, d
      <4> QED
        BY <1>9, <2>1, <4>1, <4>2
    <3> QED
      BY <2>6, <3>1, <3>2 DEF DeleteNext
  <2> QED
    BY <1>10, <2>3, <2>4, <2>5, <2>6
<1> QED
  BY <1>1, <1>2, <1>3, <1>4, <1>6, <1>7, <1>8, <1>10 DEF Step, Unauthorized, NotImplemented

(* CreatedIsTracked without its type invariant. *)
Tracked ==
  \A r \in Req :
    /\ req[r].op = "create" /\ req[r].stage = "done" /\ req[r].reply = "ok"
    /\ restarts = 0
    /\ \A q \in Req : req[q].stage # "idle" =>
          req[q].op # "cleanup" /\ ~(req[q].op = "destroy" /\ req[q].id = req[r].id)
    => req[r].id \in sessions

(* Every step keeps Tracked. *)
LEMMA TrackedStep == ASSUME IInv, Tracked, [Next]_vars PROVE Tracked'
<1>0. req \in [Req -> Request] /\ restarts \in Nat
  BY VmAssumption DEF IInv, BaseInv
<1>1. ASSUME NEW p \in Req, NEW d, GoesOn(p, d) PROVE Tracked'
  <2> SUFFICES ASSUME NEW r \in Req,
                      req'[r].op = "create", req'[r].stage = "done", req'[r].reply = "ok",
                      restarts' = 0,
                      \A q \in Req : req'[q].stage # "idle" =>
                        req'[q].op # "cleanup" /\ ~(req'[q].op = "destroy" /\ req'[q].id = req'[r].id)
               PROVE  req'[r].id \in sessions'
    BY DEF Tracked
  <2>1. req'[p] = d /\ \A q \in Req \ {p} : req'[q] = req[q]
    BY <1>0, <1>1 DEF GoesOn
  <2>2. CASE r = p
    BY <1>1, <2>1, <2>2 DEF GoesOn
  <2>3. CASE r # p
    <3>1. req'[r] = req[r]
      BY <2>1, <2>3
    <3>2. \A q \in Req : req[q].stage # "idle" =>
            req[q].op # "cleanup" /\ ~(req[q].op = "destroy" /\ req[q].id = req[r].id)
      BY <1>1, <2>1, <3>1 DEF GoesOn
    <3>3. req[r].id \in sessions
      BY <1>1, <3>1, <3>2 DEF GoesOn, Tracked
    <3>4. d.op # "cleanup" /\ ~(d.op = "destroy" /\ d.id = req[r].id)
      BY <1>1, <2>1, <3>1 DEF GoesOn
    <3> QED
      BY <1>1, <3>1, <3>3, <3>4 DEF GoesOn
  <2> QED
    BY <2>2, <2>3
<1>2. ASSUME UNCHANGED <<req, sessions, restarts>> PROVE Tracked'
  BY <1>2 DEF Tracked
<1>3. CASE Restart
  <2>1. restarts' # 0
    BY <1>0, <1>3 DEF Restart
  <2> QED
    BY <2>1 DEF Tracked
<1>4. ASSUME NEW r \in Req, Arrive(r) \/ Step(r) \/ HangUp(r) PROVE Tracked'
  BY <1>1, <1>4, StepGoesOn
<1> QED
  BY <1>2, <1>3, <1>4 DEF Next, TimesOut, vars

(* A machine whose creation was answered is among the sessions, until        *)
(* somebody asks to destroy it or the daemon stops (VmManager::provision). *)
THEOREM CreatedIsTrackedHolds ==
  ASSUME DestroyServed PROVE Spec => []CreatedIsTracked
<1>1. Init => Tracked
  BY IdleIs DEF Init, Tracked
<1>2. IInv /\ Tracked /\ [Next]_vars => Tracked'
  BY TrackedStep
<1>3. TypeOK /\ Tracked => CreatedIsTracked
  BY DEF Tracked, CreatedIsTracked
<1> QED
  BY <1>1, <1>2, <1>3, Invariance, TypeCorrect, PTL DEF Spec
================================================================================
