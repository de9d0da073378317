----------------------------- MODULE VmService -----------------------------
(***************************************************************************)
(* sherd-vm: the requests a VM daemon serves at the same time, from the    *)
(* HTTP bridge or the local socket down to the calls of the Solari client, *)
(* and the machines they make, pause, resume and destroy at the provider.  *)
(*                                                                         *)
(* One request is one handler: it is checked, calls the client, waits for  *)
(* answers and updates `sessions` between them.  A step runs from one      *)
(* await to the next; requests interleave at every await.  A call of the   *)
(* client is a series of attempts over a series of routes; an attempt and  *)
(* what the provider does of it are one step.                              *)
(*                                                                         *)
(* Every tracked machine is a Linux one: the Windows provider refuses      *)
(* everything, so falling back to it only replaces one error by another.   *)
(***************************************************************************)
EXTENDS Naturals, FiniteSets, Sequences

CONSTANTS
    Req,           \* the requests, each served once
    Id,            \* the session ids the provider may hand out
    NoId,          \* no machine
    MaxRetries,    \* ClientOptions::max_retries
    HealthPolls,   \* HEALTH_POLL_ATTEMPTS
    MissesToReady, \* the 404 answers after which a machine counts as ready
    Earlier,       \* machines an earlier daemon left at the provider
    Serves,        \* the <<operation, route>> pairs the provider knows
    Cap,           \* machines the plan lets run at once
    MaxRestarts    \* bound: restarts of the daemon

Route == {"desktops", "sandboxes", "vms"}

\* Operations: "use" stands for whatever neither makes nor stops a machine:
\* get, health, status, stream_url, screenshot, set_timeout, exec, fs_*, input.
Op == {"create", "destroy", "pause", "resume", "use", "cleanup"}

\* What the client makes of an answer, or of none: "broken" is a connection
\* that failed, "lost" one that timed out or broke while the body was read.
Reply == {"ok", "not_found", "limit", "refused", "transient", "broken", "lost"}

ASSUME VmAssumption ==
    /\ NoId \notin Id
    /\ {MaxRetries, HealthPolls, MissesToReady, Cap, MaxRestarts} \subseteq Nat
    /\ HealthPolls > 0 /\ MissesToReady > 0
    /\ Earlier \subseteq Id /\ Cardinality(Earlier) <= Cap
    /\ Serves \subseteq Op \X Route

VARIABLES
    vm,        \* at the provider: what has become of each id
    madeBy,    \* at the provider: the create that made the machine, and its key
    sessions,  \* VmManager::sessions
    req,       \* where each request stands
    restarts   \* restarts so far

vars == <<vm, madeBy, sessions, req, restarts>>

Waiting == {"check", "call", "back", "poll", "track", "sweep", "list", "raw"}
Over    == {"done", "cut"}

Idle == [op |-> "use", id |-> NoId, via |-> "ipc", stage |-> "idle", route |-> 1,
         attempt |-> 1, polls |-> 0, misses |-> 0, reply |-> "ok",
         snap |-> {}, left |-> {}, there |-> {}, listed |-> FALSE, errors |-> FALSE]

\* The provider may hold machines that an earlier daemon left behind.
Init ==
    /\ vm \in {f \in [Id -> {"free", "running", "paused"}] :
                \A i \in Id : (f[i] = "free") <=> (i \notin Earlier)}
    /\ madeBy = [i \in Id |-> {}]
    /\ sessions = {}
    /\ req = [r \in Req |-> Idle]
    /\ restarts = 0

-----------------------------------------------------------------------------
(* The client *)

\* The operation a request's current call is for: cleanup destroys.
CallOp(c) == IF c.op = "cleanup" THEN "destroy" ELSE c.op

\* The routes an operation is tried at, in turn, while it is not found.
Routes(op) ==
    CASE op = "create"  -> <<"sandboxes", "desktops", "vms">>
      [] op = "destroy" -> <<"desktops", "sandboxes", "vms">>
      [] OTHER          -> <<"desktops", "vms">>

\* The idempotency key of a request's create: one for all of its attempts.
KeyPerAttempt(r, c) == <<r, c.route, c.attempt>>
Key(r, c) == <<r>>

\* request_with_retry goes round again.
RetriesForEver(c, reply) == reply \in {"transient", "broken"}

Retries(c, reply) ==
    /\ reply \in {"transient", "broken"}
    /\ c.attempt <= MaxRetries

FallsBack(c, reply) ==
    /\ reply = "not_found"
    /\ c.route < Len(Routes(CallOp(c)))

\* What the manager is told in the end: whoever is not found is destroyed.
OutcomeLenient(c, reply) ==
    IF reply = "ok" \/ (CallOp(c) = "destroy" /\ reply \in {"not_found", "lost"})
      THEN "ok" ELSE "error"

Outcome(c, reply) ==
    IF reply = "ok" \/ (CallOp(c) = "destroy" /\ reply = "not_found")
      THEN "ok" ELSE "error"

\* Where a call stands after an attempt for machine i was answered.
After(c, i, reply) ==
    IF Retries(c, reply)
      THEN [c EXCEPT !.attempt = IF @ > MaxRetries THEN @ ELSE @ + 1]
    ELSE IF FallsBack(c, reply)
      THEN [c EXCEPT !.route = @ + 1, !.attempt = 1]
    ELSE [c EXCEPT !.stage = "back", !.reply = Outcome(c, reply),
                   !.id = i, !.route = 1, !.attempt = 1]

Call(c) == [c EXCEPT !.stage = "call", !.route = 1, !.attempt = 1]

-----------------------------------------------------------------------------
(* The provider *)

Alive   == {i \in Id : vm[i] \in {"running", "paused"}}
Running == {i \in Id : vm[i] = "running"}
Free    == {i \in Id : vm[i] = "free"}

\* The provider hands out an id it never used before.
FreshId == CHOOSE i \in Free : TRUE

To(i, s, reply) == {[id |-> i, state |-> s, reply |-> reply]}

\* What a create may do: with a known key it is answered with the machine the
\* key made.
Creation(r, c) ==
    LET made == {i \in Id : \E m \in madeBy[i] : m.key = Key(r, c)} IN
    IF made # {} THEN UNION {To(i, vm[i], "ok") : i \in made}
    ELSE IF Free = {} THEN {}
    ELSE IF Cardinality(Running) < Cap THEN To(FreshId, "running", "ok")
    ELSE To(FreshId, "free", "limit")

\* What an attempt may do: the machine, its new state, the answer.
Effects(r, c) ==
    CASE c.op = "create" -> Creation(r, c)
      [] CallOp(c) = "destroy" -> To(c.id, "gone", "ok")
      [] c.op = "use" -> UNION {To(c.id, vm[c.id], a) : a \in {"ok", "not_found", "refused"}}
      [] c.op \in {"pause", "resume"} ->
           IF vm[c.id] = "gone" THEN To(c.id, "gone", "not_found")
           ELSE IF c.op = "pause" THEN To(c.id, "paused", "ok")
           ELSE IF vm[c.id] = "paused" /\ Cardinality(Running) >= Cap
             THEN To(c.id, "paused", "limit")
           ELSE To(c.id, "running", "ok")

\* One attempt.  It fails on the way or at a gateway without effect; or the
\* route is unknown; or it takes effect and the answer arrives, or is lost.
Attempt(r) ==
    LET c == req[r]
        place == <<CallOp(c), Routes(CallOp(c))[c.route]>>
    IN
    /\ c.stage = "call"
    /\ \/ \E reply \in {"transient", "broken", "lost", "refused"} :
            /\ req' = [req EXCEPT ![r] = After(c, c.id, reply)]
            /\ UNCHANGED <<vm, madeBy>>
       \/ /\ place \notin Serves
          /\ req' = [req EXCEPT ![r] = After(c, c.id, "not_found")]
          /\ UNCHANGED <<vm, madeBy>>
       \/ /\ place \in Serves
          /\ \E e \in Effects(r, c) :
               /\ vm' = [vm EXCEPT ![e.id] = e.state]
               /\ madeBy' = IF vm[e.id] = "free" /\ e.state # "free"
                              THEN [madeBy EXCEPT ![e.id] = {[key |-> Key(r, c), by |-> r]}]
                              ELSE madeBy
               /\ \E heard \in {e.reply, "transient", "broken", "lost"} :
                    req' = [req EXCEPT ![r] =
                              After(c, IF heard = "ok" THEN e.id ELSE c.id, heard)]
    /\ UNCHANGED <<sessions, restarts>>

\* The provider's idle timeout, by the machine's lifecycle.
TimesOut(i) ==
    /\ vm[i] = "running"
    /\ \E s \in {"paused", "gone"} : vm' = [vm EXCEPT ![i] = s]
    /\ UNCHANGED <<madeBy, sessions, req, restarts>>

-----------------------------------------------------------------------------
(* The daemon *)

End(c, reply) == [c EXCEPT !.stage = "done", !.reply = reply, !.polls = 0, !.misses = 0,
                           !.snap = {}]

\* A request comes in over the HTTP bridge or the local socket, for a machine
\* that was created at some time.
Arrive(r) ==
    /\ req[r].stage = "idle"
    /\ \E op \in Op, via \in {"http", "ipc"}, i \in Id \cup {NoId} :
         /\ (op \in {"create", "cleanup"}) <=> (i = NoId)
         /\ i # NoId => vm[i] # "free"
         /\ op = "cleanup" => via = "http"
         /\ req' = [req EXCEPT ![r] = [Idle EXCEPT !.op = op, !.id = i, !.via = via,
                                                   !.stage = "check"]]
    /\ UNCHANGED <<vm, madeBy, sessions, restarts>>

Turned(r) ==
    /\ req[r].stage = "check"
    /\ req' = [req EXCEPT ![r] = End(@, "error")]
    /\ UNCHANGED <<vm, madeBy, sessions, restarts>>

\* check_auth turns a request of the HTTP bridge away, cleanup too.
Unauthorized(r) == req[r].via = "http" /\ Turned(r)

\* Nothing is called: a Windows machine is asked for, or there is no API key.
NotImplemented(r) == req[r].op # "cleanup" /\ Turned(r)

\* The handler begins: cleanup lists the tracked sessions, the others call.
Admit(r) ==
    /\ req[r].stage = "check"
    /\ req' = [req EXCEPT ![r] =
                 IF @.op = "cleanup"
                   THEN [@ EXCEPT !.stage = "sweep", !.snap = sessions, !.left = sessions]
                   ELSE Call(@)]
    /\ UNCHANGED <<vm, madeBy, sessions, restarts>>

\* provision: the machine is there; wait for it to be ready.
Provisioned(r) ==
    /\ req[r].stage = "back" /\ req[r].op = "create" /\ req[r].reply = "ok"
    /\ req' = [req EXCEPT ![r].stage = "poll"]
    /\ UNCHANGED <<vm, madeBy, sessions, restarts>>

\* wait_for_ready: a poll is ready, not found, or something else; the loop
\* ends with the first "ready", enough "not found" in a row, or its bound,
\* and provision goes on whatever it ended with.
Poll(r) ==
    LET c == req[r] IN
    /\ c.stage = "poll"
    /\ \/ req' = [req EXCEPT ![r].stage = "track"]
       \/ \E misses \in {0, c.misses + 1} :
            req' = [req EXCEPT ![r] =
                      IF misses >= MissesToReady \/ c.polls + 1 >= HealthPolls
                        THEN [c EXCEPT !.stage = "track"]
                        ELSE [c EXCEPT !.polls = @ + 1, !.misses = misses]]
    /\ UNCHANGED <<vm, madeBy, sessions, restarts>>

\* provision ends: track the session, publish Created, answer.
TrackIfReady(r) ==
    /\ req[r].stage = "track"
    /\ sessions' = IF req[r].polls + 1 >= HealthPolls THEN sessions
                                                      ELSE sessions \cup {req[r].id}
    /\ req' = [req EXCEPT ![r] = End(@, "ok")]
    /\ UNCHANGED <<vm, madeBy, restarts>>

Track(r) ==
    /\ req[r].stage = "track"
    /\ sessions' = sessions \cup {req[r].id}
    /\ req' = [req EXCEPT ![r] = End(@, "ok")]
    /\ UNCHANGED <<vm, madeBy, restarts>>

\* destroy ends: the session is forgotten whatever the provider said.
Destroyed(r) ==
    /\ req[r].stage = "back" /\ req[r].op = "destroy"
    /\ sessions' = sessions \ {req[r].id}
    /\ req' = [req EXCEPT ![r] = End(@, @.reply)]
    /\ UNCHANGED <<vm, madeBy, restarts>>

\* resume ends: the session is tracked, whether or not it was before.
Resumed(r) ==
    /\ req[r].stage = "back" /\ req[r].op = "resume" /\ req[r].reply = "ok"
    /\ sessions' = sessions \cup {req[r].id}
    /\ req' = [req EXCEPT ![r] = End(@, "ok")]
    /\ UNCHANGED <<vm, madeBy, restarts>>

\* Every other answer is passed on.
PassedOn(r) ==
    LET c == req[r] IN
    /\ c.stage = "back"
    /\ c.op \in {"pause", "use"} \/ (c.op \in {"create", "resume"} /\ c.reply # "ok")
    /\ req' = [req EXCEPT ![r] = End(@, @.reply)]
    /\ UNCHANGED <<vm, madeBy, sessions, restarts>>

\* cleanup_vms, first loop: the tracked sessions, one destroy after another.
SweepNext(r) ==
    LET c == req[r] IN
    /\ c.stage = "sweep"
    /\ \/ /\ c.left = {}
          /\ req' = [req EXCEPT ![r].stage = "list"]
       \/ \E i \in c.left : req' = [req EXCEPT ![r] = [Call(c) EXCEPT !.id = i]]
    /\ UNCHANGED <<vm, madeBy, sessions, restarts>>

Swept(r) ==
    LET c == req[r] IN
    /\ c.stage = "back" /\ c.op = "cleanup"
    /\ sessions' = sessions \ {c.id}
    /\ req' = [req EXCEPT ![r] = [c EXCEPT !.stage = "sweep", !.left = @ \ {c.id},
                                           !.errors = @ \/ c.reply # "ok"]]
    /\ UNCHANGED <<vm, madeBy, restarts>>

\* cleanup_vms asks the provider what is there; a failure ends it.
ListSkippingTracked(r) ==
    /\ req[r].stage = "list"
    /\ \/ req' = [req EXCEPT ![r] = [@ EXCEPT !.stage = "raw", !.listed = TRUE, !.there = Alive,
                                              !.left = Alive \ sessions]]
       \/ req' = [req EXCEPT ![r] = End(@, "ok")]
    /\ UNCHANGED <<vm, madeBy, sessions, restarts>>

List(r) ==
    /\ req[r].stage = "list"
    /\ \/ req' = [req EXCEPT ![r] = [@ EXCEPT !.stage = "raw", !.listed = TRUE, !.there = Alive,
                                              !.left = Alive \ req[r].snap]]
       \/ req' = [req EXCEPT ![r] = End(@, "ok")]
    /\ UNCHANGED <<vm, madeBy, sessions, restarts>>

\* cleanup_vms, second loop: a bare DELETE for each id that was not tracked.
DeleteNext(r) ==
    LET c == req[r] IN
    /\ c.stage = "raw"
    /\ \/ /\ c.left = {}
          /\ req' = [req EXCEPT ![r] = End(c, "ok")]
          /\ UNCHANGED vm
       \/ \E i \in c.left, works, heard \in BOOLEAN :
            /\ heard => works
            /\ vm' = IF works THEN [vm EXCEPT ![i] = "gone"] ELSE vm
            /\ req' = [req EXCEPT ![r] = [c EXCEPT !.left = @ \ {i},
                                                   !.errors = @ \/ ~heard]]
    /\ UNCHANGED <<madeBy, sessions, restarts>>

\* The HTTP client goes away: its handler is dropped at the await it is in.
\* The reader of the local socket only looks when the answer is there.
HangUp(r) ==
    /\ req[r].stage \in Waiting /\ req[r].via = "http"
    /\ req' = [req EXCEPT ![r].stage = "cut"]
    /\ UNCHANGED <<vm, madeBy, sessions, restarts>>

\* The daemon is stopped and started: the sessions were only in its memory.
Restart ==
    /\ restarts < MaxRestarts
    /\ restarts' = restarts + 1
    /\ sessions' = {}
    /\ req' = [r \in Req |-> IF req[r].stage \in Waiting
                               THEN [req[r] EXCEPT !.stage = "cut"] ELSE req[r]]
    /\ UNCHANGED <<vm, madeBy>>

Step(r) ==
    \/ Unauthorized(r) \/ NotImplemented(r) \/ Admit(r) \/ Attempt(r)
    \/ Provisioned(r) \/ Poll(r) \/ Track(r) \/ Destroyed(r) \/ Resumed(r) \/ PassedOn(r)
    \/ SweepNext(r) \/ Swept(r) \/ List(r) \/ DeleteNext(r)

Next ==
    \/ \E r \in Req : Arrive(r) \/ Step(r) \/ HangUp(r)
    \/ \E i \in Id : TimesOut(i)
    \/ Restart

Spec == Init /\ [][Next]_vars

\* The calls without a time limit: check_auth's to the authentication server,
\* and those that cleanup_vms makes itself.
AtMercy(r) ==
    \/ req[r].stage = "check" /\ req[r].via = "http"
    \/ req[r].stage = "list"
    \/ req[r].stage = "raw" /\ req[r].left # {}

\* Every handler is a task of the runtime, and the Solari client's calls have
\* a time limit.
LiveSpec == Spec /\ \A r \in Req : WF_vars(~AtMercy(r) /\ Step(r))
-----------------------------------------------------------------------------
(* Properties *)

TypeOK ==
    /\ vm \in [Id -> {"free", "running", "paused", "gone"}]
    /\ \A i \in Id : Cardinality(madeBy[i]) <= 1 /\ \A m \in madeBy[i] : m.by \in Req
    /\ sessions \subseteq Id
    /\ req \in [Req -> [op : Op, id : Id \cup {NoId}, via : {"http", "ipc"},
                        stage : Waiting \cup Over \cup {"idle"},
                        route : 1..3, attempt : 1..MaxRetries + 1,
                        polls : 0..HealthPolls - 1, misses : 0..MissesToReady - 1, reply : {"ok", "error"},
                        snap : SUBSET Id, left : SUBSET Id, there : SUBSET Id,
                        listed : BOOLEAN, errors : BOOLEAN]]
    /\ restarts \in 0..MaxRestarts

\* One create makes one machine at most, however often the client repeats it
\* after an answer that was lost, and at however many routes
\* (DesktopClient::create and request_with_retry).
OneMachinePerCreate ==
    \A i, j \in Id : \A p \in madeBy[i], q \in madeBy[j] : p.by = q.by => i = j

\* A destroy that was answered "ok" destroyed the machine: no other request,
\* however it overlaps, finds it or brings it back (VmManager::destroy).
DestroyedIsGone ==
    \A r \in Req :
        req[r].op = "destroy" /\ req[r].stage = "done" /\ req[r].reply = "ok"
            => vm[req[r].id] = "gone"

\* A machine whose creation was answered is among the sessions the daemon
\* lists, until somebody asks to destroy it or the daemon stops, even if it
\* never became ready (VmManager::provision); and the state is well typed.
CreatedIsTracked ==
    TypeOK /\ \A r \in Req :
        /\ req[r].op = "create" /\ req[r].stage = "done" /\ req[r].reply = "ok"
        /\ restarts = 0
        /\ \A q \in Req : req[q].stage # "idle" =>
              req[q].op # "cleanup" /\ ~(req[q].op = "destroy" /\ req[q].id = req[r].id)
        => req[r].id \in sessions

\* A cleanup that saw the provider's list and reports no error left none of
\* the machines on it, those other requests made or tracked in the meantime
\* included (cleanup_vms).
CleanupReportsTruth ==
    \A r \in Req :
        req[r].op = "cleanup" /\ req[r].stage = "done" /\ req[r].listed /\ ~req[r].errors
            => \A i \in req[r].there : vm[i] = "gone"

\* Every request is over in the end, whatever the provider answers, or waits
\* for a call that has no time limit: retries, fallbacks, polls and loops are
\* bounded (request_with_retry, wait_for_ready, cleanup_vms).
RequestsEnd ==
    \A r \in Req : req[r].stage \in Waiting ~> req[r].stage \in Over \/ AtMercy(r)
=============================================================================
