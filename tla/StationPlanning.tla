---------------------------- MODULE StationPlanning ----------------------------
(***************************************************************************)
(* Which Wi-Fi every sherd device is on: SherdService::check,              *)
(* auto_connect and plan_station, run by the daemon's supervise loop and   *)
(* by `sherd auto`, together with the discovery beacons that tell a device *)
(* which hotspots hang below its own.                                      *)
(*                                                                         *)
(* A device is a number, its ID; the network of a device's hotspot is that *)
(* number too (the name is built from the ID), so `n > s` is joins_first.  *)
(* Time is abstract: an interval may end at any moment after it began.     *)
(***************************************************************************)
EXTENDS Integers, FiniteSets

CONSTANTS Device,     \* the devices, by ID
          CanHost,    \* those whose adapter is FullMeshCapable
          Refused,    \* those of them that Windows refuses a hotspot all the same,
                      \* for good or while they have no connection to share
          Sherd,      \* networks of Sherd devices, also of some that are not modelled
          Foreign,    \* other networks
          NoNet,      \* None
          Off,        \* in place of a network: the Wi-Fi radio is off
          Signal,     \* Signal[n][s]: signal_percent of network s at n, 0 out of range
          RoamMargin, \* ROAM_MARGIN
          Runner,     \* the tasks of a daemon that call auto_connect
          Watchdog,   \* the one of them that runs supervise
          Handled,    \* devices that people and clients touch
          Failing,    \* devices whose operating system calls fail now and then
          MaxUpsets   \* bound: changes by hand, restarts, client commands and
                      \* failed calls, together

Net == Sherd \cup Foreign

ASSUME StationAssumption ==
    /\ Sherd \subseteq Nat /\ Device \subseteq Sherd
    /\ CanHost \subseteq Device /\ Refused \subseteq CanHost
    /\ Foreign \cap Sherd = {}
    /\ NoNet \notin Net
    /\ Off \notin Net \cup {NoNet}
    /\ Signal \in [Device -> [Net -> 0 .. 100]]
    /\ RoamMargin \in Nat
    /\ Watchdog \in Runner
    /\ Handled \subseteq Device /\ Failing \subseteq Device
    /\ MaxUpsets \in Nat

VARIABLES up,         \* up[n]: the daemon of n runs
          wifi,       \* wifi[n]: the network the adapter of n is on, NoNet or Off
          hotspot,    \* hotspot[n]: the hotspot of n is on the air
          links,      \* links[n]: the LinkSnapshot that the beacons of n carry
          downstream, \* downstream[n]: hotspots of the clients of n's hotspot
          firstSeen,  \* firstSeen[n][s]: "unseen", "new", or "graced" past JOIN_GRACE
          task,       \* task[n][r]: the check or auto_connect that r is running
          hands, faults

vars == <<up, wifi, hotspot, links, downstream, firstSeen, task, hands, faults>>

--------------------------------------------------------------------------------
(* The environment: who sees and hears whom. *)

InRange(n)    == {s \in Net : s # n /\ Signal[n][s] > 0}
OnAir(s)      == s \in Device => hotspot[s]
Visible(n)    == {s \in InRange(n) : OnAir(s)}
Current(n) == IF wifi[n] = Off THEN NoNet ELSE wifi[n]
Cut(w, s)     == [m \in Device |-> IF w[m] = s THEN NoNet ELSE w[m]]

\* m and n share a network that carries a broadcast.
Near(m, n) == \/ wifi[m] = n \/ wifi[n] = m
              \/ wifi[m] = wifi[n] /\ wifi[m] \in Net

Fault(n) == n \in Failing /\ hands + faults < MaxUpsets /\ faults' = faults + 1
NoFault == UNCHANGED faults
Hand(n)  == n \in Handled /\ hands + faults < MaxUpsets /\ hands' = hands + 1

\* What reading the station's status returns: None when the call fails.
StatusRead(n, w) == (w = Current(n) /\ NoFault) \/ (w = NoNet /\ Fault(n))

\* The networks a scan reports: a failed one none, a cached list also old ones.
ScanRead(n, scan) ==
    (scan = Visible(n) /\ NoFault) \/ (scan \in SUBSET InRange(n) \ {Visible(n)} /\ Fault(n))

--------------------------------------------------------------------------------
(* plan_station: what the Wi-Fi should be on. *)

JoinsFirst(n, s) == n > s
MayJoin(n, s)    == JoinsFirst(n, s) \/ firstSeen[n][s] = "graced"

\* A mutant: the devices below are not left out.
CandidatesBelow(n, scan) == {s \in scan \cap Sherd : s # n}

Candidates(n, scan) == {s \in scan \cap Sherd : s # n /\ s \notin downstream[n]}

\* The first of the list sorted by signal; a tie is broken by the scan's order.
Best(n, S) == CHOOSE s \in S : \A other \in S : Signal[n][s] >= Signal[n][other]

Closer(n, current, scan) ==
    LET candidates == Candidates(n, scan) IN
    IF candidates = {} \/ current \notin scan THEN {}
    ELSE {s \in {Best(n, candidates)} :
             /\ s # current
             /\ Signal[n][s] >= Signal[n][current] + RoamMargin
             /\ MayJoin(n, s)}

\* A mutant: both devices of a loop leave it.
BothMustLeave(n, current) == current \in downstream[n]

MustLeave(n, current) == current \in downstream[n] /\ ~JoinsFirst(n, current)

PlanStation(n, current, scan) ==
    LET candidates == Candidates(n, scan)
        allowed    == {s \in candidates : MayJoin(n, s)}
        closer     == Closer(n, current, scan)
    IN CASE current \in Sherd /\ MustLeave(n, current) -> [kind |-> "leave", nets |-> {}]
         [] current \in Sherd /\ ~MustLeave(n, current) /\ closer # {}
                -> [kind |-> "join", nets |-> closer]
         [] current \in Sherd /\ ~MustLeave(n, current) /\ closer = {}
                -> [kind |-> "stay", nets |-> {}]
         [] current \notin Sherd /\ allowed # {} -> [kind |-> "join", nets |-> allowed]
         [] current \notin Sherd /\ allowed = {} /\ candidates # {}
                -> [kind |-> "waiting", nets |-> {}]
         [] current \notin Sherd /\ candidates = {} -> [kind |-> "nothing", nets |-> {}]

\* The memory the wrapper of plan_station keeps of the networks in sight.
See(n, scan) ==
    firstSeen' = [firstSeen EXCEPT ![n] = [s \in Sherd |->
        CASE s \notin scan -> "unseen"
          [] s \in scan /\ @[s] = "unseen" -> "new"
          [] OTHER -> @[s]]]

--------------------------------------------------------------------------------
(* supervise and check. *)

Idle == [at |-> "idle", was |-> NoNet, bad |-> FALSE, todo |-> {}, uplink |-> NoNet]

Step(n, r, new) == task' = [task EXCEPT ![n][r] = new]
At(n, r, where) == up[n] /\ task[n][r].at = where

Snapshot(h, u) == [hosting |-> h, uplink |-> u]
Truth(n, u)    == Snapshot(IF hotspot[n] THEN n ELSE NoNet, u)

\* A mutant: only auto_connect records the links.
RememberNothing(n, w) == UNCHANGED links

RememberLinks(n, w) == links' = [links EXCEPT ![n] = Truth(n, w)]

\* The watchdog's turn: it reads the hotspot, the radio and the station.
Check(n) ==
    /\ At(n, Watchdog, "idle")
    /\ LET broken == n \in CanHost /\ ~hotspot[n] IN
       \/ /\ wifi[n] = Off
          /\ Step(n, Watchdog, [Idle EXCEPT !.at = "starting"])
          /\ UNCHANGED <<links, faults>>
       \/ /\ wifi[n] # Off
          /\ \E w \in {Current(n), NoNet} :
                /\ StatusRead(n, w)
                /\ RememberLinks(n, w)
                /\ Step(n, Watchdog, [Idle EXCEPT !.at = "checking", !.was = w, !.bad = broken])
    /\ UNCHANGED <<up, wifi, hotspot, downstream, firstSeen, hands>>

\* The scan is back: with a problem it goes on to auto_connect, else it sleeps.
CheckPlan(n, scan) ==
    LET t    == task[n][Watchdog]
        plan == PlanStation(n, t.was, scan).kind
        problem == \/ t.bad
                   \/ plan \in {"join", "leave"}
                   \/ plan = "nothing" /\ n \notin CanHost /\ t.was \notin Sherd
    IN /\ At(n, Watchdog, "checking")
       /\ ScanRead(n, scan)
       /\ See(n, scan)
       /\ Step(n, Watchdog, IF problem THEN [Idle EXCEPT !.at = "starting"] ELSE Idle)
       /\ UNCHANGED <<up, wifi, hotspot, links, downstream, hands>>

--------------------------------------------------------------------------------
(* auto_connect. *)

\* Asks what the adapter can do and switches the radio on if it is off (an
\* error of either ends the attempt), reads the station's status, and starts a
\* scan.
Begin(n, r) ==
    /\ At(n, r, "starting")
    /\ \/ Fault(n) /\ Step(n, r, Idle) /\ UNCHANGED wifi
       \/ /\ wifi[n] = Off /\ NoFault
          /\ wifi' = [wifi EXCEPT ![n] = NoNet]
          /\ Step(n, r, [Idle EXCEPT !.at = "scanning"])
       \/ /\ wifi[n] # Off
          /\ \E w \in {Current(n), NoNet} :
                StatusRead(n, w) /\ Step(n, r, [Idle EXCEPT !.at = "scanning", !.was = w])
          /\ UNCHANGED wifi
    /\ UNCHANGED <<up, hotspot, links, downstream, firstSeen, hands>>

Plan(n, r, scan) ==
    LET t    == task[n][r]
        plan == PlanStation(n, t.was, scan)
    IN /\ At(n, r, "scanning")
       /\ ScanRead(n, scan)
       /\ See(n, scan)
       /\ Step(n, r, CASE plan.kind = "join"  -> [t EXCEPT !.at = "joining", !.todo = plan.nets]
                       [] plan.kind = "leave" -> [t EXCEPT !.at = "leaving"]
                       [] plan.kind = "stay"  -> [t EXCEPT !.at = "hosting", !.uplink = t.was]
                       [] OTHER               -> [t EXCEPT !.at = "hosting"])
       /\ UNCHANGED <<up, wifi, hotspot, links, downstream, hands>>

\* LeaveLoop: whatever the Wi-Fi is on by now is disconnected.
Leave(n, r) ==
    /\ At(n, r, "leaving")
    /\ \/ /\ NoFault
          /\ wifi' = [wifi EXCEPT ![n] = IF @ = Off THEN Off ELSE NoNet]
       \/ Fault(n) /\ UNCHANGED wifi
    /\ Step(n, r, [task[n][r] EXCEPT !.at = "hosting"])
    /\ UNCHANGED <<up, hotspot, links, downstream, firstSeen, hands>>

\* join_first_working tries the strongest network left.  A connection that
\* does not come up in time may have cost the old one, or come up too late.
Joined(n, r, s) ==
    /\ NoFault
    /\ s \in Visible(n) /\ wifi[n] # Off
    /\ wifi' = [wifi EXCEPT ![n] = s]
    /\ Step(n, r, [task[n][r] EXCEPT !.at = "hosting", !.todo = {}, !.uplink = s])

\* A mutant: any network the Wi-Fi was on is reported as the uplink.
JoinFailedAnyUplink(n, r, s) ==
    LET t    == task[n][r]
        left == t.todo \ {s}
    IN /\ s \notin Visible(n) /\ NoFault /\ UNCHANGED wifi
       /\ Step(n, r, IF left # {} THEN [t EXCEPT !.todo = left]
                     ELSE [t EXCEPT !.at = "hosting", !.todo = {}, !.uplink = t.was])

JoinFailed(n, r, s) ==
    LET t    == task[n][r]
        left == t.todo \ {s}
        back == IF t.was \in Sherd THEN t.was ELSE NoNet
    IN /\ \/ s \notin Visible(n) /\ NoFault /\ \E w \in {wifi[n], NoNet} : wifi' = [wifi EXCEPT ![n] = w]
          \/ s \in Visible(n) /\ Fault(n) /\ \E w \in {wifi[n], NoNet, s} : wifi' = [wifi EXCEPT ![n] = w]
       /\ Step(n, r, IF left # {} THEN [t EXCEPT !.todo = left]
                     ELSE [t EXCEPT !.at = "hosting", !.todo = {}, !.uplink = back])

Join(n, r) ==
    /\ At(n, r, "joining")
    /\ LET s == Best(n, task[n][r].todo) IN
       IF wifi[n] = Off
       THEN /\ Step(n, r, [task[n][r] EXCEPT !.at = "hosting", !.todo = {},
                              !.uplink = IF task[n][r].was \in Sherd THEN task[n][r].was ELSE NoNet])
            /\ UNCHANGED <<wifi, faults>>
       ELSE Joined(n, r, s) \/ JoinFailed(n, r, s)
    /\ UNCHANGED <<up, hotspot, links, downstream, firstSeen, hands>>

\* The last part: the hotspot is started and the links are recorded.  A start
\* that failed or timed out is recorded as not hosting, whatever Windows does.
Host(n, r) ==
    LET t   == task[n][r]
        now == IF t.uplink = NoNet /\ t.was \in Foreign THEN t.was ELSE t.uplink
    IN /\ At(n, r, "hosting")
       /\ \/ /\ n \notin CanHost /\ NoFault
             /\ links' = [links EXCEPT ![n] = Snapshot(NoNet, now)]
             /\ UNCHANGED <<hotspot, wifi>>
          \/ /\ n \in CanHost /\ NoFault
             /\ links' = [links EXCEPT ![n] = Snapshot(n, now)]
             /\ hotspot' = [hotspot EXCEPT ![n] = TRUE]
             /\ UNCHANGED wifi
          \/ /\ n \in Refused /\ ~hotspot[n] /\ NoFault
             /\ links' = [links EXCEPT ![n] = Snapshot(NoNet, now)]
             /\ UNCHANGED <<hotspot, wifi>>
          \/ /\ n \in CanHost /\ Fault(n)
             /\ links' = [links EXCEPT ![n] = Snapshot(NoNet, now)]
             /\ \E on \in BOOLEAN :
                   /\ hotspot' = [hotspot EXCEPT ![n] = on]
                   /\ wifi' = IF on THEN wifi ELSE Cut(wifi, n)
       /\ Step(n, r, Idle)
       /\ UNCHANGED <<up, downstream, firstSeen, hands>>

--------------------------------------------------------------------------------
(* Beacons and the passing of time. *)

\* A mutant: the uplink of the beacon is recorded instead of its hotspot.
AnnounceSwapped(m, n) ==
    /\ m # n /\ up[m] /\ up[n] /\ Near(m, n)
    /\ links[m].uplink = n /\ links[m].hosting # NoNet
    /\ downstream' = [downstream EXCEPT ![n] = @ \cup {links[m].uplink}]
    /\ UNCHANGED <<up, wifi, hotspot, links, firstSeen, task, hands, faults>>

\* A beacon of m reaches n: a hotspot whose device is on ours hangs below us.
Announce(m, n) ==
    /\ m # n /\ up[m] /\ up[n] /\ Near(m, n)
    /\ links[m].uplink = n /\ links[m].hosting # NoNet
    /\ downstream' = [downstream EXCEPT ![n] = @ \cup {links[m].hosting}]
    /\ UNCHANGED <<up, wifi, hotspot, links, firstSeen, task, hands, faults>>

\* A mutant: what was once below stays so.
ForgetNever(n, s) == FALSE /\ UNCHANGED vars

\* DOWNSTREAM_MEMORY: s has not been announced below n for five minutes.
Forget(n, s) ==
    /\ s \in downstream[n]
    /\ ~(up[s] /\ Near(s, n) /\ links[s] = Snapshot(s, n))
    /\ downstream' = [downstream EXCEPT ![n] = @ \ {s}]
    /\ UNCHANGED <<up, wifi, hotspot, links, firstSeen, task, hands, faults>>

\* JOIN_GRACE has passed since n first saw s.
GraceEnds(n, s) ==
    /\ firstSeen[n][s] = "new"
    /\ firstSeen' = [firstSeen EXCEPT ![n][s] = "graced"]
    /\ UNCHANGED <<up, wifi, hotspot, links, downstream, task, hands, faults>>

--------------------------------------------------------------------------------
(* What people and clients do. *)

\* `sherd auto`, from a client's connection, beside the watchdog.
ClientAuto(n, r) ==
    /\ r # Watchdog /\ At(n, r, "idle") /\ Hand(n)
    /\ Step(n, r, [Idle EXCEPT !.at = "starting"])
    /\ UNCHANGED <<up, wifi, hotspot, links, downstream, firstSeen, faults>>

\* `sherd status` also records the links it reads.
ClientStatus(n) ==
    /\ up[n] /\ Hand(n)
    /\ RememberLinks(n, Current(n))
    /\ UNCHANGED <<up, wifi, hotspot, downstream, firstSeen, task, faults>>

\* Someone, or a client's station command, puts the Wi-Fi elsewhere.
WifiByHand(n, w) ==
    /\ Hand(n) /\ w # wifi[n]
    /\ w \in Visible(n) \cup {NoNet, Off}
    /\ wifi' = [wifi EXCEPT ![n] = w]
    /\ UNCHANGED <<up, hotspot, links, downstream, firstSeen, task, faults>>

HotspotByHand(n) ==
    /\ Hand(n) /\ hotspot[n]
    /\ hotspot' = [hotspot EXCEPT ![n] = FALSE]
    /\ wifi' = Cut(wifi, n)
    /\ UNCHANGED <<up, links, downstream, firstSeen, task, faults>>

\* The daemon goes, taking its hotspot and all it remembered; the Wi-Fi stays.
Stop(n) ==
    /\ Hand(n) /\ up[n]
    /\ up' = [up EXCEPT ![n] = FALSE]
    /\ hotspot' = [hotspot EXCEPT ![n] = FALSE]
    /\ wifi' = Cut(wifi, n)
    /\ links' = [links EXCEPT ![n] = Snapshot(NoNet, NoNet)]
    /\ downstream' = [downstream EXCEPT ![n] = {}]
    /\ firstSeen' = [firstSeen EXCEPT ![n] = [s \in Sherd |-> "unseen"]]
    /\ task' = [task EXCEPT ![n] = [r \in Runner |-> Idle]]
    /\ UNCHANGED faults

Start(n) ==
    /\ ~up[n]
    /\ up' = [up EXCEPT ![n] = TRUE]
    /\ UNCHANGED <<wifi, hotspot, links, downstream, firstSeen, task, hands, faults>>

--------------------------------------------------------------------------------

Init ==
    /\ up         = [n \in Device |-> FALSE]
    /\ wifi       \in [Device -> Foreign \cup {NoNet, Off}]
    /\ \A n \in Device : wifi[n] \in Foreign => wifi[n] \in InRange(n)
    /\ hotspot    = [n \in Device |-> FALSE]
    /\ links      = [n \in Device |-> Snapshot(NoNet, NoNet)]
    /\ downstream = [n \in Device |-> {}]
    /\ firstSeen  = [n \in Device |-> [s \in Sherd |-> "unseen"]]
    /\ task       = [n \in Device |-> [r \in Runner |-> Idle]]
    /\ hands = 0 /\ faults = 0

AutoConnect(n, r) ==
    \/ Begin(n, r)
    \/ \E scan \in SUBSET InRange(n) : Plan(n, r, scan)
    \/ Leave(n, r) \/ Join(n, r) \/ Host(n, r)

Supervise(n) == Check(n) \/ \E scan \in SUBSET InRange(n) : CheckPlan(n, scan)

Outside(n) == \/ \E r \in Runner : ClientAuto(n, r)
              \/ ClientStatus(n)
              \/ \E w \in Net \cup {NoNet, Off} : WifiByHand(n, w)
              \/ HotspotByHand(n)
              \/ Stop(n)

Next == \E n \in Device :
            \/ Start(n)
            \/ Supervise(n)
            \/ \E r \in Runner : AutoConnect(n, r)
            \/ \E m \in Device : Announce(m, n)
            \/ \E s \in Device : Forget(n, s)
            \/ \E s \in Sherd : GraceEnds(n, s)
            \/ Outside(n)

Spec == Init /\ [][Next]_vars

\* The daemon is started, its loop and its calls go on (one of the first three
\* is enabled at a time), beacons keep coming, and time passes.  Nothing is
\* assumed of people or of failures but that they are bounded.
Fairness ==
    \A n \in Device :
        /\ WF_vars(Start(n) \/ Supervise(n) \/ AutoConnect(n, Watchdog))
        /\ \A r \in Runner \ {Watchdog} : WF_vars(AutoConnect(n, r))
        /\ \A m \in Device \ {n} : WF_vars(Announce(m, n) \/ Forget(n, m))
        /\ \A s \in Sherd \cap InRange(n) : WF_vars(GraceEnds(n, s))

LiveSpec == Spec /\ Fairness

--------------------------------------------------------------------------------
(* Properties. *)

TaskState == [at : {"idle", "checking", "starting", "scanning", "joining", "leaving", "hosting"},
              was : Net \cup {NoNet}, bad : BOOLEAN, todo : SUBSET Sherd,
              uplink : Sherd \cup {NoNet}]

\* The state has its type: in particular an uplink that auto_connect reports
\* is a Sherd network, and the Wi-Fi is never on the device's own hotspot.
TypeOK ==
    /\ up \in [Device -> BOOLEAN]
    /\ wifi \in [Device -> Net \cup {NoNet, Off}] /\ \A n \in Device : wifi[n] # n
    /\ hotspot \in [Device -> BOOLEAN] /\ \A n \in Device : hotspot[n] => n \in CanHost
    /\ links \in [Device -> [hosting : Device \cup {NoNet}, uplink : Net \cup {NoNet}]]
    /\ downstream \in [Device -> SUBSET Device]
    /\ firstSeen \in [Device -> [Sherd -> {"unseen", "new", "graced"}]]
    /\ task \in [Device -> [Runner -> TaskState]]
    /\ hands \in 0 .. MaxUpsets /\ faults \in 0 .. MaxUpsets

Mutual(n, m) == n # m /\ wifi[n] = m /\ wifi[m] = n

\* What r planned for n before may cost it the hotspot of m: a join of another
\* network that fails, or leaving a network of a still higher ID.
PlannedBefore(n, r, m) ==
    /\ task'[n][r] # task[n][r]
    /\ \/ task[n][r].at = "joining" /\ Best(n, task[n][r].todo) # m
       \/ task[n][r].at = "leaving" /\ task[n][r].was > n

\* Two devices that joined each other (JOIN_GRACE ran out before the joins were
\* announced, or a plan was carried out late) do not both let go: no step of a
\* daemon takes the one with the higher ID off the other's hotspot, but for a
\* closer Sherd network, or late, by a plan about a third network.
HigherKeepsItsLink ==
    [][\A n, m \in Device :
           Mutual(n, m) /\ n > m /\ hotspot'[m] /\ wifi'[n] \notin Sherd
               => \/ hands' # hands \/ faults' # faults
                  \/ \E r \in Runner : PlannedBefore(n, r, m)]_vars

\* The other one does let go: two devices never stay connected to each other.
PairLoopsEnd ==
    \A n \in Device : \A m \in {k \in Device : k > n} : Mutual(n, m) ~> ~Mutual(n, m)

\* Whatever was done by hand, and whoever restarted and forgot its downstream:
\* every device hosts that can, unless Windows refuses, and every device within
\* range of a hotspot ends up on one or carrying it.
MeshForms ==
    <>[]( /\ \A n \in CanHost \ Refused : hotspot[n]
          /\ \A n \in Device :
                \/ wifi[n] \in Sherd
                \/ \A m \in Device \cap InRange(n) : hotspot[m] => wifi[m] = n)

\* The Wi-Fi comes to rest: no hopping between networks, no joining and
\* leaving for ever.
ComesToRest == <>[][UNCHANGED wifi]_vars

\* What the beacons say of a device comes to be the truth, though a failed
\* roam announces the lost uplink and a timed-out start a missing hotspot.
LinksComeTrue ==
    <>[](\A n \in Device : links[n] = Truth(n, Current(n)))
================================================================================
