------------------------- MODULE StationPlanningProofs -------------------------
(***************************************************************************)
(* Proofs about StationPlanning: the types, and who lets go of a link when *)
(* two devices have joined each other, for any number of devices, networks *)
(* and tasks that plan at the same time.                                   *)
(***************************************************************************)
EXTENDS StationPlanning, WellFoundedInduction, TLAPS

(* The invariant *)

\* The Wi-Fi is on a network in range, or on none.
WifiInv == \A n \in Device : wifi[n] \in InRange(n) \cup {NoNet, Off}

\* A task has read the status of a network in range; it joins while there is
\* something to join, and leaves only hotspots of devices with a higher ID.
TaskInv ==
  \A n \in Device, r \in Runner :
    LET t == task[n][r] IN
    /\ t.was \in InRange(n) \cup {NoNet}
    /\ t.at = "joining" => t.todo # {}
    /\ t.at = "leaving" => t.was \in Sherd /\ t.was > n

IInv == TypeOK /\ WifiInv /\ TaskInv

--------------------------------------------------------------------------------
(* Planning *)

\* A set of numbers has a least one.
LEMMA Smallest ==
  ASSUME NEW S \in SUBSET Nat, S # {}
  PROVE  \E m \in S : \A k \in S : m <= k
<1> DEFINE R == {p \in Nat \X Nat : p[1] < p[2]}
<1>1. R = OpToRel(<, Nat)
  BY DEF OpToRel
<1>2. IsWellFoundedOn(R, Nat)
  BY <1>1, NatLessThanWellFounded
<1>3. PICK m \in S : \A k \in S : <<k, m>> \notin R
  <2> HIDE DEF R
  <2> QED BY <1>2, WFMin
<1>4. ASSUME NEW k \in S PROVE m <= k
  <2>1. <<k, m>> \in Nat \X Nat /\ m \in Nat /\ k \in Nat
    OBVIOUS
  <2>2. ~(k < m)
    BY <1>3, <2>1
  <2> QED BY <2>1, <2>2
<1> QED BY <1>4

\* Of some networks one has the strongest signal.
LEMMA BestIsThere ==
  ASSUME NEW n \in Device, NEW S, S \subseteq Net, S # {}
  PROVE  Best(n, S) \in S
<1>1. \A s \in S : Signal[n][s] \in 0 .. 100
  BY StationAssumption
<1> DEFINE T == {k \in Nat : \E s \in S : k = 100 - Signal[n][s]}
<1>2. T \in SUBSET Nat /\ T # {}
  <2>1. PICK s \in S : TRUE
    OBVIOUS
  <2>2. 100 - Signal[n][s] \in Nat
    BY <1>1
  <2> QED BY <2>2
<1>3. PICK m \in T : \A k \in T : m <= k
  <2> HIDE DEF T
  <2> QED BY <1>2, Smallest
<1>4. PICK s \in S : m = 100 - Signal[n][s]
  BY <1>3
<1>5. ASSUME NEW other \in S PROVE Signal[n][s] >= Signal[n][other]
  <2>1. Signal[n][s] \in 0 .. 100 /\ Signal[n][other] \in 0 .. 100
    BY <1>1
  <2>2. 100 - Signal[n][other] \in T
    BY <2>1
  <2>3. 100 - Signal[n][s] <= 100 - Signal[n][other]
    BY <1>3, <1>4, <2>2
  <2>4. \A a, b \in 0 .. 100 : 100 - a <= 100 - b => a >= b
    OBVIOUS
  <2> QED BY <2>1, <2>3, <2>4
<1> QED BY <1>5 DEF Best

\* Networks that a plan may join are Sherd networks.
LEMMA PlanFacts ==
  ASSUME NEW n \in Device, NEW current, NEW scan
  PROVE  LET plan == PlanStation(n, current, scan)
         IN  /\ plan.nets \subseteq Sherd
             /\ plan.kind \in {"leave", "join", "stay", "waiting", "nothing"}
             /\ plan.kind = "leave" => current \in Sherd /\ MustLeave(n, current)
             /\ plan.kind = "join" => plan.nets # {}
             /\ plan.kind = "stay" => current \in Sherd
<1> DEFINE candidates == Candidates(n, scan)
           allowed    == {s \in candidates : MayJoin(n, s)}
           closer     == Closer(n, current, scan)
<1>1. candidates \subseteq Sherd /\ allowed \subseteq candidates
  BY DEF Candidates
<1>2. closer \subseteq Sherd
  <2>1. CASE candidates = {}
    BY <2>1 DEF Closer
  <2>2. CASE candidates # {}
    <3>1. Best(n, candidates) \in candidates
      <4> HIDE DEF candidates
      <4> QED BY <1>1, <2>2, BestIsThere DEF Net
    <3>2. closer \subseteq {Best(n, candidates)}
      BY DEF Closer
    <3> QED BY <1>1, <3>1, <3>2
  <2> QED BY <2>1, <2>2
<1> HIDE DEF candidates, allowed, closer
<1>3. PlanStation(n, current, scan) =
        CASE current \in Sherd /\ MustLeave(n, current) -> [kind |-> "leave", nets |-> {}]
          [] current \in Sherd /\ ~MustLeave(n, current) /\ closer # {}
                 -> [kind |-> "join", nets |-> closer]
          [] current \in Sherd /\ ~MustLeave(n, current) /\ closer = {}
                 -> [kind |-> "stay", nets |-> {}]
          [] current \notin Sherd /\ allowed # {} -> [kind |-> "join", nets |-> allowed]
          [] current \notin Sherd /\ allowed = {} /\ candidates # {}
                 -> [kind |-> "waiting", nets |-> {}]
          [] current \notin Sherd /\ candidates = {} -> [kind |-> "nothing", nets |-> {}]
  BY DEF PlanStation, candidates, allowed, closer
<1>4. CASE current \in Sherd /\ MustLeave(n, current)
  <2>1. PlanStation(n, current, scan) = [kind |-> "leave", nets |-> {}]
    BY <1>3, <1>4
  <2> QED BY <1>4, <2>1
<1>5. CASE current \in Sherd /\ ~MustLeave(n, current) /\ closer # {}
  <2>1. PlanStation(n, current, scan) = [kind |-> "join", nets |-> closer]
    BY <1>3, <1>5
  <2> QED BY <1>2, <1>5, <2>1
<1>6. CASE current \in Sherd /\ ~MustLeave(n, current) /\ closer = {}
  <2>1. PlanStation(n, current, scan) = [kind |-> "stay", nets |-> {}]
    BY <1>3, <1>6
  <2> QED BY <1>6, <2>1
<1>7. CASE current \notin Sherd /\ allowed # {}
  <2>1. PlanStation(n, current, scan) = [kind |-> "join", nets |-> allowed]
    BY <1>1, <1>3, <1>7
  <2> QED BY <1>1, <1>7, <2>1
<1>8. CASE current \notin Sherd /\ allowed = {} /\ candidates # {}
  <2>1. PlanStation(n, current, scan) = [kind |-> "waiting", nets |-> {}]
    BY <1>3, <1>8
  <2> QED BY <2>1
<1>9. CASE current \notin Sherd /\ candidates = {}
  <2>1. PlanStation(n, current, scan) = [kind |-> "nothing", nets |-> {}]
    BY <1>1, <1>3, <1>9
  <2> QED BY <2>1
<1> QED BY <1>4, <1>5, <1>6, <1>7, <1>8, <1>9

--------------------------------------------------------------------------------
(* Steps *)

\* Off and None are no networks, and no device is on its own.
LEMMA NetFacts ==
  /\ NoNet \notin Net /\ Off \notin Net /\ Off # NoNet
  /\ Sherd \subseteq Net /\ Foreign \subseteq Net /\ Device \subseteq Sherd /\ Sherd \subseteq Nat
  /\ \A n \in Device : InRange(n) \subseteq Net \ {n}
BY StationAssumption DEF Net, InRange

\* The status of the station is None, or the network that the Wi-Fi is on.
LEMMA CurrentIsInRange ==
  ASSUME WifiInv, NEW n \in Device, NEW w \in {Current(n), NoNet}
  PROVE  w \in InRange(n) \cup {NoNet} /\ w \in Net \cup {NoNet}
BY NetFacts DEF WifiInv, Current

\* Best is a network to join.
LEMMA JoinIsSherd ==
  ASSUME TypeOK, TaskInv, NEW n \in Device, NEW r \in Runner, task[n][r].at = "joining"
  PROVE  Best(n, task[n][r].todo) \in task[n][r].todo /\ Best(n, task[n][r].todo) \in Sherd
<1>1. task[n][r].todo \subseteq Sherd /\ task[n][r].todo # {}
  BY DEF TypeOK, TaskState, TaskInv
<1> QED BY <1>1, BestIsThere, NetFacts

\* Where a connection attempt leaves the Wi-Fi.
LEMMA JoinWifi ==
  ASSUME NEW n \in Device, NEW r \in Runner, Join(n, r)
  PROVE  \/ UNCHANGED wifi
         \/ wifi' = [wifi EXCEPT ![n] = NoNet]
         \/ wifi' = [wifi EXCEPT ![n] = wifi[n]]
         \/ \E s \in Visible(n) : wifi' = [wifi EXCEPT ![n] = s]
BY DEF Join, Joined, JoinFailed

\* The Wi-Fi is on a network in range.
LEMMA WifiStep ==
  ASSUME IInv, [Next]_vars
  PROVE  wifi' \in [Device -> Net \cup {NoNet, Off}] /\ WifiInv'
<1> USE DEF IInv
<1> wifi \in [Device -> Net \cup {NoNet, Off}] /\ WifiInv
  BY DEF TypeOK
<1> DEFINE Goal == wifi' \in [Device -> Net \cup {NoNet, Off}] /\ WifiInv'
<1>1. CASE UNCHANGED wifi
  BY <1>1 DEF WifiInv, InRange
<1>2. ASSUME NEW n \in Device, NEW w \in InRange(n) \cup {NoNet, Off},
             wifi' = [wifi EXCEPT ![n] = w]
      PROVE  Goal
  BY <1>2, NetFacts DEF WifiInv, InRange
<1>3. ASSUME NEW s, wifi' = Cut(wifi, s)
      PROVE  Goal
  BY <1>3 DEF WifiInv, InRange, Cut
<1>4. ASSUME NEW n \in Device, NEW r \in Runner, Begin(n, r) \/ Leave(n, r) PROVE Goal
  <2>1. UNCHANGED wifi \/ \E w \in {NoNet, Off} : wifi' = [wifi EXCEPT ![n] = w]
    BY <1>4 DEF Begin, Leave
  <2> QED BY <1>1, <1>2, <2>1
<1>5. ASSUME NEW n \in Device, NEW r \in Runner, Join(n, r) PROVE Goal
  <2>1. wifi[n] \in InRange(n) \cup {NoNet, Off} /\ Visible(n) \subseteq InRange(n)
    BY DEF WifiInv, Visible
  <2> QED BY <1>1, <1>2, <1>5, <2>1, JoinWifi
<1>6. ASSUME NEW n \in Device, NEW r \in Runner, Host(n, r) PROVE Goal
  BY <1>1, <1>3, <1>6 DEF Host
<1>7. ASSUME NEW n \in Device, NEW w, WifiByHand(n, w) PROVE Goal
  <2>1. w \in InRange(n) \cup {NoNet, Off} /\ wifi' = [wifi EXCEPT ![n] = w]
    BY <1>7 DEF WifiByHand, Visible
  <2> QED BY <1>2, <2>1
<1>8. ASSUME NEW n \in Device, HotspotByHand(n) \/ Stop(n) PROVE Goal
  BY <1>3, <1>8 DEF HotspotByHand, Stop
<1>9. ASSUME NEW n \in Device,
             \/ Start(n) \/ Supervise(n) \/ (\E m \in Device : Announce(m, n))
             \/ (\E s \in Device : Forget(n, s)) \/ (\E s \in Sherd : GraceEnds(n, s))
             \/ (\E r \in Runner : ClientAuto(n, r)) \/ ClientStatus(n)
             \/ \E r \in Runner, scan \in SUBSET InRange(n) : Plan(n, r, scan)
      PROVE  UNCHANGED wifi
  BY <1>9 DEF Start, Supervise, Check, CheckPlan, Announce, Forget, GraceEnds, ClientAuto,
              ClientStatus, Plan
<1>10. CASE UNCHANGED vars
  BY <1>1, <1>10 DEF vars
<1> HIDE DEF Goal
<1>11. ASSUME NEW n \in Device, NEW r \in Runner, AutoConnect(n, r) PROVE Goal
  BY <1>1, <1>4, <1>5, <1>6, <1>9, <1>11 DEF AutoConnect, Goal
<1>12. ASSUME NEW n \in Device, Outside(n) PROVE Goal
  BY <1>1, <1>7, <1>8, <1>9, <1>12 DEF Outside, Goal
<1>13. CASE Next
  BY <1>1, <1>9, <1>11, <1>12, <1>13 DEF Next, Goal
<1> QED BY <1>10, <1>13 DEF Goal

\* Only devices that can host do.
LEMMA HotspotStep ==
  ASSUME IInv, [Next]_vars
  PROVE  hotspot' \in [Device -> BOOLEAN] /\ \A n \in Device : hotspot'[n] => n \in CanHost
<1> hotspot \in [Device -> BOOLEAN] /\ \A n \in Device : hotspot[n] => n \in CanHost
  BY DEF IInv, TypeOK
<1> DEFINE Goal == hotspot' \in [Device -> BOOLEAN] /\ \A n \in Device : hotspot'[n] => n \in CanHost
<1>1. CASE UNCHANGED hotspot
  BY <1>1
<1>2. ASSUME NEW n \in Device, NEW on \in BOOLEAN, hotspot' = [hotspot EXCEPT ![n] = on],
             on => n \in CanHost
      PROVE  Goal
  BY <1>2
<1>3. ASSUME NEW n \in Device, NEW r \in Runner, Host(n, r) PROVE Goal
  <2>1. UNCHANGED hotspot \/ \E on \in BOOLEAN : n \in CanHost /\ hotspot' = [hotspot EXCEPT ![n] = on]
    BY <1>3 DEF Host
  <2> QED BY <1>1, <1>2, <2>1
<1>4. ASSUME NEW n \in Device, HotspotByHand(n) \/ Stop(n) PROVE Goal
  BY <1>2, <1>4 DEF HotspotByHand, Stop
<1>5. ASSUME NEW n \in Device,
             \/ Start(n) \/ Supervise(n) \/ (\E m \in Device : Announce(m, n))
             \/ (\E s \in Device : Forget(n, s)) \/ (\E s \in Sherd : GraceEnds(n, s))
             \/ (\E r \in Runner : ClientAuto(n, r)) \/ ClientStatus(n)
             \/ (\E w \in Net \cup {NoNet, Off} : WifiByHand(n, w))
             \/ (\E r \in Runner, scan \in SUBSET InRange(n) : Plan(n, r, scan))
             \/ \E r \in Runner : Begin(n, r) \/ Leave(n, r) \/ Join(n, r)
      PROVE  UNCHANGED hotspot
  BY <1>5 DEF Start, Supervise, Check, CheckPlan, Announce, Forget, GraceEnds, ClientAuto,
              ClientStatus, WifiByHand, Plan, Begin, Leave, Join
<1>6. CASE UNCHANGED vars
  BY <1>1, <1>6 DEF vars
<1> HIDE DEF Goal
<1>7. ASSUME NEW n \in Device, NEW r \in Runner, AutoConnect(n, r) PROVE Goal
  BY <1>1, <1>3, <1>5, <1>7 DEF AutoConnect, Goal
<1>8. ASSUME NEW n \in Device, Outside(n) PROVE Goal
  BY <1>1, <1>4, <1>5, <1>8 DEF Outside, Goal
<1>9. CASE Next
  BY <1>1, <1>5, <1>7, <1>8, <1>9 DEF Next, Goal
<1> QED BY <1>6, <1>9 DEF Goal

\* What is recorded of the links are networks.
LEMMA LinksStep ==
  ASSUME IInv, [Next]_vars
  PROVE  links' \in [Device -> [hosting : Device \cup {NoNet}, uplink : Net \cup {NoNet}]]
<1> DEFINE Link == [hosting : Device \cup {NoNet}, uplink : Net \cup {NoNet}]
           Goal == links' \in [Device -> Link]
<1> links \in [Device -> Link] /\ WifiInv /\ TaskInv /\ task \in [Device -> [Runner -> TaskState]]
  BY DEF IInv, TypeOK
<1>1. CASE UNCHANGED links
  BY <1>1
<1>2. ASSUME NEW n \in Device, NEW h \in {n, NoNet}, NEW u \in Net \cup {NoNet},
             links' = [links EXCEPT ![n] = Snapshot(h, u)]
      PROVE  Goal
  <2>1. Snapshot(h, u) \in Link
    BY DEF Snapshot
  <2> HIDE DEF Link
  <2> QED BY <1>2, <2>1
<1>3. ASSUME NEW n \in Device, Check(n) PROVE Goal
  <2>1. \/ UNCHANGED links
        \/ \E w \in {Current(n), NoNet}, h \in {n, NoNet} : links' = [links EXCEPT ![n] = Snapshot(h, w)]
    BY <1>3 DEF Check, RememberLinks, Truth
  <2>2. CASE UNCHANGED links
    BY <1>1, <2>2
  <2>3. ASSUME NEW w \in {Current(n), NoNet}, NEW h \in {n, NoNet},
               links' = [links EXCEPT ![n] = Snapshot(h, w)]
        PROVE  Goal
    <3>1. w \in Net \cup {NoNet}
      BY CurrentIsInRange
    <3> HIDE DEF Goal
    <3> QED BY <1>2, <2>3, <3>1
  <2> HIDE DEF Goal
  <2> QED BY <2>1, <2>2, <2>3
<1>4. ASSUME NEW n \in Device, NEW r \in Runner, Host(n, r) PROVE Goal
  <2> DEFINE t   == task[n][r]
             now == IF t.uplink = NoNet /\ t.was \in Foreign THEN t.was ELSE t.uplink
  <2>1. now \in Net \cup {NoNet}
    <3>1. t \in TaskState
      OBVIOUS
    <3> QED BY <3>1, NetFacts DEF TaskState
  <2>2. \E h \in {n, NoNet} : links' = [links EXCEPT ![n] = Snapshot(h, now)]
    BY <1>4 DEF Host
  <2> HIDE DEF Goal, now
  <2> QED BY <1>2, <2>1, <2>2
<1>5. ASSUME NEW n \in Device, ClientStatus(n) PROVE Goal
  <2>1. \E h \in {n, NoNet} : links' = [links EXCEPT ![n] = Snapshot(h, Current(n))]
    BY <1>5 DEF ClientStatus, RememberLinks, Truth
  <2> HIDE DEF Goal
  <2> QED BY <1>2, <2>1, CurrentIsInRange
<1>6. ASSUME NEW n \in Device, Stop(n) PROVE Goal
  BY <1>2, <1>6 DEF Stop
<1>7. ASSUME NEW n \in Device,
             \/ Start(n) \/ (\E scan \in SUBSET InRange(n) : CheckPlan(n, scan))
             \/ (\E m \in Device : Announce(m, n))
             \/ (\E s \in Device : Forget(n, s)) \/ (\E s \in Sherd : GraceEnds(n, s))
             \/ (\E r \in Runner : ClientAuto(n, r)) \/ HotspotByHand(n)
             \/ (\E w \in Net \cup {NoNet, Off} : WifiByHand(n, w))
             \/ (\E r \in Runner, scan \in SUBSET InRange(n) : Plan(n, r, scan))
             \/ \E r \in Runner : Begin(n, r) \/ Leave(n, r) \/ Join(n, r)
      PROVE  UNCHANGED links
  BY <1>7 DEF Start, CheckPlan, Announce, Forget, GraceEnds, ClientAuto,
              HotspotByHand, WifiByHand, Plan, Begin, Leave, Join
<1>8. CASE UNCHANGED vars
  BY <1>1, <1>8 DEF vars
<1> HIDE DEF Goal
<1>9. ASSUME NEW n \in Device, NEW r \in Runner, AutoConnect(n, r) PROVE Goal
  BY <1>1, <1>4, <1>7, <1>9 DEF AutoConnect, Goal
<1>10. ASSUME NEW n \in Device, Outside(n) PROVE Goal
  BY <1>1, <1>5, <1>6, <1>7, <1>10 DEF Outside, Goal
<1>11. CASE Next
  BY <1>1, <1>3, <1>7, <1>9, <1>10, <1>11 DEF Next, Supervise, Goal
<1> QED BY <1>8, <1>11 DEF Goal

\* The hotspots below are of devices.
LEMMA DownstreamStep ==
  ASSUME IInv, [Next]_vars
  PROVE  downstream' \in [Device -> SUBSET Device]
<1> DEFINE Goal == downstream' \in [Device -> SUBSET Device]
<1> downstream \in [Device -> SUBSET Device]
  BY DEF IInv, TypeOK
<1>1. CASE UNCHANGED downstream
  BY <1>1
<1>2. ASSUME NEW m \in Device, NEW n \in Device, Announce(m, n) PROVE Goal
  <2>1. links[m].hosting \in Device
    <3>1. links[m] \in [hosting : Device \cup {NoNet}, uplink : Net \cup {NoNet}]
      BY DEF IInv, TypeOK
    <3> QED BY <1>2, <3>1 DEF Announce
  <2> QED BY <1>2, <2>1 DEF Announce
<1>3. ASSUME NEW n \in Device, NEW s, Forget(n, s) PROVE Goal
  BY <1>3 DEF Forget
<1>4. ASSUME NEW n \in Device, Stop(n) PROVE Goal
  BY <1>4 DEF Stop
<1>5. ASSUME NEW n \in Device,
             \/ Start(n) \/ Supervise(n) \/ (\E s \in Sherd : GraceEnds(n, s))
             \/ (\E r \in Runner : ClientAuto(n, r)) \/ ClientStatus(n) \/ HotspotByHand(n)
             \/ (\E w \in Net \cup {NoNet, Off} : WifiByHand(n, w))
             \/ \E r \in Runner : AutoConnect(n, r)
      PROVE  UNCHANGED downstream
  BY <1>5 DEF Start, Supervise, Check, CheckPlan, GraceEnds, ClientAuto, ClientStatus,
              HotspotByHand, WifiByHand, AutoConnect, Begin, Plan, Leave, Join, Host
<1>6. CASE UNCHANGED vars
  BY <1>1, <1>6 DEF vars
<1> HIDE DEF Goal
<1>7. ASSUME NEW n \in Device, Outside(n) PROVE Goal
  BY <1>1, <1>4, <1>5, <1>7 DEF Outside, Goal
<1>8. CASE Next
  BY <1>1, <1>2, <1>3, <1>5, <1>7, <1>8 DEF Next, Goal
<1> QED BY <1>6, <1>8 DEF Goal

\* What is remembered of the networks in sight.
LEMMA SeenStep ==
  ASSUME IInv, [Next]_vars
  PROVE  firstSeen' \in [Device -> [Sherd -> {"unseen", "new", "graced"}]]
<1> DEFINE Goal == firstSeen' \in [Device -> [Sherd -> {"unseen", "new", "graced"}]]
<1> firstSeen \in [Device -> [Sherd -> {"unseen", "new", "graced"}]]
  BY DEF IInv, TypeOK
<1>1. CASE UNCHANGED firstSeen
  BY <1>1
<1>2. ASSUME NEW n \in Device, NEW scan, See(n, scan) PROVE Goal
  <2> DEFINE new(s) == CASE s \notin scan -> "unseen"
                         [] s \in scan /\ firstSeen[n][s] = "unseen" -> "new"
                         [] OTHER -> firstSeen[n][s]
  <2>1. \A s \in Sherd : new(s) \in {"unseen", "new", "graced"}
    OBVIOUS
  <2>2. firstSeen' = [firstSeen EXCEPT ![n] = [s \in Sherd |-> new(s)]]
    BY <1>2 DEF See
  <2> HIDE DEF new
  <2> QED BY <2>1, <2>2
<1>3. ASSUME NEW n \in Device, NEW s \in Sherd, GraceEnds(n, s) PROVE Goal
  BY <1>3 DEF GraceEnds
<1>4. ASSUME NEW n \in Device, Stop(n) PROVE Goal
  BY <1>4 DEF Stop
<1>5. ASSUME NEW n \in Device, NEW r \in Runner, NEW scan, Plan(n, r, scan) \/ CheckPlan(n, scan)
      PROVE  Goal
  <2>1. See(n, scan)
    BY <1>5 DEF Plan, CheckPlan
  <2> QED BY <1>2, <2>1
<1>6. ASSUME NEW n \in Device,
             \/ Start(n) \/ Check(n) \/ (\E m \in Device : Announce(m, n))
             \/ (\E s \in Device : Forget(n, s))
             \/ (\E r \in Runner : ClientAuto(n, r)) \/ ClientStatus(n) \/ HotspotByHand(n)
             \/ (\E w \in Net \cup {NoNet, Off} : WifiByHand(n, w))
             \/ \E r \in Runner : Begin(n, r) \/ Leave(n, r) \/ Join(n, r) \/ Host(n, r)
      PROVE  UNCHANGED firstSeen
  BY <1>6 DEF Start, Check, Announce, Forget, ClientAuto, ClientStatus, HotspotByHand,
              WifiByHand, Begin, Leave, Join, Host
<1>7. CASE UNCHANGED vars
  BY <1>1, <1>7 DEF vars
<1> HIDE DEF Goal
<1>8. ASSUME NEW n \in Device, NEW r \in Runner, AutoConnect(n, r) PROVE Goal
  BY <1>1, <1>5, <1>6, <1>8 DEF AutoConnect, Goal
<1>9. ASSUME NEW n \in Device, Outside(n) PROVE Goal
  BY <1>1, <1>4, <1>6, <1>9 DEF Outside, Goal
<1>10. CASE Next
  <2>1. \E r : r \in Runner
    BY StationAssumption
  <2> QED BY <1>1, <1>3, <1>5, <1>6, <1>8, <1>9, <1>10, <2>1 DEF Next, Supervise, Goal
<1> QED BY <1>7, <1>10 DEF Goal

\* What holds of a task.
TaskFits(n, t) ==
  /\ t \in TaskState
  /\ t.was \in InRange(n) \cup {NoNet}
  /\ t.at = "joining" => t.todo # {}
  /\ t.at = "leaving" => t.was \in Sherd /\ t.was > n

\* A task that rests, or has only started.
LEMMA IdleFits ==
  ASSUME NEW n \in Device
  PROVE  TaskFits(n, Idle) /\ TaskFits(n, [Idle EXCEPT !.at = "starting"])
BY DEF TaskFits, TaskState, Idle

\* A plan that is made fits the network it was made for.
LEMMA PlanFits ==
  ASSUME IInv, NEW n \in Device, NEW r \in Runner, NEW scan, Plan(n, r, scan)
  PROVE  \E new : TaskFits(n, new) /\ Step(n, r, new)
<1> DEFINE t    == task[n][r]
           plan == PlanStation(n, t.was, scan)
           new  == CASE plan.kind = "join"  -> [t EXCEPT !.at = "joining", !.todo = plan.nets]
                     [] plan.kind = "leave" -> [t EXCEPT !.at = "leaving"]
                     [] plan.kind = "stay"  -> [t EXCEPT !.at = "hosting", !.uplink = t.was]
                     [] OTHER               -> [t EXCEPT !.at = "hosting"]
<1>1. Step(n, r, new)
  BY DEF Plan
<1>2. t \in TaskState /\ t.was \in InRange(n) \cup {NoNet}
  BY DEF IInv, TypeOK, TaskInv
<1>3. /\ plan.nets \subseteq Sherd
      /\ plan.kind = "leave" => t.was \in Sherd /\ MustLeave(n, t.was)
      /\ plan.kind = "join" => plan.nets # {}
      /\ plan.kind = "stay" => t.was \in Sherd
  <2> HIDE DEF t
  <2> QED BY PlanFacts
<1> HIDE DEF plan, t
<1>4. CASE plan.kind = "join"
  <2>1. new = [t EXCEPT !.at = "joining", !.todo = plan.nets]
    BY <1>4
  <2> HIDE DEF new
  <2>2. TaskFits(n, new)
    BY <1>2, <1>3, <1>4, <2>1 DEF TaskFits, TaskState
  <2> QED BY <1>1, <2>2
<1>5. CASE plan.kind = "leave"
  <2>1. new = [t EXCEPT !.at = "leaving"]
    BY <1>5
  <2>2. t.was \in Nat /\ n \in Nat /\ t.was # n /\ ~(n > t.was)
    BY <1>2, <1>3, <1>5, NetFacts, StationAssumption DEF MustLeave, JoinsFirst, InRange, Net
  <2>3. t.was > n
    <3> HIDE DEF new
    <3> QED BY <2>2
  <2> HIDE DEF new
  <2>4. TaskFits(n, new)
    BY <1>2, <1>3, <1>5, <2>1, <2>3 DEF TaskFits, TaskState
  <2> QED BY <1>1, <2>4
<1>6. CASE plan.kind = "stay"
  <2>1. new = [t EXCEPT !.at = "hosting", !.uplink = t.was]
    BY <1>6
  <2> HIDE DEF new
  <2>2. TaskFits(n, new)
    BY <1>2, <1>3, <1>6, <2>1 DEF TaskFits, TaskState
  <2> QED BY <1>1, <2>2
<1>7. CASE plan.kind \notin {"join", "leave", "stay"}
  <2>1. new = [t EXCEPT !.at = "hosting"]
    BY <1>7
  <2> HIDE DEF new
  <2>2. TaskFits(n, new)
    BY <1>2, <2>1 DEF TaskFits, TaskState
  <2> QED BY <1>1, <2>2
<1> QED BY <1>4, <1>5, <1>6, <1>7

\* An attempt to join goes on with the networks that are left, or ends.
LEMMA JoinFits ==
  ASSUME IInv, NEW n \in Device, NEW r \in Runner, Join(n, r)
  PROVE  \E new : TaskFits(n, new) /\ Step(n, r, new)
<1> DEFINE t    == task[n][r]
           s    == Best(n, t.todo)
           left == t.todo \ {s}
           back == IF t.was \in Sherd THEN t.was ELSE NoNet
<1>1. t \in TaskState /\ t.was \in InRange(n) \cup {NoNet} /\ t.at = "joining" /\ s \in Sherd
  BY JoinIsSherd DEF IInv, TypeOK, TaskInv, Join, At
<1>2. \/ Step(n, r, [t EXCEPT !.at = "hosting", !.todo = {}, !.uplink = back])
      \/ Step(n, r, [t EXCEPT !.at = "hosting", !.todo = {}, !.uplink = s])
      \/ left # {} /\ Step(n, r, [t EXCEPT !.todo = left])
  BY DEF Join, Joined, JoinFailed
<1>3. left \subseteq Sherd /\ back \in Sherd \cup {NoNet}
  BY <1>1 DEF TaskState
<1> HIDE DEF t, s, left, back
<1>4. /\ TaskFits(n, [t EXCEPT !.at = "hosting", !.todo = {}, !.uplink = back])
      /\ TaskFits(n, [t EXCEPT !.at = "hosting", !.todo = {}, !.uplink = s])
      /\ left # {} => TaskFits(n, [t EXCEPT !.todo = left])
  BY <1>1, <1>3 DEF TaskFits, TaskState
<1> QED BY <1>2, <1>4

\* Every step of a task fits.
LEMMA TaskStep ==
  ASSUME IInv, [Next]_vars
  PROVE  task' \in [Device -> [Runner -> TaskState]] /\ TaskInv'
<1> TypeOK /\ WifiInv /\ TaskInv /\ Watchdog \in Runner
  BY StationAssumption DEF IInv
<1> DEFINE Goal == \A n \in Device, r \in Runner : TaskFits(n, task'[n][r])
<1>1. task \in [Device -> [Runner -> TaskState]]
      /\ \A n \in Device, r \in Runner : TaskFits(n, task[n][r])
  BY DEF TypeOK, TaskInv, TaskFits
<1> DEFINE Typed == task' \in [Device -> [Runner -> TaskState]]
<1>2. ASSUME NEW n \in Device, NEW r \in Runner, NEW new, TaskFits(n, new), Step(n, r, new)
      PROVE  Goal /\ Typed
  <2>1. new \in TaskState
    BY <1>2 DEF TaskFits
  <2>2. Typed
    BY <1>1, <1>2, <2>1 DEF Step
  <2>3. Goal
    BY <1>1, <1>2 DEF Step
  <2> QED BY <2>2, <2>3
<1>3. ASSUME NEW n \in Device, Stop(n) PROVE Goal /\ Typed
  <2>1. task' = [task EXCEPT ![n] = [r \in Runner |-> Idle]]
    BY <1>3 DEF Stop
  <2>2. TaskFits(n, Idle) /\ Idle \in TaskState
    BY IdleFits DEF TaskFits
  <2> QED BY <1>1, <2>1, <2>2
<1> HIDE DEF Goal, Typed
<1>4. ASSUME NEW n \in Device, Check(n) PROVE Goal /\ Typed
  <2>1. CASE Step(n, Watchdog, [Idle EXCEPT !.at = "starting"])
    BY <1>2, <2>1, IdleFits
  <2>2. ASSUME NEW w \in {Current(n), NoNet}, NEW broken \in BOOLEAN,
               Step(n, Watchdog, [Idle EXCEPT !.at = "checking", !.was = w, !.bad = broken])
        PROVE  Goal /\ Typed
    <3>1. w \in InRange(n) \cup {NoNet} /\ w \in Net \cup {NoNet}
      BY CurrentIsInRange
    <3>2. TaskFits(n, [Idle EXCEPT !.at = "checking", !.was = w, !.bad = broken])
      BY <3>1 DEF TaskFits, TaskState, Idle
    <3> QED BY <1>2, <2>2, <3>2
  <2>3. (n \in CanHost /\ ~hotspot[n]) \in BOOLEAN
    OBVIOUS
  <2> QED BY <1>4, <2>1, <2>2, <2>3 DEF Check
<1>5. ASSUME NEW n \in Device, NEW scan, CheckPlan(n, scan) PROVE Goal /\ Typed
  <2>1. \/ Step(n, Watchdog, [Idle EXCEPT !.at = "starting"])
        \/ Step(n, Watchdog, Idle)
    BY <1>5 DEF CheckPlan
  <2> QED BY <1>2, <2>1, IdleFits
<1>6. ASSUME NEW n \in Device, NEW r \in Runner, Begin(n, r) PROVE Goal /\ Typed
  <2>1. \/ Step(n, r, Idle)
        \/ \E w \in {Current(n), NoNet} : Step(n, r, [Idle EXCEPT !.at = "scanning", !.was = w])
        \/ Step(n, r, [Idle EXCEPT !.at = "scanning"])
    BY <1>6 DEF Begin
  <2>2. \A w \in {Current(n), NoNet} : TaskFits(n, [Idle EXCEPT !.at = "scanning", !.was = w])
    BY CurrentIsInRange DEF TaskFits, TaskState, Idle
  <2>3. TaskFits(n, [Idle EXCEPT !.at = "scanning"])
    BY DEF TaskFits, TaskState, Idle
  <2> QED BY <1>2, <2>1, <2>2, <2>3, IdleFits
<1>7. ASSUME NEW n \in Device, NEW r \in Runner, NEW scan, Plan(n, r, scan) PROVE Goal /\ Typed
  BY <1>2, <1>7, PlanFits
<1>8. ASSUME NEW n \in Device, NEW r \in Runner, Leave(n, r) PROVE Goal /\ Typed
  <2>1. TaskFits(n, [task[n][r] EXCEPT !.at = "hosting"])
    <3>1. TaskFits(n, task[n][r])
      BY <1>1
    <3> QED BY <3>1 DEF TaskFits, TaskState
  <2> QED BY <1>2, <1>8, <2>1 DEF Leave
<1>9. ASSUME NEW n \in Device, NEW r \in Runner, Join(n, r) PROVE Goal /\ Typed
  BY <1>2, <1>9, JoinFits
<1>10. ASSUME NEW n \in Device, NEW r \in Runner, Host(n, r) PROVE Goal /\ Typed
  BY <1>2, <1>10, IdleFits DEF Host
<1>11. ASSUME NEW n \in Device, NEW r \in Runner, ClientAuto(n, r) PROVE Goal /\ Typed
  BY <1>2, <1>11, IdleFits DEF ClientAuto
<1>12. ASSUME NEW n \in Device,
              \/ Start(n) \/ (\E m \in Device : Announce(m, n))
              \/ (\E s \in Device : Forget(n, s)) \/ (\E s \in Sherd : GraceEnds(n, s))
              \/ ClientStatus(n) \/ HotspotByHand(n)
              \/ \E w \in Net \cup {NoNet, Off} : WifiByHand(n, w)
       PROVE  UNCHANGED task
  BY <1>12 DEF Start, Announce, Forget, GraceEnds, ClientStatus, HotspotByHand, WifiByHand
<1>13. ASSUME UNCHANGED task PROVE Goal /\ Typed
  BY <1>1, <1>13 DEF Goal, Typed
<1>14. ASSUME NEW n \in Device, NEW r \in Runner, AutoConnect(n, r) PROVE Goal /\ Typed
  BY <1>6, <1>7, <1>8, <1>9, <1>10, <1>14 DEF AutoConnect
<1>15. ASSUME NEW n \in Device, Outside(n) PROVE Goal /\ Typed
  BY <1>3, <1>11, <1>12, <1>13, <1>15 DEF Outside
<1>16. Goal /\ Typed
  <2>1. CASE Next
    BY <1>4, <1>5, <1>12, <1>13, <1>14, <1>15, <2>1 DEF Next, Supervise
  <2>2. CASE UNCHANGED vars
    BY <1>13, <2>2 DEF vars
  <2> QED BY <2>1, <2>2
<1>17. ASSUME NEW n \in Device, NEW r \in Runner
       PROVE  LET t == task'[n][r] IN
              /\ t.was \in InRange(n)' \cup {NoNet}
              /\ t.at = "joining" => t.todo # {}
              /\ t.at = "leaving" => t.was \in Sherd /\ t.was > n
  BY <1>16 DEF Goal, TaskFits, InRange
<1> QED BY <1>16, <1>17 DEF Typed, TaskInv

\* Daemons come and go; what is done by hand and what fails is bounded.
LEMMA BoundsStep ==
  ASSUME IInv, [Next]_vars
  PROVE  /\ up' \in [Device -> BOOLEAN]
         /\ hands' \in 0 .. MaxUpsets /\ faults' \in 0 .. MaxUpsets
<1> DEFINE Counted == hands' \in 0 .. MaxUpsets /\ faults' \in 0 .. MaxUpsets
           Up      == up' \in [Device -> BOOLEAN]
<1>1. /\ up \in [Device -> BOOLEAN] /\ MaxUpsets \in Nat
      /\ hands \in 0 .. MaxUpsets /\ faults \in 0 .. MaxUpsets
  BY StationAssumption DEF IInv, TypeOK
<1>2. ASSUME NEW n \in Device, UNCHANGED hands, UNCHANGED faults \/ Fault(n)
      PROVE  Counted
  BY <1>1, <1>2 DEF Fault
<1>3. ASSUME NEW n \in Device, Hand(n), UNCHANGED faults
      PROVE  Counted
  BY <1>1, <1>3 DEF Hand
<1>4. ASSUME NEW n \in Device,
             \/ Start(n) \/ Check(n) \/ (\E scan \in SUBSET InRange(n) : CheckPlan(n, scan))
             \/ (\E r \in Runner : AutoConnect(n, r)) \/ (\E m \in Device : Announce(m, n))
             \/ (\E s \in Device : Forget(n, s)) \/ \E s \in Sherd : GraceEnds(n, s)
      PROVE  UNCHANGED hands /\ (UNCHANGED faults \/ Fault(n))
  <2>1. CASE Start(n) \/ (\E m \in Device : Announce(m, n)) \/ (\E s \in Device : Forget(n, s))
               \/ \E s \in Sherd : GraceEnds(n, s)
    BY <2>1 DEF Start, Announce, Forget, GraceEnds
  <2>2. CASE Check(n)
    BY <2>2 DEF Check, StatusRead, NoFault
  <2>3. ASSUME NEW scan, CheckPlan(n, scan)
        PROVE  UNCHANGED hands /\ (UNCHANGED faults \/ Fault(n))
    BY <2>3 DEF CheckPlan, ScanRead, NoFault
  <2>4. ASSUME NEW r \in Runner, Begin(n, r) \/ Leave(n, r)
        PROVE  UNCHANGED hands /\ (UNCHANGED faults \/ Fault(n))
    BY <2>4 DEF Begin, Leave, StatusRead, NoFault
  <2>5. ASSUME NEW r \in Runner, NEW scan, Plan(n, r, scan)
        PROVE  UNCHANGED hands /\ (UNCHANGED faults \/ Fault(n))
    BY <2>5 DEF Plan, ScanRead, NoFault
  <2>6. ASSUME NEW r \in Runner, Join(n, r) \/ Host(n, r)
        PROVE  UNCHANGED hands /\ (UNCHANGED faults \/ Fault(n))
    BY <2>6 DEF Join, Joined, JoinFailed, Host, NoFault
  <2> QED BY <1>4, <2>1, <2>2, <2>3, <2>4, <2>5, <2>6 DEF AutoConnect
<1>5. ASSUME NEW n \in Device, Outside(n)
      PROVE  Hand(n) /\ UNCHANGED faults
  BY <1>5 DEF Outside, ClientAuto, ClientStatus, WifiByHand, HotspotByHand, Stop
<1>6. ASSUME NEW n \in Device,
             \/ Supervise(n) \/ (\E r \in Runner : AutoConnect(n, r)) \/ ClientStatus(n)
             \/ (\E m \in Device : Announce(m, n)) \/ (\E s \in Device : Forget(n, s))
             \/ (\E s \in Sherd : GraceEnds(n, s)) \/ (\E r \in Runner : ClientAuto(n, r))
             \/ HotspotByHand(n) \/ \E w \in Net \cup {NoNet, Off} : WifiByHand(n, w)
      PROVE  UNCHANGED up
  BY <1>6 DEF Supervise, Check, CheckPlan, AutoConnect, Begin, Plan, Leave, Join, Host, ClientStatus,
              Announce, Forget, GraceEnds, ClientAuto, HotspotByHand, WifiByHand
<1>7. ASSUME NEW n \in Device, Start(n) \/ Stop(n) \/ UNCHANGED up
      PROVE  Up
  BY <1>1, <1>7 DEF Start, Stop
<1>8. CASE UNCHANGED vars
  BY <1>1, <1>8 DEF vars
<1> HIDE DEF Counted, Up
<1>9. ASSUME NEW n \in Device, Outside(n) PROVE Up
  BY <1>6, <1>7, <1>9 DEF Outside
<1>10. ASSUME Next PROVE Up
  BY <1>6, <1>7, <1>9, <1>10 DEF Next
<1>11. ASSUME Next PROVE Counted
  <2>1. ASSUME NEW n \in Device, Supervise(n) PROVE Counted
    BY <1>2, <1>4, <2>1 DEF Supervise
  <2> QED BY <1>2, <1>3, <1>4, <1>5, <1>11, <2>1 DEF Next
<1> QED BY <1>8, <1>10, <1>11 DEF Counted, Up

--------------------------------------------------------------------------------
(* Theorems *)

\* At first no daemon runs, and the Wi-Fi is on a foreign network or on none.
LEMMA InitInv == Init => IInv
<1> SUFFICES ASSUME Init PROVE IInv
  OBVIOUS
<1>1. WifiInv /\ wifi \in [Device -> Net \cup {NoNet, Off}]
  BY NetFacts DEF Init, WifiInv
<1>2. Idle \in TaskState /\ \A n \in Device, r \in Runner : task[n][r] = Idle
  BY DEF Init, Idle, TaskState
<1>3. task \in [Device -> [Runner -> TaskState]] /\ TaskInv
  <2>1. TaskInv
    BY <1>2 DEF TaskInv, Idle
  <2> HIDE DEF Idle
  <2>2. task = [n \in Device |-> [r \in Runner |-> Idle]]
    BY DEF Init
  <2> QED BY <1>2, <2>1, <2>2
<1>4. \A n \in Device : wifi[n] # n
  BY <1>1, NetFacts DEF WifiInv
<1>5. links \in [Device -> [hosting : Device \cup {NoNet}, uplink : Net \cup {NoNet}]]
  BY DEF Init, Snapshot
<1>6. /\ up \in [Device -> BOOLEAN]
      /\ hotspot \in [Device -> BOOLEAN] /\ \A n \in Device : hotspot[n] => n \in CanHost
      /\ downstream \in [Device -> SUBSET Device]
      /\ firstSeen \in [Device -> [Sherd -> {"unseen", "new", "graced"}]]
      /\ hands \in 0 .. MaxUpsets /\ faults \in 0 .. MaxUpsets
  BY StationAssumption DEF Init
<1> QED BY <1>1, <1>3, <1>4, <1>5, <1>6 DEF IInv, TypeOK

\* Every step keeps the invariant.
LEMMA StepInv == IInv /\ [Next]_vars => IInv'
<1> SUFFICES ASSUME IInv, [Next]_vars PROVE IInv'
  OBVIOUS
<1>1. wifi' \in [Device -> Net \cup {NoNet, Off}] /\ WifiInv'
  BY WifiStep
<1>2. \A n \in Device : wifi'[n] # n
  <2> TAKE n \in Device
  <2>1. wifi'[n] \in InRange(n) \cup {NoNet, Off}
    BY <1>1 DEF WifiInv, InRange
  <2> QED BY <2>1, NetFacts
<1>3. task' \in [Device -> [Runner -> TaskState]] /\ TaskInv'
  BY TaskStep
<1> QED BY <1>1, <1>2, <1>3, HotspotStep, LinksStep, DownstreamStep, SeenStep, BoundsStep
           DEF IInv, TypeOK, TaskState, Net

\* The Wi-Fi is on networks in range, and no task leaves the hotspot of a
\* device with a lower ID, whatever status it reads and however late it acts.
THEOREM Invariance == Spec => []IInv
<1>1. Init => IInv
  BY InitInv
<1>2. IInv /\ [Next]_vars => IInv'
  BY StepInv
<1> QED BY <1>1, <1>2, PTL DEF Spec

\* The state has its type: the uplink that auto_connect reports is a Sherd
\* network, and no Wi-Fi is on the device's own hotspot.
THEOREM TypeOKHolds == Spec => []TypeOK
<1>1. IInv => TypeOK
  BY DEF IInv
<1> QED BY <1>1, Invariance, PTL

\* What takes the Wi-Fi of n off the hotspot of m, which stays on the air.
LEMMA WhoLetsGo ==
  ASSUME IInv, Next, NEW n \in Device, NEW m \in Device,
         wifi[n] = m, hotspot'[m], wifi'[n] \notin Sherd,
         UNCHANGED <<hands, faults>>
  PROVE  \E r \in Runner : Leave(n, r) \/ (Join(n, r) /\ Best(n, task[n][r].todo) # m)
<1> DEFINE Goal == \E r \in Runner : Leave(n, r) \/ (Join(n, r) /\ Best(n, task[n][r].todo) # m)
<1>1. m \in InRange(n) /\ m \in Sherd /\ m # Off /\ m # NoNet
  BY NetFacts DEF IInv, WifiInv
<1>2. wifi' # wifi /\ wifi'[n] # wifi[n] /\ hands \in Int /\ faults \in Int
  BY <1>1 DEF IInv, TypeOK
<1>3. wifi \in [Device -> Net \cup {NoNet, Off}]
  BY DEF IInv, TypeOK
<1>4. ASSUME NEW k \in Device
      PROVE  ~Hand(k) /\ ~Fault(k)
  BY <1>2 DEF Hand, Fault
<1>5. ASSUME NEW k \in Device,
             \/ Start(k) \/ Supervise(k) \/ (\E j \in Device : Announce(j, k))
             \/ (\E s \in Device : Forget(k, s)) \/ \E s \in Sherd : GraceEnds(k, s)
      PROVE  UNCHANGED wifi
  BY <1>5 DEF Start, Supervise, Check, CheckPlan, Announce, Forget, GraceEnds
<1>6. ASSUME NEW k \in Device PROVE ~Outside(k)
  BY <1>4 DEF Outside, ClientAuto, ClientStatus, WifiByHand, HotspotByHand, Stop
<1>7. PICK k \in Device, r \in Runner : AutoConnect(k, r)
  BY <1>2, <1>5, <1>6 DEF Next
<1>8. CASE \/ Host(k, r) \/ \E scan \in SUBSET InRange(k) : Plan(k, r, scan)
  BY <1>2, <1>4, <1>8 DEF Host, Plan
<1>9. CASE Begin(k, r)
  <2>1. wifi[k] = Off /\ wifi' = [wifi EXCEPT ![k] = NoNet]
    BY <1>2, <1>9 DEF Begin
  <2> QED BY <1>1, <1>2, <1>3, <2>1
<1>10. CASE Leave(k, r)
  <2>1. k = n
    BY <1>2, <1>3, <1>10 DEF Leave
  <2> QED BY <1>10, <2>1
<1>11. CASE Join(k, r)
  <2>1. k = n
    BY <1>2, <1>3, <1>11, JoinWifi
  <2>2. ASSUME Best(n, task[n][r].todo) = m PROVE FALSE
    <3>1. m \in Visible(n)
      BY <1>1, <1>11 DEF Visible, OnAir, Join
    <3>2. wifi[n] # Off
      BY <1>1
    <3>3. Joined(n, r, m)
      BY <1>4, <1>11, <2>1, <2>2, <3>1, <3>2 DEF Join, JoinFailed
    <3> QED BY <1>2, <1>3, <3>3 DEF Joined
  <2> QED BY <1>11, <2>1, <2>2
<1> QED BY <1>7, <1>8, <1>9, <1>10, <1>11 DEF AutoConnect

\* Of two devices that joined each other the one with the higher ID keeps its
\* link, but for what it planned about a third network.
THEOREM HigherKeepsItsLinkHolds == Spec => HigherKeepsItsLink
<1> DEFINE Kept(n, m) == Mutual(n, m) /\ n > m /\ hotspot'[m] /\ wifi'[n] \notin Sherd
                           => \/ hands' # hands \/ faults' # faults
                              \/ \E r \in Runner : PlannedBefore(n, r, m)
<1>1. ASSUME IInv, [Next]_vars, NEW n \in Device, NEW m \in Device
      PROVE  Kept(n, m)
  <2> SUFFICES ASSUME Mutual(n, m), hotspot'[m], wifi'[n] \notin Sherd,
                      UNCHANGED <<hands, faults>>
               PROVE  \E r \in Runner : PlannedBefore(n, r, m)
    OBVIOUS
  <2>1. Next /\ wifi[n] = m
    BY <1>1, NetFacts DEF Mutual, vars
  <2>2. PICK r \in Runner : Leave(n, r) \/ (Join(n, r) /\ Best(n, task[n][r].todo) # m)
    BY <1>1, <2>1, WhoLetsGo
  <2>3. task[n][r] \in TaskState /\ task \in [Device -> [Runner -> TaskState]]
    BY <1>1 DEF IInv, TypeOK
  <2>4. CASE Leave(n, r)
    <3>1. task[n][r].at = "leaving" /\ task'[n][r] = [task[n][r] EXCEPT !.at = "hosting"]
      BY <2>3, <2>4 DEF Leave, At, Step
    <3>2. task'[n][r] # task[n][r]
      BY <2>3, <3>1 DEF TaskState
    <3>3. task[n][r].was > n
      BY <1>1, <3>1 DEF IInv, TaskInv
    <3> QED BY <3>1, <3>2, <3>3 DEF PlannedBefore
  <2>5. CASE Join(n, r) /\ Best(n, task[n][r].todo) # m
    <3> DEFINE t == task[n][r]
               s == Best(n, t.todo)
    <3>1. t.at = "joining" /\ s \in t.todo
      BY <1>1, <2>5, JoinIsSherd DEF Join, At, IInv
    <3>2. task'[n][r] # t
      <4>1. \/ task'[n][r].at = "hosting"
            \/ task'[n][r].todo = t.todo \ {s}
        <5>1. \E new : /\ Step(n, r, new)
                       /\ \E u, d : \/ new = [t EXCEPT !.at = "hosting", !.todo = d, !.uplink = u]
                                    \/ new = [t EXCEPT !.todo = t.todo \ {s}]
          BY <2>5 DEF Join, Joined, JoinFailed
        <5>2. PICK new : /\ Step(n, r, new)
                         /\ \E u, d : \/ new = [t EXCEPT !.at = "hosting", !.todo = d, !.uplink = u]
                                      \/ new = [t EXCEPT !.todo = t.todo \ {s}]
          BY <5>1
        <5>3. task'[n][r] = new
          BY <2>3, <5>2 DEF Step
        <5>4. DOMAIN t = {"at", "was", "bad", "todo", "uplink"}
          BY <2>3 DEF TaskState
        <5> HIDE DEF s, t
        <5>5. ASSUME NEW u, NEW d, new = [t EXCEPT !.at = "hosting", !.todo = d, !.uplink = u]
              PROVE  new.at = "hosting"
          BY <5>4, <5>5
        <5>6. ASSUME new = [t EXCEPT !.todo = t.todo \ {s}]
              PROVE  new.todo = t.todo \ {s}
          BY <5>4, <5>6
        <5> QED BY <5>2, <5>3, <5>5, <5>6
      <4>2. CASE task'[n][r].at = "hosting"
        BY <3>1, <4>2
      <4>3. CASE task'[n][r].todo = t.todo \ {s}
        <5>1. s \notin task'[n][r].todo
          BY <4>3
        <5> HIDE DEF s
        <5> QED BY <3>1, <5>1
      <4> QED BY <4>1, <4>2, <4>3
    <3> QED BY <2>5, <3>1, <3>2 DEF PlannedBefore
  <2> QED BY <2>2, <2>4, <2>5
<1>2. IInv /\ [Next]_vars => \A n, m \in Device : Kept(n, m)
  BY <1>1
<1>3. (\A n, m \in Device : Kept(n, m)) => [\A n, m \in Device : Kept(n, m)]_vars
  OBVIOUS
<1> QED BY <1>2, <1>3, Invariance, PTL DEF Spec, HigherKeepsItsLink
================================================================================
