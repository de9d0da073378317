-------------------------- MODULE HotspotControlProofs --------------------------
(***************************************************************************)
(* What holds of the hotspot for every number of calls, proved.  The        *)
(* inductive invariant is the conjunction of the parts below; each part    *)
(* has a lemma that says every step keeps it, with one step per action.    *)
(***************************************************************************)
EXTENDS HotspotControl, TLAPS

(* A job is in the phases of its own kind, and has no result before it      *)
(* returns.                                                                *)
JobsInv ==
  \A o \in Op :
    /\ job[o] \in {"save", "configure", "switchingOn"} => Starts(o)
    /\ job[o] \in {"take", "restore"} => ~Starts(o)
    /\ job[o] # "none" => result[o] = "none"

(* A job belongs to the call that has the turn, or was left behind by the   *)
(* timer of a start or by the grace of shutdown; while the stop of          *)
(* shutdown runs, or once shutdown has an answer, no start has the turn.   *)
TurnsInv ==
  /\ \A o \in Op : job[o] # "none" =>
        \/ caller[o] = "winrt"
        \/ Kind[o] = "auto" /\ caller[o] = "idle"
        \/ o = Shutdown /\ outcome = "graceOver"
  /\ \A o, p \in Op : Holds(o) /\ Holds(p) => o = p
  /\ outcome # "none" => flag /\ caller[Shutdown] = "idle"
  /\ ~flag => caller[Shutdown] = "idle"
  /\ outcome \in {"stopped", "failed"} \/ job[Shutdown] # "none" =>
        \A o \in Op : Starts(o) => ~Holds(o)

(* Before a start has outlived its timer, no start is left behind. *)
NoneLeftInv ==
  ~abandoned => \A o \in Op : job[o] # "none" =>
    caller[o] = "winrt" \/ (o = Shutdown /\ outcome = "graceOver")

(* Before Sherd's settings go in, the user's have been saved, and what is   *)
(* about to be saved was read while they were in Windows.                  *)
KeptInv ==
  ~abandoned =>
  /\ settings = "sherd" => lost \/ saved # Absent \/ \E o \in Op : job[o] = "restore"
  /\ process = "dead" /\ settings = "sherd" => lost
  /\ \A o \in Op :
       /\ job[o] = "switchingOff" /\ Starts(o) => local[o] \notin {"sherd", Absent}
       /\ job[o] = "save" => local[o] # Absent
       /\ job[o] = "save" /\ local[o] = "sherd" => lost \/ saved # Absent
       /\ job[o] = "configure" => lost \/ saved # Absent

(* The stop of shutdown switches the hotspot off before it takes what was   *)
(* saved, and is only reported when both are done, or when netsh was asked *)
(* instead.                                                                *)
OffInv ==
  /\ caller[Shutdown] = "netsh" => result[Shutdown] = "unsupported"
  /\ ~abandoned =>
       /\ job[Shutdown] \in {"take", "restore"} => ~tethering
       /\ /\ caller[Shutdown] = "winrt" \/ outcome = "stopped"
          /\ job[Shutdown] = "none" /\ result[Shutdown] = "ok"
          => ~tethering /\ (settings = "sherd" => lost)

(* No step saves Sherd's own name, or puts it back. *)
LEMMA NamesStep ==
  ASSUME TypeOK, NeverSavesSherd, [Next]_vars
  PROVE  NeverSavesSherd'
<1>1. ASSUME NEW o \in Op, Call(o) PROVE NeverSavesSherd'
  BY <1>1
  DEF history, Call, Running, daemonVars, windowsVars, NeverSavesSherd
<1>2. ASSUME NEW o \in Op, TakeTurn(o) PROVE NeverSavesSherd'
  BY <1>2, AbsentAssumption
  DEF history, TakeTurn, Running, Holds, Starts, daemonVars, windowsVars, NeverSavesSherd, TypeOK, Step, InFlight, Settings
<1>3. ASSUME NEW o \in Op, JobReturns(o) PROVE NeverSavesSherd'
  BY <1>3
  DEF history, JobReturns, Running, EndTurn, windowsVars, NeverSavesSherd
<1>4. ASSUME NEW o \in Op, NetshReturns(o) PROVE NeverSavesSherd'
  BY <1>4
  DEF history, NetshReturns, Running, EndTurn, Starts, NeverSavesSherd
<1>5. ASSUME NEW o \in Op, StartTimesOut(o) PROVE NeverSavesSherd'
  BY <1>5
  DEF history, StartTimesOut, Running, daemonVars, NeverSavesSherd
<1>6. ASSUME NEW o \in Op, ReadToStart(o) PROVE NeverSavesSherd'
  BY <1>6, AbsentAssumption
  DEF history, ReadToStart, Exists, Starts, Finish, IsOn, Continue, daemonVars, windowsVars, Switching, InFlight, NeverSavesSherd, TypeOK, Step, Settings
<1>7. ASSUME NEW o \in Op, ReadToStop(o) PROVE NeverSavesSherd'
  BY <1>7, AbsentAssumption
  DEF history, ReadToStop, Exists, Starts, Finish, IsOff, Continue, daemonVars, windowsVars, Switching, InFlight, NeverSavesSherd, TypeOK, Step, Settings
<1>8. ASSUME NEW o \in Op, Save(o) PROVE NeverSavesSherd'
  BY <1>8
  DEF history, Save, Exists, Continue, windowsVars, NeverSavesSherd
<1>9. ASSUME NEW o \in Op, Configure(o) PROVE NeverSavesSherd'
  BY <1>9, AbsentAssumption
  DEF history, Configure, Exists, Continue, Finish, daemonVars, NeverSavesSherd, TypeOK, Step, InFlight, Settings
<1>10. ASSUME NEW o \in Op, Take(o) PROVE NeverSavesSherd'
  BY <1>10, AbsentAssumption
  DEF history, Take, Exists, Finish, Continue, windowsVars, NeverSavesSherd, TypeOK, Step, InFlight, Settings
<1>11. ASSUME NEW o \in Op, Restore(o) PROVE NeverSavesSherd'
  BY <1>11
  DEF history, Restore, Exists, Finish, NeverSavesSherd
<1>12. ASSUME NEW o \in Op, SwitchedOff(o) PROVE NeverSavesSherd'
  BY <1>12, AbsentAssumption
  DEF history, SwitchedOff, Continue, Starts, Finish, daemonVars, NeverSavesSherd, TypeOK, Step, InFlight, Settings
<1>13. ASSUME NEW o \in Op, SwitchedOn(o) PROVE NeverSavesSherd'
  BY <1>13, AbsentAssumption
  DEF history, SwitchedOn, Finish, daemonVars, NeverSavesSherd, TypeOK, Step, InFlight, Settings
<1>14. CASE BeginShutdown
  BY <1>14
  DEF history, BeginShutdown, Running, windowsVars, NeverSavesSherd
<1>15. CASE GraceRunsOut
  BY <1>15
  DEF history, GraceRunsOut, Running, Holds, windowsVars, NeverSavesSherd
<1>16. CASE Refuse
  BY <1>16
  DEF history, Refuse, daemonVars, NeverSavesSherd
<1>17. CASE Rename
  BY <1>17
  DEF history, Rename, Running, daemonVars, NeverSavesSherd
<1>18. CASE SwitchOffByHand
  BY <1>18
  DEF history, SwitchOffByHand, Running, IsOn, daemonVars, Switching, InFlight, NeverSavesSherd
<1>19. CASE Exit
  BY <1>19
  DEF history, Exit, Running, windowsVars, NeverSavesSherd
<1>20. CASE Kill
  BY <1>20
  DEF history, Kill, Exists, InFlight, windowsVars, NeverSavesSherd
<1>21. CASE Restart
  BY <1>21, AbsentAssumption
  DEF history, Restart, Exists, Switching, windowsVars, InFlight, NeverSavesSherd, TypeOK, Step, Settings
<1>22. CASE UNCHANGED vars
  BY <1>22
  DEF vars, NeverSavesSherd
<1> QED
  BY <1>1, <1>2, <1>3, <1>4, <1>5, <1>6, <1>7, <1>8, <1>9, <1>10, <1>11,
     <1>12, <1>13, <1>14, <1>15, <1>16, <1>17, <1>18, <1>19, <1>20, <1>21, <1>22 DEF Next, JobStep

(* Every step keeps the state well typed. *)
LEMMA TypeStep ==
  ASSUME TypeOK, NeverSavesSherd, [Next]_vars
  PROVE  TypeOK'
<1>1. ASSUME NEW o \in Op, Call(o) PROVE TypeOK'
  BY <1>1
  DEF history, Call, Running, daemonVars, windowsVars, TypeOK, Step, InFlight, Settings, NeverSavesSherd
<1>2. ASSUME NEW o \in Op, TakeTurn(o) PROVE TypeOK'
  BY <1>2
  DEF history, TakeTurn, Running, Holds, Starts, daemonVars, windowsVars, TypeOK, Step, InFlight, Settings, NeverSavesSherd
<1>3. ASSUME NEW o \in Op, JobReturns(o) PROVE TypeOK'
  BY <1>3
  DEF history, JobReturns, Running, EndTurn, windowsVars, TypeOK, Step, InFlight, Settings, NeverSavesSherd
<1>4. ASSUME NEW o \in Op, NetshReturns(o) PROVE TypeOK'
  <2>1. legacy' \in BOOLEAN
    BY <1>4 DEF history, NetshReturns, Starts, TypeOK
  <2> QED
    BY <1>4, <2>1 DEF history, NetshReturns, EndTurn, TypeOK
<1>5. ASSUME NEW o \in Op, StartTimesOut(o) PROVE TypeOK'
  <2>1. legacy' \in BOOLEAN
    BY <1>5 DEF history, StartTimesOut, TypeOK
  <2> QED
    BY <1>5, <2>1 DEF history, StartTimesOut, daemonVars, TypeOK
<1>6. ASSUME NEW o \in Op, ReadToStart(o) PROVE TypeOK'
  BY <1>6
  DEF history, ReadToStart, Exists, Starts, Finish, IsOn, Continue, daemonVars, windowsVars, Switching, InFlight, TypeOK, Step, Settings, NeverSavesSherd
<1>7. ASSUME NEW o \in Op, ReadToStop(o) PROVE TypeOK'
  BY <1>7
  DEF history, ReadToStop, Exists, Starts, Finish, IsOff, Continue, daemonVars, windowsVars, Switching, InFlight, TypeOK, Step, Settings, NeverSavesSherd
<1>8. ASSUME NEW o \in Op, Save(o) PROVE TypeOK'
  BY <1>8
  DEF history, Save, Exists, Continue, windowsVars, TypeOK, Step, InFlight, Settings, NeverSavesSherd
<1>9. ASSUME NEW o \in Op, Configure(o) PROVE TypeOK'
  BY <1>9
  DEF history, Configure, Exists, Continue, Finish, daemonVars, TypeOK, Step, InFlight, Settings, NeverSavesSherd
<1>10. ASSUME NEW o \in Op, Take(o) PROVE TypeOK'
  BY <1>10
  DEF history, Take, Exists, Finish, Continue, windowsVars, TypeOK, Step, InFlight, Settings, NeverSavesSherd
<1>11. ASSUME NEW o \in Op, Restore(o) PROVE TypeOK'
  <2>1. settings' \in Settings /\ lost' \in BOOLEAN
    BY <1>11 DEF history, Restore, NeverSavesSherd, TypeOK
  <2>2. /\ job' \in [Op -> Step \cup {"none"}]
        /\ result' \in [Op -> {"none", "ok", "failed", "unsupported"}]
    BY <1>11 DEF history, Restore, Finish, TypeOK
  <2> QED
    BY <1>11, <2>1, <2>2 DEF history, Restore, TypeOK
<1>12. ASSUME NEW o \in Op, SwitchedOff(o) PROVE TypeOK'
  <2>1. tethering' \in BOOLEAN
    BY <1>12 DEF history, SwitchedOff, TypeOK
  <2>2. job' \in [Op -> Step \cup {"none"}]
    BY <1>12 DEF history, SwitchedOff, Continue, Finish, TypeOK, Step
  <2>3. result' \in [Op -> {"none", "ok", "failed", "unsupported"}]
    BY <1>12 DEF history, SwitchedOff, Continue, Finish, TypeOK
  <2> QED
    BY <1>12, <2>1, <2>2, <2>3 DEF history, SwitchedOff, daemonVars, TypeOK
<1>13. ASSUME NEW o \in Op, SwitchedOn(o) PROVE TypeOK'
  <2>1. tethering' \in BOOLEAN
    BY <1>13 DEF history, SwitchedOn, TypeOK
  <2>2. job' \in [Op -> Step \cup {"none"}]
    BY <1>13 DEF history, SwitchedOn, Finish, TypeOK, Step
  <2>3. result' \in [Op -> {"none", "ok", "failed", "unsupported"}]
    BY <1>13 DEF history, SwitchedOn, Finish, TypeOK
  <2> QED
    BY <1>13, <2>1, <2>2, <2>3 DEF history, SwitchedOn, daemonVars, TypeOK
<1>14. CASE BeginShutdown
  BY <1>14
  DEF history, BeginShutdown, Running, windowsVars, TypeOK, Step, InFlight, Settings, NeverSavesSherd
<1>15. CASE GraceRunsOut
  BY <1>15
  DEF history, GraceRunsOut, Running, Holds, windowsVars, TypeOK, Step, InFlight, Settings, NeverSavesSherd
<1>16. CASE Refuse
  BY <1>16
  DEF history, Refuse, daemonVars, TypeOK, Step, InFlight, Settings, NeverSavesSherd
<1>17. CASE Rename
  BY <1>17
  DEF history, Rename, Running, daemonVars, TypeOK, Step, InFlight, Settings, NeverSavesSherd
<1>18. CASE SwitchOffByHand
  BY <1>18
  DEF history, SwitchOffByHand, Running, IsOn, daemonVars, Switching, InFlight, TypeOK, Step, Settings, NeverSavesSherd
<1>19. CASE Exit
  BY <1>19
  DEF history, Exit, Running, windowsVars, TypeOK, Step, InFlight, Settings, NeverSavesSherd
<1>20. CASE Kill
  BY <1>20
  DEF history, Kill, Exists, InFlight, windowsVars, TypeOK, Step, Settings, NeverSavesSherd
<1>21. CASE Restart
  BY <1>21
  DEF history, Restart, Exists, Switching, windowsVars, InFlight, TypeOK, Step, Settings, NeverSavesSherd
<1>22. CASE UNCHANGED vars
  BY <1>22
  DEF vars, TypeOK, Step, InFlight, Settings, NeverSavesSherd
<1> QED
  BY <1>1, <1>2, <1>3, <1>4, <1>5, <1>6, <1>7, <1>8, <1>9, <1>10, <1>11,
     <1>12, <1>13, <1>14, <1>15, <1>16, <1>17, <1>18, <1>19, <1>20, <1>21, <1>22 DEF Next, JobStep

(* Every step keeps the jobs in the phases of their kind. *)
LEMMA JobsStep ==
  ASSUME TypeOK, JobsInv, [Next]_vars
  PROVE  JobsInv'
<1>1. ASSUME NEW o \in Op, Call(o) PROVE JobsInv'
  BY <1>1
  DEF history, Call, Running, daemonVars, windowsVars, JobsInv, Starts
<1>2. ASSUME NEW o \in Op, TakeTurn(o) PROVE JobsInv'
  BY <1>2, OpAssumption
  DEF history, TakeTurn, Running, Holds, Starts, daemonVars, windowsVars, JobsInv, TypeOK, Step, InFlight, Settings
<1>3. ASSUME NEW o \in Op, JobReturns(o) PROVE JobsInv'
  BY <1>3
  DEF history, JobReturns, Running, EndTurn, windowsVars, JobsInv, Starts
<1>4. ASSUME NEW o \in Op, NetshReturns(o) PROVE JobsInv'
  BY <1>4
  DEF history, NetshReturns, Running, EndTurn, Starts, JobsInv
<1>5. ASSUME NEW o \in Op, StartTimesOut(o) PROVE JobsInv'
  BY <1>5
  DEF history, StartTimesOut, Running, daemonVars, JobsInv, Starts
<1>6. ASSUME NEW o \in Op, ReadToStart(o) PROVE JobsInv'
  BY <1>6, OpAssumption
  DEF history, ReadToStart, Exists, Starts, Finish, IsOn, Continue, daemonVars, windowsVars, Switching, InFlight, JobsInv, TypeOK, Step, Settings
<1>7. ASSUME NEW o \in Op, ReadToStop(o) PROVE JobsInv'
  BY <1>7, OpAssumption
  DEF history, ReadToStop, Exists, Starts, Finish, IsOff, Continue, daemonVars, windowsVars, Switching, InFlight, JobsInv, TypeOK, Step, Settings
<1>8. ASSUME NEW o \in Op, Save(o) PROVE JobsInv'
  BY <1>8
  DEF history, Save, Exists, Continue, windowsVars, JobsInv, Starts
<1>9. ASSUME NEW o \in Op, Configure(o) PROVE JobsInv'
  BY <1>9, OpAssumption
  DEF history, Configure, Exists, Continue, Finish, daemonVars, JobsInv, Starts, TypeOK, Step, InFlight, Settings
<1>10. ASSUME NEW o \in Op, Take(o) PROVE JobsInv'
  BY <1>10, OpAssumption
  DEF history, Take, Exists, Finish, Continue, windowsVars, JobsInv, Starts, TypeOK, Step, InFlight, Settings
<1>11. ASSUME NEW o \in Op, Restore(o) PROVE JobsInv'
  BY <1>11, OpAssumption
  DEF history, Restore, Exists, Finish, JobsInv, Starts, TypeOK, Step, InFlight, Settings
<1>12. ASSUME NEW o \in Op, SwitchedOff(o) PROVE JobsInv'
  BY <1>12, OpAssumption
  DEF history, SwitchedOff, Continue, Starts, Finish, daemonVars, JobsInv, TypeOK, Step, InFlight, Settings
<1>13. ASSUME NEW o \in Op, SwitchedOn(o) PROVE JobsInv'
  BY <1>13, OpAssumption
  DEF history, SwitchedOn, Finish, daemonVars, JobsInv, Starts, TypeOK, Step, InFlight, Settings
<1>14. CASE BeginShutdown
  BY <1>14
  DEF history, BeginShutdown, Running, windowsVars, JobsInv, Starts
<1>15. CASE GraceRunsOut
  BY <1>15
  DEF history, GraceRunsOut, Running, Holds, windowsVars, JobsInv, Starts
<1>16. CASE Refuse
  BY <1>16
  DEF history, Refuse, daemonVars, JobsInv, Starts
<1>17. CASE Rename
  BY <1>17
  DEF history, Rename, Running, daemonVars, JobsInv, Starts
<1>18. CASE SwitchOffByHand
  BY <1>18
  DEF history, SwitchOffByHand, Running, IsOn, daemonVars, Switching, InFlight, JobsInv, Starts
<1>19. CASE Exit
  BY <1>19
  DEF history, Exit, Running, windowsVars, JobsInv, Starts
<1>20. CASE Kill
  BY <1>20
  DEF history, Kill, Exists, InFlight, windowsVars, JobsInv, Starts
<1>21. CASE Restart
  BY <1>21
  DEF history, Restart, Exists, Switching, windowsVars, InFlight, JobsInv, Starts
<1>22. CASE UNCHANGED vars
  BY <1>22
  DEF vars, JobsInv, Starts
<1> QED
  BY <1>1, <1>2, <1>3, <1>4, <1>5, <1>6, <1>7, <1>8, <1>9, <1>10, <1>11,
     <1>12, <1>13, <1>14, <1>15, <1>16, <1>17, <1>18, <1>19, <1>20, <1>21, <1>22 DEF Next, JobStep

(* Every step keeps the turns. *)
LEMMA TurnsStep ==
  ASSUME TypeOK, JobsInv, TurnsInv, [Next]_vars
  PROVE  TurnsInv'
<1>1. ASSUME NEW o \in Op, Call(o) PROVE TurnsInv'
  BY <1>1
  DEF history, Call, Running, daemonVars, windowsVars, TurnsInv, Holds, Starts
<1>2. ASSUME NEW o \in Op, TakeTurn(o) PROVE TurnsInv'
  BY <1>2, OpAssumption
  DEF history, TakeTurn, Running, Holds, Starts, daemonVars, windowsVars, TurnsInv, TypeOK, Step, InFlight, Settings, JobsInv
<1>3. ASSUME NEW o \in Op, JobReturns(o) PROVE TurnsInv'
  BY <1>3, OpAssumption
  DEF history, JobReturns, Running, EndTurn, windowsVars, TurnsInv, Holds, Starts, TypeOK, Step, InFlight, Settings, JobsInv
<1>4. ASSUME NEW o \in Op, NetshReturns(o) PROVE TurnsInv'
  BY <1>4, OpAssumption
  DEF history, NetshReturns, Running, EndTurn, Starts, TurnsInv, Holds, TypeOK, Step, InFlight, Settings, JobsInv
<1>5. ASSUME NEW o \in Op, StartTimesOut(o) PROVE TurnsInv'
  BY <1>5, OpAssumption
  DEF history, StartTimesOut, Running, daemonVars, TurnsInv, Holds, Starts, TypeOK, Step, InFlight, Settings, JobsInv
<1>6. ASSUME NEW o \in Op, ReadToStart(o) PROVE TurnsInv'
  BY <1>6, OpAssumption
  DEF history, ReadToStart, Exists, Starts, Finish, IsOn, Continue, daemonVars, windowsVars, Switching, InFlight, TurnsInv, Holds, TypeOK, Step, Settings, JobsInv
<1>7. ASSUME NEW o \in Op, ReadToStop(o) PROVE TurnsInv'
  BY <1>7, OpAssumption
  DEF history, ReadToStop, Exists, Starts, Finish, IsOff, Continue, daemonVars, windowsVars, Switching, InFlight, TurnsInv, Holds, TypeOK, Step, Settings, JobsInv
<1>8. ASSUME NEW o \in Op, Save(o) PROVE TurnsInv'
  BY <1>8
  DEF history, Save, Exists, Continue, windowsVars, TurnsInv, Holds, Starts
<1>9. ASSUME NEW o \in Op, Configure(o) PROVE TurnsInv'
  BY <1>9, OpAssumption
  DEF history, Configure, Exists, Continue, Finish, daemonVars, TurnsInv, Holds, Starts, TypeOK, Step, InFlight, Settings, JobsInv
<1>10. ASSUME NEW o \in Op, Take(o) PROVE TurnsInv'
  BY <1>10, OpAssumption
  DEF history, Take, Exists, Finish, Continue, windowsVars, TurnsInv, Holds, Starts, TypeOK, Step, InFlight, Settings, JobsInv
<1>11. ASSUME NEW o \in Op, Restore(o) PROVE TurnsInv'
  BY <1>11
  DEF history, Restore, Exists, Finish, TurnsInv, Holds, Starts
<1>12. ASSUME NEW o \in Op, SwitchedOff(o) PROVE TurnsInv'
  BY <1>12, OpAssumption
  DEF history, SwitchedOff, Continue, Starts, Finish, daemonVars, TurnsInv, Holds, TypeOK, Step, InFlight, Settings, JobsInv
<1>13. ASSUME NEW o \in Op, SwitchedOn(o) PROVE TurnsInv'
  BY <1>13, OpAssumption
  DEF history, SwitchedOn, Finish, daemonVars, TurnsInv, Holds, Starts, TypeOK, Step, InFlight, Settings, JobsInv
<1>14. CASE BeginShutdown
  BY <1>14, OpAssumption
  DEF history, BeginShutdown, Running, windowsVars, TurnsInv, Holds, Starts, TypeOK
<1>15. CASE GraceRunsOut
  BY <1>15, OpAssumption
  DEF history, GraceRunsOut, Running, Holds, windowsVars, TurnsInv, Starts, TypeOK, Step, InFlight, Settings, JobsInv
<1>16. CASE Refuse
  BY <1>16
  DEF history, Refuse, daemonVars, TurnsInv, Holds, Starts
<1>17. CASE Rename
  BY <1>17
  DEF history, Rename, Running, daemonVars, TurnsInv, Holds, Starts
<1>18. CASE SwitchOffByHand
  BY <1>18
  DEF history, SwitchOffByHand, Running, IsOn, daemonVars, Switching, InFlight, TurnsInv, Holds, Starts
<1>19. CASE Exit
  BY <1>19
  DEF history, Exit, Running, windowsVars, TurnsInv, Holds, Starts
<1>20. CASE Kill
  BY <1>20, OpAssumption
  DEF history, Kill, Exists, InFlight, windowsVars, TurnsInv, Holds, Starts, TypeOK, Step, Settings, JobsInv
<1>21. CASE Restart
  BY <1>21, OpAssumption
  DEF history, Restart, Exists, Switching, windowsVars, InFlight, TurnsInv, Holds, Starts, TypeOK, Step, Settings, JobsInv
<1>22. CASE UNCHANGED vars
  BY <1>22
  DEF vars, TurnsInv, Holds, Starts
<1> QED
  BY <1>1, <1>2, <1>3, <1>4, <1>5, <1>6, <1>7, <1>8, <1>9, <1>10, <1>11,
     <1>12, <1>13, <1>14, <1>15, <1>16, <1>17, <1>18, <1>19, <1>20, <1>21, <1>22 DEF Next, JobStep

(* No step leaves a start behind but the one that says so. *)
LEMMA NoneLeftStep ==
  ASSUME TypeOK, JobsInv, TurnsInv, NoneLeftInv, [Next]_vars
  PROVE  NoneLeftInv'
<1>1. ASSUME NEW o \in Op, Call(o) PROVE NoneLeftInv'
  BY <1>1
  DEF history, Call, Running, daemonVars, windowsVars, NoneLeftInv, Starts
<1>2. ASSUME NEW o \in Op, TakeTurn(o) PROVE NoneLeftInv'
  BY <1>2, OpAssumption
  DEF history, TakeTurn, Running, Holds, Starts, daemonVars, windowsVars, NoneLeftInv, TypeOK, Step, InFlight, Settings, JobsInv
<1>3. ASSUME NEW o \in Op, JobReturns(o) PROVE NoneLeftInv'
  BY <1>3, OpAssumption
  DEF history, JobReturns, Running, EndTurn, windowsVars, TurnsInv, NoneLeftInv, Holds, Starts, TypeOK, Step, InFlight, Settings, JobsInv
<1>4. ASSUME NEW o \in Op, NetshReturns(o) PROVE NoneLeftInv'
  BY <1>4, OpAssumption
  DEF history, NetshReturns, Running, EndTurn, Starts, TurnsInv, NoneLeftInv, Holds, TypeOK, Step, InFlight, Settings, JobsInv
<1>5. ASSUME NEW o \in Op, StartTimesOut(o) PROVE NoneLeftInv'
  BY <1>5, OpAssumption
  DEF history, StartTimesOut, Running, daemonVars, NoneLeftInv, Starts, TypeOK, Step, InFlight, Settings, JobsInv
<1>6. ASSUME NEW o \in Op, ReadToStart(o) PROVE NoneLeftInv'
  BY <1>6, OpAssumption
  DEF history, ReadToStart, Exists, Starts, Finish, IsOn, Continue, daemonVars, windowsVars, Switching, InFlight, NoneLeftInv, TypeOK, Step, Settings, JobsInv
<1>7. ASSUME NEW o \in Op, ReadToStop(o) PROVE NoneLeftInv'
  BY <1>7, OpAssumption
  DEF history, ReadToStop, Exists, Starts, Finish, IsOff, Continue, daemonVars, windowsVars, Switching, InFlight, NoneLeftInv, TypeOK, Step, Settings, JobsInv
<1>8. ASSUME NEW o \in Op, Save(o) PROVE NoneLeftInv'
  BY <1>8
  DEF history, Save, Exists, Continue, windowsVars, NoneLeftInv, Starts
<1>9. ASSUME NEW o \in Op, Configure(o) PROVE NoneLeftInv'
  BY <1>9, OpAssumption
  DEF history, Configure, Exists, Continue, Finish, daemonVars, NoneLeftInv, Starts, TypeOK, Step, InFlight, Settings, JobsInv
<1>10. ASSUME NEW o \in Op, Take(o) PROVE NoneLeftInv'
  BY <1>10, OpAssumption
  DEF history, Take, Exists, Finish, Continue, windowsVars, NoneLeftInv, Starts, TypeOK, Step, InFlight, Settings, JobsInv
<1>11. ASSUME NEW o \in Op, Restore(o) PROVE NoneLeftInv'
  BY <1>11
  DEF history, Restore, Exists, Finish, NoneLeftInv, Starts
<1>12. ASSUME NEW o \in Op, SwitchedOff(o) PROVE NoneLeftInv'
  BY <1>12, OpAssumption
  DEF history, SwitchedOff, Continue, Starts, Finish, daemonVars, NoneLeftInv, TypeOK, Step, InFlight, Settings, JobsInv
<1>13. ASSUME NEW o \in Op, SwitchedOn(o) PROVE NoneLeftInv'
  BY <1>13, OpAssumption
  DEF history, SwitchedOn, Finish, daemonVars, NoneLeftInv, Starts, TypeOK, Step, InFlight, Settings, JobsInv
<1>14. CASE BeginShutdown
  BY <1>14
  DEF history, BeginShutdown, Running, windowsVars, TurnsInv, NoneLeftInv, Starts
<1>15. CASE GraceRunsOut
  BY <1>15, OpAssumption
  DEF history, GraceRunsOut, Running, Holds, windowsVars, TurnsInv, NoneLeftInv, Starts, TypeOK, Step, InFlight, Settings, JobsInv
<1>16. CASE Refuse
  BY <1>16
  DEF history, Refuse, daemonVars, NoneLeftInv, Starts
<1>17. CASE Rename
  BY <1>17
  DEF history, Rename, Running, daemonVars, NoneLeftInv, Starts
<1>18. CASE SwitchOffByHand
  BY <1>18
  DEF history, SwitchOffByHand, Running, IsOn, daemonVars, Switching, InFlight, NoneLeftInv, Starts
<1>19. CASE Exit
  BY <1>19
  DEF history, Exit, Running, windowsVars, NoneLeftInv, Starts
<1>20. CASE Kill
  BY <1>20, OpAssumption
  DEF history, Kill, Exists, InFlight, windowsVars, NoneLeftInv, Starts, TypeOK, Step, Settings, JobsInv
<1>21. CASE Restart
  BY <1>21, OpAssumption
  DEF history, Restart, Exists, Switching, windowsVars, InFlight, NoneLeftInv, Starts, TypeOK, Step, Settings, JobsInv
<1>22. CASE UNCHANGED vars
  BY <1>22
  DEF vars, NoneLeftInv, Starts
<1> QED
  BY <1>1, <1>2, <1>3, <1>4, <1>5, <1>6, <1>7, <1>8, <1>9, <1>10, <1>11,
     <1>12, <1>13, <1>14, <1>15, <1>16, <1>17, <1>18, <1>19, <1>20, <1>21, <1>22 DEF Next, JobStep

(* Then also the user's settings are remembered after every step. *)
LEMMA KeptStep ==
  ASSUME TypeOK, NeverSavesSherd, JobsInv, TurnsInv, NoneLeftInv, KeptInv, [Next]_vars
  PROVE  KeptInv'
<1>1. ASSUME NEW o \in Op, Call(o) PROVE KeptInv'
  BY <1>1
  DEF history, Call, Running, daemonVars, windowsVars, KeptInv, Starts
<1>2. ASSUME NEW o \in Op, TakeTurn(o) PROVE KeptInv'
  BY <1>2, OpAssumption, AbsentAssumption
  DEF history, TakeTurn, Running, Holds, Starts, daemonVars, windowsVars, KeptInv, TypeOK, Step, InFlight, Settings, JobsInv, TurnsInv, NoneLeftInv, NeverSavesSherd
<1>3. ASSUME NEW o \in Op, JobReturns(o) PROVE KeptInv'
  BY <1>3
  DEF history, JobReturns, Running, EndTurn, windowsVars, KeptInv, Starts
<1>4. ASSUME NEW o \in Op, NetshReturns(o) PROVE KeptInv'
  BY <1>4
  DEF history, NetshReturns, Running, EndTurn, Starts, KeptInv
<1>5. ASSUME NEW o \in Op, StartTimesOut(o) PROVE KeptInv'
  BY <1>5
  DEF history, StartTimesOut, Running, daemonVars, KeptInv, Starts
<1>6. ASSUME NEW o \in Op, ReadToStart(o) PROVE KeptInv'
  BY <1>6, OpAssumption, AbsentAssumption
  DEF history, ReadToStart, Exists, Starts, Finish, IsOn, Continue, daemonVars, windowsVars, Switching, InFlight, KeptInv, TypeOK, Step, Settings, JobsInv, TurnsInv, NoneLeftInv, Holds, NeverSavesSherd
<1>7. ASSUME NEW o \in Op, ReadToStop(o) PROVE KeptInv'
  BY <1>7, OpAssumption, AbsentAssumption
  DEF history, ReadToStop, Exists, Starts, Finish, IsOff, Continue, daemonVars, windowsVars, Switching, InFlight, KeptInv, TypeOK, Step, Settings, JobsInv, TurnsInv, NoneLeftInv, Holds, NeverSavesSherd
<1>8. ASSUME NEW o \in Op, Save(o) PROVE KeptInv'
  BY <1>8
  DEF history, Save, Exists, Continue, windowsVars, KeptInv, Starts
<1>9. ASSUME NEW o \in Op, Configure(o) PROVE KeptInv'
  BY <1>9, OpAssumption, AbsentAssumption
  DEF history, Configure, Exists, Continue, Finish, daemonVars, KeptInv, Starts, TypeOK, Step, InFlight, Settings, JobsInv, TurnsInv, NoneLeftInv, Holds, NeverSavesSherd
<1>10. ASSUME NEW o \in Op, Take(o) PROVE KeptInv'
  BY <1>10, OpAssumption, AbsentAssumption
  DEF history, Take, Exists, Finish, Continue, windowsVars, KeptInv, Starts, TypeOK, Step, InFlight, Settings, JobsInv, TurnsInv, NoneLeftInv, Holds, NeverSavesSherd
<1>11. ASSUME NEW o \in Op, Restore(o) PROVE KeptInv'
  BY <1>11, OpAssumption, AbsentAssumption
  DEF history, Restore, Exists, Finish, KeptInv, Starts, TypeOK, Step, InFlight, Settings, JobsInv, TurnsInv, NoneLeftInv, Holds, NeverSavesSherd
<1>12. ASSUME NEW o \in Op, SwitchedOff(o) PROVE KeptInv'
  BY <1>12, OpAssumption, AbsentAssumption
  DEF history, SwitchedOff, Continue, Starts, Finish, daemonVars, KeptInv, TypeOK, Step, InFlight, Settings, JobsInv, TurnsInv, NoneLeftInv, Holds, NeverSavesSherd
<1>13. ASSUME NEW o \in Op, SwitchedOn(o) PROVE KeptInv'
  BY <1>13, OpAssumption, AbsentAssumption
  DEF history, SwitchedOn, Finish, daemonVars, KeptInv, Starts, TypeOK, Step, InFlight, Settings, JobsInv, TurnsInv, NoneLeftInv, Holds, NeverSavesSherd
<1>14. CASE BeginShutdown
  BY <1>14
  DEF history, BeginShutdown, Running, windowsVars, KeptInv, Starts
<1>15. CASE GraceRunsOut
  BY <1>15
  DEF history, GraceRunsOut, Running, Holds, windowsVars, KeptInv, Starts
<1>16. CASE Refuse
  BY <1>16
  DEF history, Refuse, daemonVars, KeptInv, Starts
<1>17. CASE Rename
  BY <1>17
  DEF history, Rename, Running, daemonVars, KeptInv, Starts
<1>18. CASE SwitchOffByHand
  BY <1>18
  DEF history, SwitchOffByHand, Running, IsOn, daemonVars, Switching, InFlight, KeptInv, Starts
<1>19. CASE Exit
  BY <1>19
  DEF history, Exit, Running, windowsVars, KeptInv, Starts
<1>20. CASE Kill
  BY <1>20
  DEF history, Kill, Exists, InFlight, windowsVars, KeptInv, Starts
<1>21. CASE Restart
  BY <1>21
  DEF history, Restart, Exists, Switching, windowsVars, InFlight, KeptInv, Starts
<1>22. CASE UNCHANGED vars
  BY <1>22
  DEF vars, KeptInv, Starts
<1> QED
  BY <1>1, <1>2, <1>3, <1>4, <1>5, <1>6, <1>7, <1>8, <1>9, <1>10, <1>11,
     <1>12, <1>13, <1>14, <1>15, <1>16, <1>17, <1>18, <1>19, <1>20, <1>21, <1>22 DEF Next, JobStep

(* And the hotspot stays off after the stop. *)
LEMMA OffStep ==
  ASSUME TypeOK, NeverSavesSherd, JobsInv, TurnsInv, NoneLeftInv, KeptInv, OffInv,
         [Next]_vars
  PROVE  OffInv'
<1>1. ASSUME NEW o \in Op, Call(o) PROVE OffInv'
  BY <1>1
  DEF history, Call, Running, daemonVars, windowsVars, OffInv
<1>2. ASSUME NEW o \in Op, TakeTurn(o) PROVE OffInv'
  BY <1>2, OpAssumption, AbsentAssumption
  DEF history, TakeTurn, Running, Holds, Starts, daemonVars, windowsVars, OffInv, TypeOK, Step, InFlight, Settings, JobsInv, TurnsInv, NoneLeftInv, KeptInv, NeverSavesSherd
<1>3. ASSUME NEW o \in Op, JobReturns(o) PROVE OffInv'
  BY <1>3, OpAssumption, AbsentAssumption
  DEF history, JobReturns, Running, EndTurn, windowsVars, OffInv, TypeOK, Step, InFlight, Settings, Starts, JobsInv, TurnsInv, NoneLeftInv, Holds, KeptInv, NeverSavesSherd
<1>4. ASSUME NEW o \in Op, NetshReturns(o) PROVE OffInv'
  <2>1. /\ caller' = [caller EXCEPT ![o] = "idle"]
        /\ o # Shutdown => outcome' = outcome
        /\ UNCHANGED <<job, result, history, tethering, settings>>
    BY <1>4 DEF NetshReturns, EndTurn
  <2>2. CASE o = Shutdown
    BY <1>4, <2>1, <2>2 DEF NetshReturns, history, OffInv, TypeOK
  <2>3. CASE o # Shutdown
    BY <1>4, <2>1, <2>3 DEF NetshReturns, history, OffInv, TypeOK
  <2> QED
    BY <2>2, <2>3
<1>5. ASSUME NEW o \in Op, StartTimesOut(o) PROVE OffInv'
  <2>1. ~abandoned' => ~abandoned
    BY <1>5 DEF StartTimesOut
  <2>2. o # Shutdown
    BY <1>5, OpAssumption DEF StartTimesOut
  <2>3. /\ caller' = [caller EXCEPT ![o] = "idle"]
        /\ UNCHANGED <<job, result, outcome, lost, tethering, settings>>
    BY <1>5 DEF StartTimesOut
  <2> QED
    BY <2>1, <2>2, <2>3 DEF OffInv, TypeOK
<1>6. ASSUME NEW o \in Op, ReadToStart(o) PROVE OffInv'
  BY <1>6, OpAssumption, AbsentAssumption
  DEF history, ReadToStart, Exists, Starts, Finish, IsOn, Continue, daemonVars, windowsVars, Switching, InFlight, OffInv, TypeOK, Step, Settings, JobsInv, TurnsInv, NoneLeftInv, Holds, KeptInv, NeverSavesSherd
<1>7. ASSUME NEW o \in Op, ReadToStop(o) PROVE OffInv'
  BY <1>7, OpAssumption, AbsentAssumption
  DEF history, ReadToStop, Exists, Starts, Finish, IsOff, Continue, daemonVars, windowsVars, Switching, InFlight, OffInv, TypeOK, Step, Settings, JobsInv, TurnsInv, NoneLeftInv, Holds, KeptInv, NeverSavesSherd
<1>8. ASSUME NEW o \in Op, Save(o) PROVE OffInv'
  BY <1>8
  DEF history, Save, Exists, Continue, windowsVars, OffInv
<1>9. ASSUME NEW o \in Op, Configure(o) PROVE OffInv'
  BY <1>9, OpAssumption, AbsentAssumption
  DEF history, Configure, Exists, Continue, Finish, daemonVars, OffInv, TypeOK, Step, InFlight, Settings, Starts, JobsInv, TurnsInv, NoneLeftInv, Holds, KeptInv, NeverSavesSherd
<1>10. ASSUME NEW o \in Op, Take(o) PROVE OffInv'
  BY <1>10, OpAssumption, AbsentAssumption
  DEF history, Take, Exists, Finish, Continue, windowsVars, OffInv, TypeOK, Step, InFlight, Settings, Starts, JobsInv, TurnsInv, NoneLeftInv, Holds, KeptInv, NeverSavesSherd
<1>11. ASSUME NEW o \in Op, Restore(o) PROVE OffInv'
  BY <1>11, OpAssumption, AbsentAssumption
  DEF history, Restore, Exists, Finish, OffInv, TypeOK, Step, InFlight, Settings, Starts, JobsInv, TurnsInv, NoneLeftInv, Holds, KeptInv, NeverSavesSherd
<1>12. ASSUME NEW o \in Op, SwitchedOff(o) PROVE OffInv'
  BY <1>12, OpAssumption, AbsentAssumption
  DEF history, SwitchedOff, Continue, Starts, Finish, daemonVars, OffInv, TypeOK, Step, InFlight, Settings, JobsInv, TurnsInv, NoneLeftInv, Holds, KeptInv, NeverSavesSherd
<1>13. ASSUME NEW o \in Op, SwitchedOn(o) PROVE OffInv'
  BY <1>13, OpAssumption, AbsentAssumption
  DEF history, SwitchedOn, Finish, daemonVars, OffInv, TypeOK, Step, InFlight, Settings, Starts, JobsInv, TurnsInv, NoneLeftInv, Holds, KeptInv, NeverSavesSherd
<1>14. CASE BeginShutdown
  BY <1>14
  DEF history, BeginShutdown, Running, windowsVars, OffInv
<1>15. CASE GraceRunsOut
  BY <1>15
  DEF history, GraceRunsOut, Running, Holds, windowsVars, OffInv
<1>16. CASE Refuse
  BY <1>16
  DEF history, Refuse, daemonVars, OffInv
<1>17. CASE Rename
  BY <1>17
  DEF history, Rename, Running, daemonVars, OffInv
<1>18. CASE SwitchOffByHand
  BY <1>18
  DEF history, SwitchOffByHand, Running, IsOn, daemonVars, Switching, InFlight, OffInv
<1>19. CASE Exit
  BY <1>19
  DEF history, Exit, Running, windowsVars, OffInv
<1>20. CASE Kill
  BY <1>20, OpAssumption, AbsentAssumption
  DEF history, Kill, Exists, InFlight, windowsVars, OffInv, TypeOK, Step, Settings, Starts, JobsInv, TurnsInv, NoneLeftInv, Holds, KeptInv, NeverSavesSherd
<1>21. CASE Restart
  BY <1>21, OpAssumption, AbsentAssumption
  DEF history, Restart, Exists, Switching, windowsVars, InFlight, OffInv, TypeOK, Step, Settings, Starts, JobsInv, TurnsInv, NoneLeftInv, Holds, KeptInv, NeverSavesSherd
<1>22. CASE UNCHANGED vars
  BY <1>22
  DEF vars, OffInv
<1> QED
  BY <1>1, <1>2, <1>3, <1>4, <1>5, <1>6, <1>7, <1>8, <1>9, <1>10, <1>11,
     <1>12, <1>13, <1>14, <1>15, <1>16, <1>17, <1>18, <1>19, <1>20, <1>21, <1>22 DEF Next, JobStep

(* The parts hold at the start. *)
LEMMA InitParts ==
  ASSUME Init
  PROVE  /\ TypeOK /\ NeverSavesSherd /\ JobsInv /\ TurnsInv /\ NoneLeftInv
         /\ KeptInv /\ OffInv
<1>1. TypeOK
  BY DEF Init, TypeOK, Step, Settings
<1>2. NeverSavesSherd /\ JobsInv
  BY AbsentAssumption DEF Init, NeverSavesSherd, JobsInv, Settings
<1>3. TurnsInv /\ NoneLeftInv
  BY OpAssumption DEF Init, TurnsInv, NoneLeftInv, Holds
<1>4. KeptInv /\ OffInv
  BY OpAssumption DEF Init, KeptInv, OffInv
<1> QED
  BY <1>1, <1>2, <1>3, <1>4

(* The parts are inductive together. *)
LEMMA KeptAlways ==
  Spec => [](/\ TypeOK /\ NeverSavesSherd /\ JobsInv /\ TurnsInv
             /\ NoneLeftInv /\ KeptInv)
<1> DEFINE IInv == /\ TypeOK /\ NeverSavesSherd /\ JobsInv /\ TurnsInv
                   /\ NoneLeftInv /\ KeptInv
<1>1. Init => IInv
  BY InitParts
<1>2. IInv /\ [Next]_vars => IInv'
  BY TypeStep, NamesStep, JobsStep, TurnsStep, NoneLeftStep, KeptStep
<1> QED
  BY <1>1, <1>2, PTL DEF Spec

(* Every reachable state of the callers, the jobs and Windows is well        *)
(* typed (service.rs hotspot_start, winrt_hotspot.rs start_blocking).      *)
THEOREM TypeCorrect == Spec => []TypeOK
<1>1. Init => TypeOK /\ NeverSavesSherd
  BY InitParts
<1>2. TypeOK /\ NeverSavesSherd /\ [Next]_vars => (TypeOK /\ NeverSavesSherd)'
  BY TypeStep, NamesStep
<1> QED
  BY <1>1, <1>2, PTL DEF Spec

(* What the controller saves and puts back is never Sherd's own name,        *)
(* whatever hangs, is refused, is set by hand or is killed                 *)
(* (winrt_hotspot.rs start_blocking, stop_blocking).                       *)
THEOREM NeverSavesSherdHolds == Spec => []NeverSavesSherd
<1>1. Init => TypeOK /\ NeverSavesSherd
  BY InitParts
<1>2. TypeOK /\ NeverSavesSherd /\ [Next]_vars => (TypeOK /\ NeverSavesSherd)'
  BY TypeStep, NamesStep
<1> QED
  BY <1>1, <1>2, PTL DEF Spec

(* Only what a timer took from its caller overlaps with another operation,   *)
(* whatever hangs, is refused, is set by hand or is killed (service.rs     *)
(* hotspot_op, HOTSPOT_START_TIMEOUT, shutdown).                           *)
THEOREM OnlyAbandonedOverlapHolds == Spec => []OnlyAbandonedOverlap
<1> DEFINE IInv == TypeOK /\ NeverSavesSherd /\ JobsInv /\ TurnsInv
<1>1. Init => IInv
  BY InitParts
<1>2. IInv /\ [Next]_vars => IInv'
  BY TypeStep, NamesStep, JobsStep, TurnsStep
<1>3. IInv => OnlyAbandonedOverlap
  BY OpAssumption DEF TurnsInv, JobsInv, OnlyAbandonedOverlap, Holds, Starts
<1> QED
  BY <1>1, <1>2, <1>3, PTL DEF Spec

(* While Sherd's settings are in Windows, the user's are remembered, until   *)
(* a start has been left to itself (winrt_hotspot.rs "original").          *)
THEOREM UserSettingsKeptHolds == Spec => []UserSettingsKept
<1>1. TypeOK /\ KeptInv => UserSettingsKept
  BY DEF KeptInv, UserSettingsKept
<1> QED
  BY <1>1, KeptAlways, PTL

(* Once shutdown has reported the hotspot off it is off and stays off, if    *)
(* no start was left to itself and Windows did what it was asked           *)
(* (service.rs shutdown).                                                  *)
THEOREM OffWhenStoppedHolds == Spec => []OffWhenStopped
<1>1. Init => OffInv
  BY InitParts
<1>2. /\ TypeOK /\ NeverSavesSherd /\ JobsInv /\ TurnsInv /\ NoneLeftInv /\ KeptInv
      /\ OffInv /\ [Next]_vars
      => OffInv'
  BY OffStep
<1>3. TurnsInv /\ NoneLeftInv /\ OffInv => OffWhenStopped
  BY OpAssumption DEF TurnsInv, NoneLeftInv, OffInv, OffWhenStopped, Holds, Starts
<1> QED
  BY <1>1, <1>2, <1>3, KeptAlways, PTL DEF Spec

================================================================================
