---------------------------- MODULE HotspotControl ----------------------------
(***************************************************************************)
(* Switching the hotspot of a device on and off.  The service              *)
(* (network/crates/engine/src/service.rs) makes its callers take turns     *)
(* with hotspot_op: the watchdog and "sherd auto" (auto_connect, which     *)
(* bounds hotspot_start with a timer), clients that ask for a start or a   *)
(* stop, and shutdown, which has a grace period.  The turn is a call of    *)
(* the composite controller: a blocking job in the WinRT API, then netsh   *)
(* if WinRT does not support the operation.  A caller that gives up drops  *)
(* its turn; its job runs on.                                              *)
(*                                                                         *)
(* Windows is external.  A request to switch Mobile Hotspot is in flight   *)
(* from the job's call until Windows answers, requests in flight together  *)
(* are answered in any order, and Windows answers them even if the process *)
(* is gone.                                                                *)
(***************************************************************************)
CONSTANTS
  Op,         \* the calls: one caller and its blocking job each, used again
  Kind,       \*   when both have ended
  Shutdown,   \* the call made by shutdown
  Absent,     \* no settings saved
  MayHang,    \* whether Windows may take longer than HOTSPOT_START_TIMEOUT
  MayRefuse,  \* whether Windows may refuse Mobile Hotspot: it has no connection
              \*   to share, does not show the settings, or its device is off
  MayMeddle,  \* whether the user may rename the hotspot or switch it off
  MayKill     \* whether the process may be killed and started again

ASSUME OpAssumption ==
  /\ Kind \in [Op -> {"auto", "start", "stop"}]
  /\ Shutdown \in Op
  /\ Kind[Shutdown] = "stop"

(* The user's own hotspot name and password, the ones of Sherd, and what    *)
(* somebody may set by hand meanwhile.                                     *)
Settings == {"user", "sherd", "renamed"}

ASSUME AbsentAssumption == Absent \notin Settings

ASSUME SwitchAssumption ==
  {MayHang, MayRefuse, MayMeddle, MayKill} \subseteq BOOLEAN

VARIABLES
  caller,    \* caller[o]: "idle", waiting for hotspot_op, holding it while the
             \*   job runs or while netsh runs
  job,       \* job[o]: the next step of the blocking job, or "none"
  result,    \* result[o]: what the job returned
  local,     \* local[o]: settings the job has read or taken
  saved,     \* the controller's "original"
  flag,      \* shutting_down
  outcome,   \* how shutdown ended
  process,   \* "running", "exiting": only jobs still run, or "dead"
  tethering, \* whether Mobile Hotspot is on
  settings,  \* its name and password
  usable,    \* whether there is a connection to share (current_manager)
  legacy,    \* whether netsh's hosted network is on
  lost,      \* the user's settings were lost for good (history)
  abandoned  \* a start that was at work was left to itself (history)

vars == <<caller, job, result, local, saved, flag, outcome, process,
          tethering, settings, usable, legacy, lost, abandoned>>

history     == <<lost, abandoned>>
daemonVars  == <<saved, flag, outcome, process, history>>
windowsVars == <<tethering, settings, usable, legacy>>

InFlight == {"switchingOn", "switchingOff"}
Step     == InFlight \cup {"read", "save", "configure", "take", "restore"}

TypeOK ==
  /\ caller \in [Op -> {"idle", "queued", "winrt", "netsh"}]
  /\ job \in [Op -> Step \cup {"none"}]
  /\ result \in [Op -> {"none", "ok", "failed", "unsupported"}]
  /\ local \in [Op -> Settings \cup {Absent}]
  /\ saved \in Settings \cup {Absent}
  /\ flag \in BOOLEAN
  /\ outcome \in {"none", "stopped", "failed", "graceOver"}
  /\ process \in {"running", "exiting", "dead"}
  /\ tethering \in BOOLEAN
  /\ settings \in Settings
  /\ usable \in BOOLEAN
  /\ legacy \in BOOLEAN
  /\ lost \in BOOLEAN
  /\ abandoned \in BOOLEAN

Init ==
  /\ caller = [o \in Op |-> "idle"]
  /\ job = [o \in Op |-> "none"]
  /\ result = [o \in Op |-> "none"]
  /\ local = [o \in Op |-> Absent]
  /\ saved = Absent
  /\ flag = FALSE
  /\ outcome = "none"
  /\ process = "running"
  /\ tethering = FALSE
  /\ settings = "user"
  /\ usable = TRUE
  /\ legacy = FALSE
  /\ lost = FALSE
  /\ abandoned = FALSE

Starts(o)  == Kind[o] # "stop"
Holds(o)   == caller[o] \in {"winrt", "netsh"}
Running    == process = "running"
Exists     == process # "dead"
Switching  == \E o \in Op : job[o] \in InFlight
IsOn       == tethering /\ ~Switching   \* TetheringOperationalState, which is
IsOff      == ~tethering /\ ~Switching  \*   InTransition otherwise

-----------------------------------------------------------------------------
(* Callers *)

(* hotspot_start, hotspot_stop; auto_connect first looks at the flag. *)
Call(o) ==
  /\ Running
  /\ o # Shutdown
  /\ caller[o] = "idle" /\ job[o] = "none"
  /\ Kind[o] = "auto" => ~flag
  /\ caller' = [caller EXCEPT ![o] = "queued"]
  /\ UNCHANGED <<job, result, local, daemonVars, windowsVars>>

(* shutdown raises the flag, then queues like everybody else. *)
BeginShutdown ==
  /\ Running
  /\ ~flag
  /\ flag' = TRUE
  /\ caller' = [caller EXCEPT ![Shutdown] = "queued"]
  /\ UNCHANGED <<job, result, local, saved, outcome, process, history, windowsVars>>

(* Wrong variant: the flag is not looked at once more under the lock. *)
TakeTurnBlindly(o) ==
  /\ Running
  /\ caller[o] = "queued"
  /\ \A p \in Op : ~Holds(p)
  /\ caller' = [caller EXCEPT ![o] = "winrt"]
  /\ job' = [job EXCEPT ![o] = "read"]
  /\ result' = [result EXCEPT ![o] = "none"]
  /\ UNCHANGED <<local, daemonVars, windowsVars>>

(* Wrong variant: the calls do not take turns. *)
TakeTurnFreely(o) ==
  /\ Running
  /\ caller[o] = "queued"
  /\ IF Starts(o) /\ flag
       THEN /\ caller' = [caller EXCEPT ![o] = "idle"]
            /\ UNCHANGED <<job, result>>
       ELSE /\ caller' = [caller EXCEPT ![o] = "winrt"]
            /\ job' = [job EXCEPT ![o] = "read"]
            /\ result' = [result EXCEPT ![o] = "none"]
  /\ UNCHANGED <<local, daemonVars, windowsVars>>

(* The caller gets hotspot_op.  A start is refused once the flag is up. *)
TakeTurn(o) ==
  /\ Running
  /\ caller[o] = "queued"
  /\ \A p \in Op : ~Holds(p)
  /\ IF Starts(o) /\ flag
       THEN /\ caller' = [caller EXCEPT ![o] = "idle"]
            /\ UNCHANGED <<job, result>>
       ELSE /\ caller' = [caller EXCEPT ![o] = "winrt"]
            /\ job' = [job EXCEPT ![o] = "read"]
            /\ result' = [result EXCEPT ![o] = "none"]
  /\ UNCHANGED <<local, daemonVars, windowsVars>>

(* A call ends and gives its turn back; shutdown reports how it went. *)
EndTurn(o, ok) ==
  /\ caller' = [caller EXCEPT ![o] = "idle"]
  /\ outcome' = IF o # Shutdown THEN outcome ELSE IF ok THEN "stopped" ELSE "failed"

(* The job has returned: "unsupported" means trying netsh. *)
JobReturns(o) ==
  /\ Running
  /\ caller[o] = "winrt" /\ job[o] = "none"
  /\ IF result[o] = "unsupported"
       THEN /\ caller' = [caller EXCEPT ![o] = "netsh"]
            /\ UNCHANGED outcome
       ELSE EndTurn(o, result[o] = "ok")
  /\ UNCHANGED <<job, result, local, saved, flag, process, history, windowsVars>>

(* netsh switches the hosted network, or cannot. *)
NetshReturns(o) ==
  /\ Running
  /\ caller[o] = "netsh"
  /\ \E ok \in BOOLEAN :
        /\ EndTurn(o, ok)
        /\ legacy' = IF ok THEN Starts(o) ELSE legacy
  /\ UNCHANGED <<job, result, local, saved, flag, process, history,
                 tethering, settings, usable>>

(* HOTSPOT_START_TIMEOUT: auto_connect drops hotspot_start.  In the queue    *)
(* nothing else happens; with the turn, the turn ends and the job or the   *)
(* netsh command goes on.                                                  *)
StartTimesOut(o) ==
  /\ Running
  /\ Kind[o] = "auto"
  /\ \/ caller[o] = "queued" /\ UNCHANGED legacy
     \/ MayHang /\ caller[o] = "winrt" /\ UNCHANGED legacy
     \/ MayHang /\ caller[o] = "netsh" /\ legacy' \in {legacy, TRUE}
  /\ caller' = [caller EXCEPT ![o] = "idle"]
  /\ abandoned' = (abandoned \/ job[o] # "none")
  /\ UNCHANGED <<job, result, local, saved, flag, outcome, process, lost,
                 tethering, settings, usable>>

(* Wrong variant: the grace covers the stop, not the wait for the turn. *)
GraceStartsLate ==
  /\ Running
  /\ Holds(Shutdown)
  /\ caller' = [caller EXCEPT ![Shutdown] = "idle"]
  /\ outcome' = "graceOver"
  /\ UNCHANGED <<job, result, local, saved, flag, process, history, windowsVars>>

(* SHUTDOWN_GRACE is over while shutdown waits for its turn or has it.  What *)
(* is not held up by anything does not take that long.                     *)
GraceRunsOut ==
  /\ Running
  /\ \/ Holds(Shutdown)
     \/ caller[Shutdown] = "queued" /\ \E o \in Op : Holds(o)
  /\ caller' = [caller EXCEPT ![Shutdown] = "idle"]
  /\ outcome' = "graceOver"
  /\ UNCHANGED <<job, result, local, saved, flag, process, history, windowsVars>>

-----------------------------------------------------------------------------
(* The blocking jobs: start_blocking and stop_blocking *)

Continue(o, step) ==
  /\ job' = [job EXCEPT ![o] = step]
  /\ UNCHANGED result

Finish(o, r) ==
  /\ job' = [job EXCEPT ![o] = "none"]
  /\ result' = [result EXCEPT ![o] = r]

(* start_blocking enters the WinRT apartment, or cannot; it reads state and *)
(* settings, if Windows shows them; a hotspot that is on as wanted is left *)
(* alone, one that is on with other settings is switched off first.        *)
ReadToStart(o) ==
  /\ Exists
  /\ job[o] = "read" /\ Starts(o)
  /\ local' = [local EXCEPT ![o] = settings]
  /\ \/ Finish(o, "failed")
     \/ (~usable \/ MayRefuse) /\ Finish(o, "unsupported")
     \/ usable /\ IsOn /\ settings = "sherd" /\ Finish(o, "ok")
     \/ usable /\ IsOn /\ settings # "sherd" /\ Continue(o, "switchingOff")
     \/ usable /\ ~IsOn /\ Continue(o, "save")
  /\ UNCHANGED <<caller, daemonVars, windowsVars>>

(* stop_blocking switches off whatever is not off. *)
ReadToStop(o) ==
  /\ Exists
  /\ job[o] = "read" /\ ~Starts(o)
  /\ \/ Finish(o, "failed")
     \/ ~usable /\ Finish(o, "unsupported")
     \/ usable /\ IsOff /\ Continue(o, "take")
     \/ usable /\ ~IsOff /\ Continue(o, "switchingOff")
  /\ UNCHANGED <<caller, local, daemonVars, windowsVars>>

(* Wrong variant: the save is made over an earlier one. *)
SaveAgain(o) ==
  /\ Exists
  /\ job[o] = "save"
  /\ saved' = local[o]
  /\ Continue(o, "configure")
  /\ UNCHANGED <<caller, local, flag, outcome, process, history, windowsVars>>

(* The user's settings are saved once, and Sherd's never taken for them. *)
Save(o) ==
  /\ Exists
  /\ job[o] = "save"
  /\ saved' = IF saved = Absent /\ local[o] # "sherd" THEN local[o] ELSE saved
  /\ Continue(o, "configure")
  /\ UNCHANGED <<caller, local, flag, outcome, process, history, windowsVars>>

(* Wrong variant: a start that fails forgets what it saved. *)
ConfigureForgets(o) ==
  /\ Exists
  /\ job[o] = "configure"
  /\ \/ settings' = "sherd" /\ Continue(o, "switchingOn") /\ UNCHANGED saved
     \/ Finish(o, "failed") /\ saved' = Absent /\ UNCHANGED settings
  /\ UNCHANGED <<caller, local, flag, outcome, process, history, tethering, usable, legacy>>

(* Sherd's settings go in, then the hotspot is asked on. *)
Configure(o) ==
  /\ Exists
  /\ job[o] = "configure"
  /\ \/ settings' = "sherd" /\ Continue(o, "switchingOn")
     \/ Finish(o, "failed") /\ UNCHANGED settings
  /\ UNCHANGED <<caller, local, daemonVars, tethering, usable, legacy>>

(* stop_blocking takes what was saved ... *)
Take(o) ==
  /\ Exists
  /\ job[o] = "take"
  /\ local' = [local EXCEPT ![o] = saved]
  /\ saved' = Absent
  /\ IF saved = Absent THEN Finish(o, "ok") ELSE Continue(o, "restore")
  /\ UNCHANGED <<caller, flag, outcome, process, history, windowsVars>>

(* ... and puts it back; if Windows does not let it, the stop is a success  *)
(* all the same, and the settings are gone.                                *)
Restore(o) ==
  /\ Exists
  /\ job[o] = "restore"
  /\ \/ settings' = local[o] /\ UNCHANGED lost
     \/ lost' = TRUE /\ UNCHANGED settings
  /\ Finish(o, "ok")
  /\ UNCHANGED <<caller, local, saved, flag, outcome, process, abandoned,
                 tethering, usable, legacy>>

-----------------------------------------------------------------------------
(* Windows, its user, and the life of the process *)

(* Windows answers a request, whether or not the process still waits.  That *)
(* the device is off is "unsupported", and then no hotspot is on.          *)
SwitchedOff(o) ==
  /\ job[o] = "switchingOff"
  /\ \/ /\ tethering' = FALSE
        /\ Continue(o, IF Starts(o) THEN "save" ELSE "take")
     \/ Finish(o, "failed") /\ UNCHANGED tethering
     \/ MayRefuse /\ Finish(o, "unsupported") /\ tethering' = FALSE
  /\ UNCHANGED <<caller, local, daemonVars, settings, usable, legacy>>

SwitchedOn(o) ==
  /\ job[o] = "switchingOn"
  /\ \/ tethering' = TRUE /\ Finish(o, "ok")
     \/ Finish(o, "failed") /\ UNCHANGED tethering
     \/ MayRefuse /\ Finish(o, "unsupported") /\ tethering' = FALSE
  /\ UNCHANGED <<caller, local, daemonVars, settings, usable, legacy>>

Refuse ==
  /\ MayRefuse
  /\ usable' = ~usable
  /\ UNCHANGED <<caller, job, result, local, daemonVars, tethering, settings, legacy>>

Rename ==
  /\ MayMeddle
  /\ Running
  /\ settings = "sherd"
  /\ settings' = "renamed"
  /\ UNCHANGED <<caller, job, result, local, daemonVars, tethering, usable, legacy>>

SwitchOffByHand ==
  /\ MayMeddle
  /\ Running
  /\ IsOn
  /\ tethering' = FALSE
  /\ UNCHANGED <<caller, job, result, local, daemonVars, settings, usable, legacy>>

(* shutdown has returned: run() ends, the runtime drops every task at its   *)
(* next await, and waits for the blocking jobs.                            *)
Exit ==
  /\ Running
  /\ outcome # "none"
  /\ process' = "exiting"
  /\ UNCHANGED <<caller, job, result, local, saved, flag, outcome, history, windowsVars>>

(* The process is killed: jobs stop where they are, requests in flight do   *)
(* not.                                                                    *)
Kill ==
  /\ MayKill
  /\ Exists
  /\ process' = "dead"
  /\ job' = [o \in Op |-> IF job[o] \in InFlight THEN job[o] ELSE "none"]
  /\ lost' = (lost \/ saved # Absent \/ \E o \in Op : job[o] = "restore")
  /\ UNCHANGED <<caller, result, local, saved, flag, outcome, abandoned, windowsVars>>

(* A new daemon starts with an empty memory. *)
Restart ==
  /\ ~Exists
  /\ ~Switching
  /\ process' = "running"
  /\ caller' = [o \in Op |-> "idle"]
  /\ job' = [o \in Op |-> "none"]
  /\ result' = [o \in Op |-> "none"]
  /\ local' = [o \in Op |-> Absent]
  /\ saved' = Absent
  /\ flag' = FALSE
  /\ outcome' = "none"
  /\ UNCHANGED <<windowsVars, history>>

JobStep(o) ==
  \/ ReadToStart(o) \/ ReadToStop(o)
  \/ Save(o) \/ Configure(o)
  \/ Take(o) \/ Restore(o)
  \/ SwitchedOff(o) \/ SwitchedOn(o)

Next ==
  \/ \E o \in Op : \/ Call(o)
                   \/ TakeTurn(o)
                   \/ JobReturns(o)
                   \/ NetshReturns(o)
                   \/ StartTimesOut(o)
                   \/ JobStep(o)
  \/ BeginShutdown \/ GraceRunsOut
  \/ Refuse \/ Rename \/ SwitchOffByHand
  \/ Exit \/ Kill \/ Restart

Spec == Init /\ [][Next]_vars

(* The timer of shutdown fires, whatever Windows does or does not answer,   *)
(* and tokio's mutex is first come, first served.                          *)
GraceSpec ==
  Spec /\ WF_vars(GraceRunsOut) /\ SF_vars(TakeTurn(Shutdown))

-----------------------------------------------------------------------------
(* Properties *)

(* "Held for the whole of every hotspot on/off operation, so they take      *)
(* turns" (service.rs:133): no two jobs work on the hotspot at a time.     *)
TakeTurns ==
  \A o, p \in Op : o # p => job[o] = "none" \/ job[p] = "none"

(* What is left of that when operations may outlive the timers of their     *)
(* callers (service.rs:473, 604): of two jobs at work at a time, one is a   *)
(* start that HOTSPOT_START_TIMEOUT took from its caller, or one is the     *)
(* stop that shutdown gave up and then neither is a start.  The operations *)
(* of clients, and whatever its caller still waits for, do take turns.     *)
OnlyAbandonedOverlap ==
  \A o, p \in Op :
    o # p /\ job[o] # "none" /\ job[p] # "none" =>
      \/ \E x \in {o, p} : Kind[x] = "auto" /\ caller[x] = "idle"
      \/ outcome = "graceOver" /\ ~Starts(o) /\ ~Starts(p)

(* Once shutdown has reported the hotspot off, Mobile Hotspot is off and no *)
(* start is under way that could turn it on again, in whatever phase of a  *)
(* restart the watchdog was (service.rs hotspot_start, shutdown).  Not     *)
(* meant are a start that was left to itself, and a stop that Windows      *)
(* refused and netsh reported done (composite.rs:80).                      *)
OffWhenStopped ==
  outcome = "stopped" /\ result[Shutdown] = "ok" /\ ~abandoned =>
    /\ ~tethering
    /\ ~lost => settings # "sherd"
    /\ \A o \in Op : Starts(o) => job[o] = "none"

(* While Sherd's settings are in Windows, somebody remembers the user's:    *)
(* the controller, or the job that is putting them back (winrt_hotspot.rs  *)
(* "original").  A start that is left to itself may put Sherd's in after a  *)
(* stop has put the user's back.  The state is well typed.                 *)
UserSettingsKept ==
  /\ TypeOK
  /\ settings = "sherd" /\ ~lost /\ ~abandoned /\ Exists =>
       saved # Absent \/ \E o \in Op : job[o] = "restore"

(* What is saved and put back is never Sherd's own name, not even after a   *)
(* daemon that was killed left it behind (winrt_hotspot.rs:194).           *)
NeverSavesSherd ==
  /\ saved # "sherd"
  /\ \A o \in Op : job[o] = "restore" => local[o] \notin {"sherd", Absent}

(* shutdown returns within its grace even if a job never does. *)
ShutdownReturns == flag ~> (outcome # "none" \/ ~Exists)
=============================================================================
