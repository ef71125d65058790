----------------------------- MODULE ChromeLaunch -----------------------------
(***************************************************************************)
(* The managed local Chrome of one browser profile: ensure, stop and       *)
(* reset, called by several clients, over processes that start, hang, die  *)
(* and free the port at their own pace (server-context.availability.ts,    *)
(* server-context.reset.ts, chrome.ts).                                    *)
(*                                                                         *)
(* A probe of the port, a spawn and a kill are steps; every await between  *)
(* two of them is a place where the others move.  stopOpenClawChrome sends *)
(* SIGTERM and, proc.killed being set by that, SIGKILL at once, so that it *)
(* awaits only when the signal finds the process gone.  The bootstrap run  *)
(* of a new profile directory, the files of the profile, attachOnly and    *)
(* remote profiles and the shutdown of the control service are left out.   *)
(***************************************************************************)
EXTENDS Naturals, FiniteSets

CONSTANTS
    LaunchCaller,
    Chrome,           \* Chrome processes, each started once
    NoChrome,
    NoCaller,
    LaunchThreshold,  \* MANAGED_LAUNCH_FAILURE_THRESHOLD
    MaxLaunchFaults,  \* bound on the crashes and hangs of Chrome
    MaxResets,        \* bound on reset-profile
    MaxReloads        \* bound on the edits of the profile's configuration

ASSUME LaunchAssumption ==
    /\ NoChrome \notin Chrome /\ NoCaller \notin LaunchCaller
    /\ LaunchThreshold \in Nat \ {0} /\ IsFiniteSet(Chrome)

VARIABLES
    chrome,     \* how each process is
    running,    \* profileState.running
    ensuring,   \* profileState.ensureBrowserAvailable: who runs the ensure
    reconcile,  \* profileState.reconcile: the configuration was edited
    failures,   \* managedLaunchFailure.consecutiveFailures, up to the threshold
    cooling,    \* managedLaunchFailure.cooldownUntil is ahead
    op,         \* where each caller is
    excused,    \* ghost: the processes whose loss is explained
    faults, resets, reloads

failureVars == <<failures, cooling>>
launchVars == <<chrome, running, ensuring, reconcile, failures, cooling, op, excused,
                faults, resets, reloads>>

\* "up" and "hung" answer HTTP on the port, only "up" completes the websocket handshake,
\* "mute" holds the port and answers nothing, "dying" was killed and has not gone yet,
\* "dead" is gone and its exit event is due, "reaped" has had it.
Life == {"none", "starting", "up", "hung", "mute", "dying", "dead", "reaped"}
InPort(p) == chrome[p] \in {"up", "hung", "mute", "dying"}
Alive(p) == chrome[p] \in {"starting", "up", "hung", "mute"}
PortFree == \A p \in Chrome : ~InPort(p)
HttpOK == \E p \in Chrome : chrome[p] \in {"up", "hung"}
WsOK == \E p \in Chrome : chrome[p] = "up"

\* relaunch: within the restart of a hung Chrome; retried: Singleton* locks were cleared.
NoOp == [pc |-> "idle", chrome |-> NoChrome, relaunch |-> FALSE, retried |-> FALSE]
OpAt(c, pc) == op[c].pc = pc
OpGoes(c, pc) == op' = [op EXCEPT ![c].pc = pc]
\* The caller waits for what becomes of a process, to attach it or to kill it.
Holds(c, p) == op[c].chrome = p /\ op[c].pc \in {"wait", "ready", "check"}

LaunchTypeOK ==
    /\ chrome \in [Chrome -> Life]
    /\ running \in Chrome \cup {NoChrome}
    /\ ensuring \in LaunchCaller \cup {NoCaller}
    /\ reconcile \in BOOLEAN /\ cooling \in BOOLEAN
    /\ failures \in 0..LaunchThreshold /\ (cooling => failures = LaunchThreshold)
    /\ op \in [LaunchCaller ->
                 [pc : {"idle", "reconcile", "probe", "probeWs", "probeAgain", "restart", "launch",
                        "spawn", "wait", "ready", "check", "reset", "stop"},
                  chrome : Chrome \cup {NoChrome}, relaunch : BOOLEAN, retried : BOOLEAN]]
    /\ excused \subseteq Chrome
    /\ Cardinality({p \in Chrome : InPort(p)}) <= 1

\* The control service may start beside a Chrome that an earlier one has launched.
LaunchInit ==
    /\ \E inherited \in SUBSET Chrome :
         /\ Cardinality(inherited) <= 1
         /\ chrome = [p \in Chrome |-> IF p \in inherited THEN "up" ELSE "none"]
         /\ excused = inherited
    /\ running = NoChrome /\ ensuring = NoCaller
    /\ reconcile = FALSE /\ failures = 0 /\ cooling = FALSE
    /\ op = [c \in LaunchCaller |-> NoOp]
    /\ faults = 0 /\ resets = 0 /\ reloads = 0

---------------------------------------------------------------------------
(* The processes. *)

Turns(p, life) == chrome' = [chrome EXCEPT ![p] = life]
CalmOps == UNCHANGED <<ensuring, reconcile, failureVars, op, excused, resets, reloads>>

\* A process that finds the port taken stays without a port.
ComesUp(p) ==
    /\ chrome[p] = "starting" /\ PortFree /\ Turns(p, "up")
    /\ UNCHANGED <<running, faults>> /\ CalmOps

Dies(p) ==
    /\ chrome[p] = "dying" /\ Turns(p, "dead")
    /\ UNCHANGED <<running, faults>> /\ CalmOps

Falters(p) ==
    /\ faults < MaxLaunchFaults /\ Alive(p)
    /\ \/ Turns(p, "dead")
       \/ chrome[p] = "up" /\ \E life \in {"hung", "mute"} : Turns(p, life)
    /\ faults' = faults + 1
    /\ UNCHANGED running /\ CalmOps

\* Faulty variant: the exit of any Chrome empties the profile.
ReapAny(p) ==
    /\ chrome[p] = "dead" /\ Turns(p, "reaped")
    /\ running' = NoChrome
    /\ UNCHANGED faults /\ CalmOps

\* The exit handler of attachRunning.  An exit reported before the handler is there is
\* never seen.
Reap(p) ==
    /\ chrome[p] = "dead" /\ Turns(p, "reaped")
    /\ running' = IF running = p THEN NoChrome ELSE running
    /\ UNCHANGED faults /\ CalmOps

CoolsDown ==
    /\ cooling /\ cooling' = FALSE
    /\ UNCHANGED <<chrome, running, ensuring, reconcile, failures, op, excused,
                   faults, resets, reloads>>

\* A hot reload of the configuration that changes the profile.
Reload ==
    /\ reloads < MaxReloads /\ reloads' = reloads + 1 /\ reconcile' = TRUE
    /\ UNCHANGED <<chrome, running, ensuring, failureVars, op, excused, faults, resets>>

---------------------------------------------------------------------------
(* Stop and reset. *)

Gone(p) == chrome[p] \in {"dead", "reaped"}  \* the signal fails, the port is probed
Kill(p) ==
    chrome' = [chrome EXCEPT ![p] = CASE @ = "starting" -> "dead"
                                      [] @ \in {"up", "hung", "mute"} -> "dying"
                                      [] OTHER -> @]

\* Faulty variant: the count is reset, the cooldown stays.
CountReset == failures' = 0 /\ UNCHANGED cooling

\* resetManagedLaunchFailure
NoFailures == failures' = 0 /\ cooling' = FALSE
Still == UNCHANGED <<faults, resets, reloads>>

\* stopOpenClawChrome(running), then setProfileRunning(null): the caller waits at "pc"
\* for a process that is gone, and is at "next" when the field is empty.
StopRunning(c, pc, next) ==
    IF running = NoChrome THEN op' = next /\ UNCHANGED <<chrome, running>>
    ELSE IF Gone(running) THEN /\ op' = [op EXCEPT ![c].pc = pc, ![c].chrome = running]
                               /\ UNCHANGED <<chrome, running>>
    ELSE Kill(running) /\ running' = NoChrome /\ op' = next

\* The field is emptied of whatever came into it during the wait.
Emptied(c) ==
    /\ running' = NoChrome
    /\ excused' = excused \cup ({running} \ {NoChrome, op[c].chrome})
    /\ UNCHANGED chrome

AtRest(c) == [op EXCEPT ![c] = NoOp]

\* stopRunningBrowser; its reconcile, when one is due, stops the same process.
StopBrowser(c) ==
    /\ OpAt(c, "idle") /\ NoFailures /\ reconcile' = FALSE
    /\ StopRunning(c, "stop", AtRest(c))
    /\ UNCHANGED <<ensuring, excused>> /\ Still

StopEnds(c) ==
    /\ OpAt(c, "stop") /\ Emptied(c) /\ op' = AtRest(c)
    /\ UNCHANGED <<ensuring, reconcile, failureVars>> /\ Still

\* resetProfile forgets the ensure in flight, so that the next one runs beside it.
Reset(c) ==
    /\ OpAt(c, "idle") /\ resets < MaxResets /\ resets' = resets + 1
    /\ NoFailures /\ ensuring' = NoCaller
    /\ excused' = IF ensuring = NoCaller THEN excused ELSE Chrome
    /\ OpGoes(c, "reset")
    /\ UNCHANGED <<chrome, running, reconcile, faults, reloads>>

\* Without a Chrome of ours there is nothing to stop, and what holds the port stays.
ResetStops(c) ==
    /\ OpAt(c, "reset")
    /\ StopRunning(c, "stop", AtRest(c))
    /\ IF running = NoChrome THEN UNCHANGED <<reconcile, failureVars>>
                             ELSE NoFailures /\ reconcile' = FALSE
    /\ UNCHANGED <<ensuring, excused>> /\ Still

---------------------------------------------------------------------------
(* ensureBrowserAvailable.  A call with the options of the one in flight takes its     *)
(* outcome, a call with others waits for it: neither is a step.                        *)

Done(c) ==
    /\ op' = AtRest(c)
    /\ ensuring' = IF ensuring = c THEN NoCaller ELSE ensuring
Failed ==
    /\ failures' = IF failures < LaunchThreshold THEN failures + 1 ELSE failures
    /\ cooling' = (failures + 1 >= LaunchThreshold)

Ensure(c) ==
    /\ OpAt(c, "idle") /\ ensuring = NoCaller /\ ensuring' = c
    /\ IF reconcile
         THEN /\ NoFailures /\ reconcile' = FALSE
              /\ StopRunning(c, "reconcile", [op EXCEPT ![c].pc = "probe"])
         ELSE OpGoes(c, "probe") /\ UNCHANGED <<chrome, running, reconcile, failureVars>>
    /\ UNCHANGED excused /\ Still

\* The wait for a process that is gone, in the reconcile and in the restart.
Stopped(c) ==
    /\ Emptied(c)
    /\ \/ OpAt(c, "reconcile") /\ op' = [op EXCEPT ![c] = [NoOp EXCEPT !.pc = "probe"]]
       \/ OpAt(c, "restart")
          /\ op' = [op EXCEPT ![c] = [NoOp EXCEPT !.pc = "launch", !.relaunch = TRUE]]
    /\ UNCHANGED <<ensuring, reconcile, failureVars>> /\ Still

Probe(c) ==
    /\ OpAt(c, "probe")
    /\ OpGoes(c, IF HttpOK THEN "probeWs" ELSE IF running = NoChrome THEN "probeAgain" ELSE "launch")
    /\ UNCHANGED <<chrome, running, ensuring, reconcile, failureVars, excused>> /\ Still

\* No Chrome of ours: that of an earlier control service may answer a longer probe.
ProbeAgain(c) ==
    /\ OpAt(c, "probeAgain")
    /\ IF WsOK THEN NoFailures /\ Done(c)
               ELSE OpGoes(c, "launch") /\ UNCHANGED <<ensuring, failureVars>>
    /\ UNCHANGED <<chrome, running, reconcile, excused>> /\ Still

\* HTTP answered.  Without the websocket, a Chrome that is ours is killed and launched
\* again, any other is an error.
ProbeWs(c) ==
    /\ OpAt(c, "probeWs")
    /\ \/ /\ WsOK \/ running = NoChrome
          /\ IF WsOK THEN NoFailures ELSE UNCHANGED failureVars
          /\ Done(c) /\ UNCHANGED <<chrome, running>>
       \/ /\ ~WsOK /\ running # NoChrome
          /\ StopRunning(c, "restart", [op EXCEPT ![c].pc = "launch", ![c].relaunch = TRUE])
          /\ UNCHANGED <<ensuring, failureVars>>
    /\ UNCHANGED <<reconcile, excused>> /\ Still

\* launchManagedChrome up to ensurePortAvailable.
Launch(c) ==
    /\ OpAt(c, "launch")
    /\ \/ cooling /\ Done(c) /\ UNCHANGED failureVars
       \/ ~cooling /\ ~PortFree /\ Failed /\ Done(c)
       \/ ~cooling /\ PortFree /\ OpGoes(c, "spawn") /\ UNCHANGED <<ensuring, failureVars>>
    /\ UNCHANGED <<chrome, running, reconcile, excused>> /\ Still

Spawn(c, p) ==
    /\ OpAt(c, "spawn") /\ chrome[p] = "none" /\ Turns(p, "starting")
    /\ op' = [op EXCEPT ![c].pc = "wait", ![c].chrome = p]
    /\ UNCHANGED <<running, ensuring, reconcile, failureVars, excused>> /\ Still

\* HTTP answers: attachRunning, whichever process it is that answers.
Attach(c) ==
    /\ OpAt(c, "wait") /\ HttpOK
    /\ running' = op[c].chrome
    /\ OpGoes(c, IF op[c].relaunch THEN "check" ELSE "ready")
    /\ UNCHANGED <<chrome, ensuring, reconcile, failureVars, excused>> /\ Still

\* The launch window is over: the process is killed, and tried once more when stale
\* Singleton* locks kept it from starting.
LaunchTimesOut(c) ==
    /\ OpAt(c, "wait") /\ ~HttpOK /\ Kill(op[c].chrome)
    /\ \/ /\ ~op[c].retried
          /\ op' = [op EXCEPT ![c].pc = "spawn", ![c].chrome = NoChrome, ![c].retried = TRUE]
          /\ UNCHANGED <<ensuring, failureVars>>
       \/ Failed /\ Done(c)
    /\ UNCHANGED <<running, reconcile, excused>> /\ Still

Ready(c) ==
    /\ OpAt(c, "ready") \/ OpAt(c, "check")
    /\ WsOK /\ NoFailures /\ Done(c)
    /\ UNCHANGED <<chrome, running, reconcile, excused>> /\ Still

\* waitForCdpReadyAfterLaunch gives up: the process is killed and the field emptied.
NotReady(c) ==
    /\ OpAt(c, "ready") /\ ~WsOK
    /\ Kill(op[c].chrome) /\ running' = NoChrome
    /\ Failed /\ Done(c)
    /\ UNCHANGED <<reconcile, excused>> /\ Still

\* After a restart the process is kept, though it does not answer.
NotReachable(c) ==
    /\ OpAt(c, "check") /\ ~WsOK /\ Failed /\ Done(c)
    /\ UNCHANGED <<chrome, running, reconcile, excused>> /\ Still

LaunchNext ==
    \/ \E p \in Chrome : ComesUp(p) \/ Dies(p) \/ Falters(p) \/ Reap(p)
    \/ CoolsDown \/ Reload
    \/ \E c \in LaunchCaller :
         \/ StopBrowser(c) \/ StopEnds(c) \/ Reset(c) \/ ResetStops(c)
         \/ Ensure(c) \/ Stopped(c) \/ Probe(c) \/ ProbeAgain(c) \/ ProbeWs(c) \/ Launch(c)
         \/ \E p \in Chrome : Spawn(c, p)
         \/ Attach(c) \/ LaunchTimesOut(c) \/ Ready(c) \/ NotReady(c) \/ NotReachable(c)

LaunchSpec == LaunchInit /\ [][LaunchNext]_launchVars

---------------------------------------------------------------------------
\* A Chrome that the service has started and that lives is the one the profile records,
\* so that stop and reset can reach it, or one whose launch is still being judged.
\* Every exit that is reported late, every launch that fails and every stop in the middle
\* of one must keep to this.  Two losses are excused: a reset forgot an ensure in flight,
\* so that two of them launch and attach over one another, and a stop that waited on a
\* process already gone emptied the field of a later one.
NoChromeOrphaned ==
    \A p \in Chrome :
        Alive(p) => \/ running = p \/ p \in excused
                    \/ \E c \in LaunchCaller : Holds(c, p)
=============================================================================
