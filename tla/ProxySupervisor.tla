---------------------------- MODULE ProxySupervisor ----------------------------
(***************************************************************************)
(* The macOS daemon that keeps the filtering proxy running and the         *)
(* machine's network settings pointed at it: ProxySupervisorMachine (the   *)
(* ordering rules), ProxySupervisor (the executor), ProxyConfiguration     *)
(* (snapshot, apply, restore), MitmProxyProcess (the child) and the `run`  *)
(* and `proxy-restore` verbs of holy-blocker-macd.                         *)
(*                                                                         *)
(* A step is one action of the machine as the executor runs it, or one     *)
(* networksetup call inside apply and restore, so that the daemon can die  *)
(* between any two calls.                                                  *)
(***************************************************************************)
EXTENDS ProxyCustody, Sequences

CONSTANTS
  MaxAttempts,    (* RestartBackoff.maxAttempts. *)
  CrashRelaunch   (* launchd may relaunch the daemon before anyone has put the
                     settings of a run that died back. *)

ASSUME MaxAttemptsAssumption == MaxAttempts \in Nat
ASSUME CrashRelaunchAssumption == CrashRelaunch \in BOOLEAN

VARIABLES
  phase,          (* Where the process is: not running, inside start(), at the
                     top of the watch loop, inside checkLiveness() or stop(),
                     or running the proxy-restore verb. *)
  state,          (* ProxySupervisorMachine.state *)
  hasConfigured,  (* ProxySupervisorMachine.hasConfiguredSettings *)
  attempts,       (* ProxySupervisorMachine.restartAttempts *)
  gaveUp,         (* ProxySupervisor.lastFailure is set *)
  event,          (* the event dispatch() will hand to the machine *)
  todo,           (* actions the machine returned, not yet executed *)
  op,             (* the ProxyConfiguration call in progress *)
  next,           (* the field it writes next *)
  child,          (* the proxy process this daemon launched *)
  orphan,         (* a proxy of a daemon that died still holds the port *)
  stopRequested,  (* SIGINT or SIGTERM arrived *)
  exit            (* how the last run ended *)

machineVars == <<state, hasConfigured, attempts>>
procVars == <<child, orphan>>
vars == <<phase, machineVars, gaveUp, event, todo, op, next, procVars,
          stopRequested, exit, custodyVars>>

Phases == {"down", "start", "watch", "check", "stop", "verb"}
States == {"stopped", "starting", "healthy", "configured", "restoring"}
Events == {"start", "healthy", "healthCheckFailed", "settingsApplied",
           "proxyExited", "stop", "restoreCompleted"}

\* The action lists ProxySupervisorMachine.handle returns, and what is left of
\* them while the executor works through them.
LaunchPlan == <<"launch", "probe">>
ApplyPlan == <<"apply">>
RestorePlan == <<"restore">>
TerminatePlan == <<"terminate">>
RestartPlan == <<"terminate", "wait", "launch", "probe">>
FailOpenPlan == <<"giveUp", "restore">>
FailPlan == <<"giveUp", "terminate">>
RelaunchPlan == <<"wait", "launch", "probe">>
ProbePlan == <<"probe">>
Plans == {<<>>, LaunchPlan, ApplyPlan, RestorePlan, TerminatePlan, RestartPlan,
          FailOpenPlan, FailPlan, RelaunchPlan, ProbePlan}

TypeOK ==
  /\ settings \in [Fields -> Values]
  /\ snapshot \in Snapshots
  /\ original \in Choices
  /\ phase \in Phases
  /\ state \in States
  /\ hasConfigured \in BOOLEAN
  /\ attempts \in 0..(MaxAttempts + 1)
  /\ gaveUp \in BOOLEAN
  /\ event \in Events \cup {"none"}
  /\ todo \in Plans
  /\ op \in {"none", "apply", "restore"}
  /\ next \in Fields \cup {NFields + 1}
  /\ child \in {"none", "launched", "listening", "exited"}
  /\ orphan \in BOOLEAN
  /\ stopRequested \in BOOLEAN
  /\ exit \in {"never", "clean", "gaveUp", "crashed", "threw"}

Init ==
  /\ CustodyInit
  /\ phase = "down"
  /\ state = "stopped"
  /\ hasConfigured = FALSE
  /\ attempts = 0
  /\ gaveUp = FALSE
  /\ event = "none"
  /\ todo = <<>>
  /\ op = "none"
  /\ next = 1
  /\ child = "none"
  /\ orphan = FALSE
  /\ stopRequested = FALSE
  /\ exit = "never"

ChildRunning == child \in {"launched", "listening"}
Answering == child = "listening" \/ orphan
Routed == \E f \in Fields : settings[f] = "ours"

-----------------------------------------------------------------------------
(* ProxySupervisorMachine.handle *)

\* Seeded fault: the proxy is killed before the settings are put back.
KillFirst(restoring, stopping) ==
  IF hasConfigured
    THEN state' = "restoring" /\ todo' = <<"terminate", "restore">>
    ELSE state' = "stopped" /\ todo' = stopping

\* Seeded fault: a shutdown forgets that settings were written.
StopOnly(restoring, stopping) == state' = "stopped" /\ todo' = stopping

\* beginShutdown(): only a run that wrote settings has a snapshot to replay.
BeginShutdown(restoring, stopping) ==
  IF hasConfigured
    THEN state' = "restoring" /\ todo' = restoring
    ELSE state' = "stopped" /\ todo' = stopping

\* Seeded fault: the attempt is never counted.
RetryUncounted ==
  /\ state' = "starting"
  /\ todo' = RestartPlan
  /\ UNCHANGED <<hasConfigured, attempts>>

\* retry(): relaunch while attempts last, else fail open.
Retry ==
  /\ attempts' = attempts + 1
  /\ IF attempts < MaxAttempts
       THEN /\ state' = "starting"
            /\ todo' = RestartPlan
       ELSE BeginShutdown(FailOpenPlan, FailPlan)
  /\ UNCHANGED hasConfigured

HandleStart ==
  /\ state' = "starting"
  /\ todo' = LaunchPlan
  /\ UNCHANGED <<hasConfigured, attempts>>

\* A restarted child finds the routing still in place from the first time.
HandleHealthy ==
  /\ attempts' = 0
  /\ IF hasConfigured
       THEN state' = "configured" /\ todo' = <<>>
       ELSE state' = "healthy" /\ todo' = ApplyPlan
  /\ UNCHANGED hasConfigured

HandleSettingsApplied ==
  /\ hasConfigured' = TRUE
  /\ state' = "configured"
  /\ todo' = <<>>
  /\ UNCHANGED attempts

HandleRestoreCompleted ==
  /\ hasConfigured' = FALSE
  /\ attempts' = 0
  /\ state' = "stopped"
  /\ todo' = TerminatePlan

Active == {"starting", "healthy", "configured"}

\* dispatch(): the machine sees the event once every action before it has run.
Dispatch ==
  /\ event # "none"
  /\ todo = <<>>
  /\ event' = "none"
  /\ \/ state = "stopped" /\ event = "start" /\ HandleStart
     \/ state = "starting" /\ event = "healthy" /\ HandleHealthy
     \/ state = "healthy" /\ event = "settingsApplied" /\ HandleSettingsApplied
     \/ state \in Active /\ event \in {"healthCheckFailed", "proxyExited"} /\ Retry
     \/ /\ state \in Active /\ event = "stop"
        /\ BeginShutdown(RestorePlan, TerminatePlan)
        /\ UNCHANGED <<hasConfigured, attempts>>
     \/ state = "restoring" /\ event = "restoreCompleted" /\ HandleRestoreCompleted
     \/ state = "stopped" /\ event = "stop" /\ UNCHANGED <<machineVars, todo>>
  /\ UNCHANGED <<phase, gaveUp, op, next, procVars, stopRequested, exit, custodyVars>>

-----------------------------------------------------------------------------
(* The end of the process. Memory is gone; the files, the settings and     *)
(* possibly the child remain.                                              *)

Forgotten ==
  /\ phase' = "down"
  /\ state' = "stopped"
  /\ hasConfigured' = FALSE
  /\ attempts' = 0
  /\ gaveUp' = FALSE
  /\ event' = "none"
  /\ todo' = <<>>
  /\ op' = "none"
  /\ next' = 1
  /\ child' = "none"
  /\ stopRequested' = FALSE

\* A daemon that dies leaves its child behind, or launchd reaps it too.
Abandon(how) ==
  /\ Forgotten
  /\ exit' = how
  /\ \/ orphan' = orphan
     \/ ChildRunning /\ orphan' = TRUE
  /\ UNCHANGED custodyVars

Crash == phase # "down" /\ Abandon("crashed")

-----------------------------------------------------------------------------
(* ProxySupervisor.execute *)

Executing(action) == todo # <<>> /\ Head(todo) = action /\ op = "none"
\* The head of todo is done and yields the follow-up event e.
Done(e) == todo' = Tail(todo) /\ event' = e

ExecLaunch ==
  /\ Executing("launch")
  /\ child' = "launched"
  /\ Done("none")
  /\ UNCHANGED <<phase, machineVars, gaveUp, op, next, orphan, stopRequested, exit,
                 custodyVars>>

\* pollListener(): someone answered, or nobody did until the last attempt.
ExecProbe ==
  /\ Executing("probe")
  /\ Done(IF Answering THEN "healthy" ELSE "healthCheckFailed")
  /\ UNCHANGED <<phase, machineVars, gaveUp, op, next, procVars, stopRequested, exit,
                 custodyVars>>

ExecTerminate ==
  /\ Executing("terminate")
  /\ child' = IF ChildRunning THEN "none" ELSE child
  /\ Done("none")
  /\ UNCHANGED <<phase, machineVars, gaveUp, op, next, orphan, stopRequested, exit,
                 custodyVars>>

ExecWait ==
  /\ Executing("wait")
  /\ Done("none")
  /\ UNCHANGED <<phase, machineVars, gaveUp, op, next, procVars, stopRequested, exit,
                 custodyVars>>

ExecGiveUp ==
  /\ Executing("giveUp")
  /\ gaveUp' = TRUE
  /\ Done("none")
  /\ UNCHANGED <<phase, machineVars, op, next, procVars, stopRequested, exit,
                 custodyVars>>

\* ProxyConfiguration.apply, up to the snapshot: the services are listed, read
\* and persisted. A listing that fails is not noticed and reads as no services.
ExecApply ==
  /\ Executing("apply")
  /\ op' = "apply"
  /\ next' = 1
  /\ \/ snapshot' = settings
     \/ snapshot' = EmptySnapshot
  /\ UNCHANGED <<phase, machineVars, gaveUp, event, todo, procVars, stopRequested,
                 exit, settings, original>>

ApplyField ==
  /\ op = "apply"
  /\ next \in DOMAIN snapshot
  /\ settings' = [settings EXCEPT ![next] = "ours"]
  /\ next' = next + 1
  /\ UNCHANGED <<phase, machineVars, gaveUp, event, todo, op, procVars, stopRequested,
                 exit, snapshot, original>>

ApplyDone ==
  /\ op = "apply"
  /\ next \notin DOMAIN snapshot
  /\ op' = "none"
  /\ Done("settingsApplied")
  /\ UNCHANGED <<phase, machineVars, gaveUp, next, procVars, stopRequested, exit,
                 custodyVars>>

\* ProxyConfiguration.restore returns at once when there is no snapshot.
ExecRestore ==
  /\ Executing("restore")
  /\ IF snapshot = NoSnapshot
       THEN op' = op /\ Done("restoreCompleted")
       ELSE op' = "restore" /\ UNCHANGED <<todo, event>>
  /\ next' = 1
  /\ UNCHANGED <<phase, machineVars, gaveUp, procVars, stopRequested, exit, custodyVars>>

\* A disabled proxy takes two calls: blanking it also switches it on.
RestoreField ==
  /\ op = "restore"
  /\ next \in DOMAIN snapshot
  /\ LET twoCalls == next \notin Bypass /\ Restored(snapshot[next]) = "off"
     IN IF twoCalls /\ settings[next] # "blankOn"
          THEN /\ settings' = [settings EXCEPT ![next] = "blankOn"]
               /\ UNCHANGED next
          ELSE /\ settings' = [settings EXCEPT ![next] = Restored(snapshot[next])]
               /\ next' = next + 1
  /\ UNCHANGED <<phase, machineVars, gaveUp, event, todo, op, procVars, stopRequested,
                 exit, snapshot, original>>

\* Seeded fault: the loop over the fields ends one field early.
RestoreDoneEarly ==
  /\ op = "restore"
  /\ next \notin DOMAIN snapshot \/ next = NFields
  /\ op' = "none"
  /\ snapshot' = NoSnapshot
  /\ IF phase = "verb"
       THEN phase' = "down" /\ UNCHANGED <<todo, event>>
       ELSE phase' = phase /\ Done("restoreCompleted")
  /\ UNCHANGED <<machineVars, gaveUp, next, procVars, stopRequested, exit, settings,
                 original>>

\* The snapshot is dropped; that removal is allowed to fail silently.
RestoreDone ==
  /\ op = "restore"
  /\ next \notin DOMAIN snapshot
  /\ op' = "none"
  /\ snapshot' \in {snapshot, NoSnapshot}
  /\ IF phase = "verb"
       THEN phase' = "down" /\ UNCHANGED <<todo, event>>
       ELSE phase' = phase /\ Done("restoreCompleted")
  /\ UNCHANGED <<machineVars, gaveUp, next, procVars, stopRequested, exit, settings,
                 original>>

\* Launching, reading, persisting or a networksetup call failed: the error
\* leaves dispatch() and the process exits without undoing anything.
Throw ==
  /\ \/ Executing("launch")
     \/ Executing("apply")
     \/ op # "none" /\ next \in DOMAIN snapshot
  /\ Abandon("threw")

-----------------------------------------------------------------------------
(* runSupervisor *)

Idle == event = "none" /\ todo = <<>> /\ op = "none"

Exit == Abandon(IF gaveUp THEN "gaveUp" ELSE "clean")

ReturnFromStart ==
  /\ phase = "start"
  /\ Idle
  /\ IF state = "configured"
       THEN /\ phase' = "watch"
            /\ UNCHANGED <<machineVars, gaveUp, event, todo, op, next, procVars,
                           stopRequested, exit, custodyVars>>
       ELSE Exit

ReturnFromCheck ==
  /\ phase = "check"
  /\ Idle
  /\ phase' = "watch"
  /\ UNCHANGED <<machineVars, gaveUp, event, todo, op, next, procVars, stopRequested,
                 exit, custodyVars>>

ReturnFromStop == phase = "stop" /\ Idle /\ Exit

\* Seeded fault: the loop waits for a signal without looking at the child.
WatchLoopBlind ==
  /\ phase = "watch"
  /\ stopRequested \/ state = "stopped"
  /\ phase' = "stop"
  /\ event' = "stop"
  /\ UNCHANGED <<machineVars, gaveUp, todo, op, next, procVars, stopRequested, exit,
                 custodyVars>>

\* while stopRequested == 0 && state != .stopped { checkLiveness() }, stop()
WatchLoop ==
  /\ phase = "watch"
  /\ \/ /\ stopRequested \/ state = "stopped"
        /\ phase' = "stop"
        /\ event' = "stop"
     \/ /\ ~stopRequested /\ state # "stopped" /\ ~ChildRunning
        /\ phase' = "check"
        /\ event' = "proxyExited"
  /\ UNCHANGED <<machineVars, gaveUp, todo, op, next, procVars, stopRequested, exit,
                 custodyVars>>

DaemonStep ==
  \/ Dispatch \/ ExecLaunch \/ ExecProbe \/ ExecTerminate \/ ExecWait \/ ExecGiveUp
  \/ ExecApply \/ ApplyField \/ ApplyDone
  \/ ExecRestore \/ RestoreField \/ RestoreDone
  \/ ReturnFromStart \/ ReturnFromCheck \/ ReturnFromStop \/ WatchLoop

-----------------------------------------------------------------------------
(* The environment *)

\* launchd (RunAtLoad, KeepAlive) starts the daemon whenever it is not running.
Launch ==
  /\ phase = "down"
  /\ CrashRelaunch \/ PutBack
  /\ phase' = "start"
  /\ event' = "start"
  /\ UNCHANGED <<machineVars, gaveUp, todo, op, next, procVars, stopRequested, exit,
                 custodyVars>>

Signal ==
  /\ phase \in {"start", "watch", "check", "stop"}
  /\ stopRequested' = TRUE
  /\ UNCHANGED <<phase, machineVars, gaveUp, event, todo, op, next, procVars, exit,
                 custodyVars>>

\* Someone whose settings were left behind runs the proxy-restore verb.
RestoreVerb ==
  /\ phase = "down"
  /\ ~PutBack
  /\ snapshot # NoSnapshot
  /\ phase' = "verb"
  /\ op' = "restore"
  /\ next' = 1
  /\ UNCHANGED <<machineVars, gaveUp, event, todo, procVars, stopRequested, exit,
                 custodyVars>>

UserEdits ==
  /\ phase = "down"
  /\ UserChooses
  /\ UNCHANGED <<phase, machineVars, gaveUp, event, todo, op, next, procVars,
                 stopRequested, exit>>

\* The child binds its port unless something holds it already.
ChildBinds ==
  /\ child = "launched"
  /\ ~orphan
  /\ child' = "listening"
  /\ UNCHANGED <<phase, machineVars, gaveUp, event, todo, op, next, orphan,
                 stopRequested, exit, custodyVars>>

ChildExits ==
  /\ ChildRunning
  /\ child' = "exited"
  /\ UNCHANGED <<phase, machineVars, gaveUp, event, todo, op, next, orphan,
                 stopRequested, exit, custodyVars>>

OrphanExits ==
  /\ orphan
  /\ orphan' = FALSE
  /\ UNCHANGED <<phase, machineVars, gaveUp, event, todo, op, next, child,
                 stopRequested, exit, custodyVars>>

EnvStep ==
  \/ Launch \/ Signal \/ RestoreVerb \/ UserEdits
  \/ ChildBinds \/ ChildExits \/ OrphanExits \/ Crash \/ Throw

Next == DaemonStep \/ EnvStep

\* The executor runs its own steps without waiting for anyone; nothing is
\* promised of the child, the user, launchd or the signals.
Spec == Init /\ [][Next]_vars /\ WF_vars(DaemonStep)

-----------------------------------------------------------------------------
(* Properties *)

\* Wherever the daemon dies - between any two networksetup calls of apply or
\* restore, in a backoff, in a probe - the user's settings are untouched or a
\* faithful copy of them is on disk (ProxyConfiguration.apply and restore).
Recoverable == PutBack \/ Faithful

\* Traffic is never pointed at a port whose proxy the daemon has killed, except
\* while a restart is under way that launches the next one (restore before
\* terminate, the second ordering rule of ProxySupervisorMachine).
NoStranding ==
  (Routed /\ phase \in {"start", "watch", "check", "stop"} /\ child = "none")
    => todo \in {LaunchPlan, RelaunchPlan}

\* A run that ends by itself, asked to stop or giving up after its last
\* attempt, leaves the user's settings behind and no proxy of its own.
StopRestores ==
  [][(phase' = "down" /\ exit' \in {"clean", "gaveUp"} /\ phase # "verb")
       => PutBack' /\ (orphan' => orphan)]_vars

\* Every call of start(), checkLiveness() and stop() returns or ends the
\* process: the recursion of dispatch() is cut by the attempt counter even if
\* the child never comes up or dies under every probe.
DispatchTerminates ==
  phase \in {"start", "check", "stop"} ~> phase \in {"watch", "down"}

\* A proxy that exits while traffic is routed to it is replaced by one that
\* answers, or the routing is undone: the network does not stay pointed at the
\* port of a child that exited while the daemon lives. A child that hangs behind
\* an orphan's port, neither bound nor gone, is not looked at; one that cannot
\* bind exits (mitm-proxy/src/main.rs:106).
ServedOrOpen ==
  (Routed /\ child = "exited" /\ phase # "down")
    ~> (Answering \/ ~Routed \/ phase = "down")

\* What ProxyConfiguration.swift promises of a crash: there is a way back from
\* our listener, that is, the snapshot does not itself point at it.
RouteBack ==
  Routed => snapshot \in [Fields -> Values] /\ \A f \in Fields : snapshot[f] # "ours"

=============================================================================
