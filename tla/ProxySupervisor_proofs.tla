------------------------- MODULE ProxySupervisor_proofs -------------------------
(***************************************************************************)
(* Proofs about ProxySupervisor for any number of fields and any bound on  *)
(* the restart attempts. Everything about the settings is proved for       *)
(* daemons that are relaunched only once the settings were put back        *)
(* (CrashRelaunch = FALSE): without that the statements are false, which   *)
(* is what the run proxy_crash shows.                                      *)
(***************************************************************************)
EXTENDS ProxySupervisor, TLAPS

Up == phase \in {"start", "watch", "check", "stop"}
Replays(p) == p \in {RestorePlan, FailOpenPlan}

\* How the executor's position, the machine's flag and the plan in hand agree.
Control ==
  /\ ~Up => ~hasConfigured /\ event = "none" /\ todo = <<>> /\ attempts = 0
  /\ ~Up => state = "stopped"
  /\ event = "start" => attempts = 0
  /\ state \in Active => attempts <= MaxAttempts
  /\ phase = "down" => op = "none"
  /\ phase = "verb" => op = "restore"
  /\ phase = "watch" => event = "none" /\ todo = <<>> /\ op = "none"
  /\ event # "none" => todo = <<>> /\ op = "none"
  /\ op # "none" => snapshot # NoSnapshot
  /\ op = "apply" => todo = ApplyPlan
  /\ Up /\ op = "restore" => todo = RestorePlan
  /\ todo = ApplyPlan => ~hasConfigured
  /\ Replays(todo) => hasConfigured
  /\ event = "settingsApplied" => ~hasConfigured

\* The snapshot on disk covers every field the daemon may have changed.
Backed == Faithful \/ (snapshot = EmptySnapshot /\ PutBack)

\* Where the run has got to decides what is known of the settings.
Custody ==
  /\ PutBack \/ Faithful
  /\ op \in {"apply", "restore"} => Backed
  /\ event = "settingsApplied" => Backed
  /\ hasConfigured /\ event # "restoreCompleted" => Backed
  /\ event = "restoreCompleted" => PutBack
  /\ Up /\ ~hasConfigured /\ op # "apply" /\ event # "settingsApplied" => PutBack
  /\ op = "restore" =>
       \A f \in DOMAIN snapshot : f < next => settings[f] = Restored(snapshot[f])

\* How the plans differ, and what is left of one when its head has run. Nothing
\* else in this module looks inside a plan.
LEMMA PlanFacts ==
  /\ Tail(LaunchPlan) = ProbePlan /\ Head(LaunchPlan) = "launch"
  /\ Tail(RelaunchPlan) = LaunchPlan /\ Head(RelaunchPlan) = "wait"
  /\ Tail(RestartPlan) = RelaunchPlan /\ Head(RestartPlan) = "terminate"
  /\ Tail(FailOpenPlan) = RestorePlan /\ Head(FailOpenPlan) = "giveUp"
  /\ Tail(FailPlan) = TerminatePlan /\ Head(FailPlan) = "giveUp"
  /\ Tail(ProbePlan) = <<>> /\ Head(ProbePlan) = "probe"
  /\ Tail(ApplyPlan) = <<>> /\ Head(ApplyPlan) = "apply"
  /\ Tail(RestorePlan) = <<>> /\ Head(RestorePlan) = "restore"
  /\ Tail(TerminatePlan) = <<>> /\ Head(TerminatePlan) = "terminate"
<1>1. Tail(LaunchPlan) = ProbePlan /\ Head(LaunchPlan) = "launch"
  BY DEF LaunchPlan, ProbePlan
<1>2. Tail(RelaunchPlan) = LaunchPlan /\ Head(RelaunchPlan) = "wait"
  BY DEF RelaunchPlan, LaunchPlan
<1>3. Tail(RestartPlan) = RelaunchPlan /\ Head(RestartPlan) = "terminate"
  BY DEF RestartPlan, RelaunchPlan
<1>4. Tail(FailOpenPlan) = RestorePlan /\ Head(FailOpenPlan) = "giveUp"
  BY DEF FailOpenPlan, RestorePlan
<1>5. Tail(FailPlan) = TerminatePlan /\ Head(FailPlan) = "giveUp"
  BY DEF FailPlan, TerminatePlan
<1>6. Tail(ProbePlan) = <<>> /\ Head(ProbePlan) = "probe"
  BY DEF ProbePlan
<1>7. Tail(ApplyPlan) = <<>> /\ Head(ApplyPlan) = "apply"
  BY DEF ApplyPlan
<1>8. Tail(RestorePlan) = <<>> /\ Head(RestorePlan) = "restore"
  BY DEF RestorePlan
<1>9. Tail(TerminatePlan) = <<>> /\ Head(TerminatePlan) = "terminate"
  BY DEF TerminatePlan
<1> QED
  BY <1>1, <1>2, <1>3, <1>4, <1>5, <1>6, <1>7, <1>8, <1>9

LEMMA PlansApart ==
  /\ LaunchPlan # <<>> /\ ApplyPlan # <<>> /\ RestorePlan # <<>> /\ TerminatePlan # <<>>
  /\ RestartPlan # <<>> /\ FailOpenPlan # <<>> /\ FailPlan # <<>>
  /\ LaunchPlan # ApplyPlan /\ RestorePlan # ApplyPlan /\ TerminatePlan # ApplyPlan
  /\ RestartPlan # ApplyPlan /\ FailOpenPlan # ApplyPlan /\ FailPlan # ApplyPlan
  /\ ProbePlan # ApplyPlan
  /\ ~Replays(<<>>) /\ ~Replays(LaunchPlan) /\ ~Replays(ApplyPlan)
  /\ ~Replays(TerminatePlan) /\ ~Replays(RestartPlan) /\ ~Replays(FailPlan)
  /\ ~Replays(RelaunchPlan) /\ ~Replays(ProbePlan)
<1>1. /\ LaunchPlan # <<>> /\ ApplyPlan # <<>> /\ RestorePlan # <<>>
      /\ TerminatePlan # <<>> /\ RestartPlan # <<>> /\ FailOpenPlan # <<>>
      /\ FailPlan # <<>>
  BY DEF LaunchPlan, ApplyPlan, RestorePlan, TerminatePlan, RestartPlan, FailOpenPlan,
         FailPlan
<1>2. FailPlan # FailOpenPlan
  BY DEF FailPlan, FailOpenPlan
<1> QED
  BY <1>1, <1>2, PlanFacts DEF Replays

LEMMA PlansMembers ==
  /\ <<>> \in Plans /\ LaunchPlan \in Plans /\ ApplyPlan \in Plans
  /\ RestorePlan \in Plans /\ TerminatePlan \in Plans /\ RestartPlan \in Plans
  /\ FailOpenPlan \in Plans /\ FailPlan \in Plans
BY DEF Plans

LEMMA PlanTails ==
  ASSUME NEW p \in Plans, p # <<>>
  PROVE  /\ Tail(p) \in Plans
         /\ Tail(p) # ApplyPlan
         /\ Head(p) = "apply" => p = ApplyPlan
         /\ Head(p) = "restore" => p = RestorePlan
         /\ Head(p) \in {"probe", "apply", "restore"} => Tail(p) = <<>>
         /\ Replays(Tail(p)) => Replays(p)
BY PlanFacts, PlansApart DEF Plans, Replays

LEMMA RestoredValues ==
  ASSUME NEW v \in Values
  PROVE  Restored(v) \in Values /\ Restored(Restored(v)) = Restored(v)
BY DEF Restored, Values

LEMMA ChoicesAreValues == Choices \subseteq [Fields -> Values]
BY DEF Choices, Values

\* A snapshot covers every field, or was taken from a failed listing and is empty.
LEMMA SnapshotDomain ==
  ASSUME NEW s \in Snapshots, s # NoSnapshot
  PROVE  \/ s = EmptySnapshot /\ DOMAIN s = {}
         \/ s \in [Fields -> Values] /\ DOMAIN s = Fields
<1>1. DOMAIN EmptySnapshot = {}
  BY DEF EmptySnapshot
<1> QED
  BY <1>1 DEF Snapshots

Shape == TypeOK /\ Control

LEMMA ShapeInit == Init => Shape
<1> SUFFICES ASSUME Init PROVE Shape
  OBVIOUS
<1>1. todo \in Plans /\ todo # ApplyPlan /\ ~Replays(todo)
  BY PlansMembers, PlansApart DEF Init
<1>2. settings \in [Fields -> Values] /\ original \in Choices /\ snapshot \in Snapshots
  BY ChoicesAreValues DEF Init, CustodyInit, Snapshots
<1>3. next \in Fields \cup {NFields + 1} /\ attempts \in 0..(MaxAttempts + 1)
  BY NFieldsAssumption, MaxAttemptsAssumption DEF Init, Fields
<1>4. TypeOK
  BY <1>1, <1>2, <1>3 DEF TypeOK, Init, Phases, States
<1>5. Control
  BY <1>1, MaxAttemptsAssumption DEF Control, Up, Active, Init
<1> QED
  BY <1>4, <1>5 DEF Shape

LEMMA ExecLaunchShape == Shape /\ ExecLaunch => Shape'
<1> SUFFICES ASSUME Shape, ExecLaunch PROVE Shape'
  OBVIOUS
<1>1. todo # <<>> /\ todo' = Tail(todo) /\ op = "none" /\ Up /\ event = "none"
  BY DEF ExecLaunch, Executing, Done, Shape, Control
<1>2. Head(todo) # "restore"
  BY DEF ExecLaunch, Executing
<1>3. todo' \in Plans
  BY <1>1, PlanTails DEF Shape, TypeOK
<1>4. /\ todo' # ApplyPlan /\ (Replays(todo') => hasConfigured)
      /\ Head(todo) = "probe" => todo' = <<>>
  BY <1>1, <1>2, PlanTails DEF Shape, TypeOK, Control
<1>5. TypeOK'
  BY <1>3 DEF ExecLaunch, Done, Shape, TypeOK, Events, machineVars, procVars, custodyVars, ChildRunning
<1>6. Control'
  BY <1>1, <1>3, <1>4 DEF ExecLaunch, Executing, Done, Shape, Control, Up, machineVars, procVars
<1> QED
  BY <1>5, <1>6 DEF Shape

LEMMA ExecProbeShape == Shape /\ ExecProbe => Shape'
<1> SUFFICES ASSUME Shape, ExecProbe PROVE Shape'
  OBVIOUS
<1>1. todo # <<>> /\ todo' = Tail(todo) /\ op = "none" /\ Up /\ event = "none"
  BY DEF ExecProbe, Executing, Done, Shape, Control
<1>2. Head(todo) # "restore"
  BY DEF ExecProbe, Executing
<1>3. todo' \in Plans
  BY <1>1, PlanTails DEF Shape, TypeOK
<1>4. /\ todo' # ApplyPlan /\ (Replays(todo') => hasConfigured)
      /\ Head(todo) = "probe" => todo' = <<>>
  BY <1>1, <1>2, PlanTails DEF Shape, TypeOK, Control
<1>5. TypeOK'
  BY <1>3 DEF ExecProbe, Done, Shape, TypeOK, Events, machineVars, procVars, custodyVars, ChildRunning
<1>6. Control'
  BY <1>1, <1>3, <1>4 DEF ExecProbe, Executing, Done, Shape, Control, Up, machineVars, procVars
<1> QED
  BY <1>5, <1>6 DEF Shape

LEMMA ExecTerminateShape == Shape /\ ExecTerminate => Shape'
<1> SUFFICES ASSUME Shape, ExecTerminate PROVE Shape'
  OBVIOUS
<1>1. todo # <<>> /\ todo' = Tail(todo) /\ op = "none" /\ Up /\ event = "none"
  BY DEF ExecTerminate, Executing, Done, Shape, Control
<1>2. Head(todo) # "restore"
  BY DEF ExecTerminate, Executing
<1>3. todo' \in Plans
  BY <1>1, PlanTails DEF Shape, TypeOK
<1>4. /\ todo' # ApplyPlan /\ (Replays(todo') => hasConfigured)
      /\ Head(todo) = "probe" => todo' = <<>>
  BY <1>1, <1>2, PlanTails DEF Shape, TypeOK, Control
<1>5. TypeOK'
  BY <1>3 DEF ExecTerminate, Done, Shape, TypeOK, Events, machineVars, procVars, custodyVars, ChildRunning
<1>6. Control'
  BY <1>1, <1>3, <1>4 DEF ExecTerminate, Executing, Done, Shape, Control, Up, machineVars, procVars
<1> QED
  BY <1>5, <1>6 DEF Shape

LEMMA ExecWaitShape == Shape /\ ExecWait => Shape'
<1> SUFFICES ASSUME Shape, ExecWait PROVE Shape'
  OBVIOUS
<1>1. todo # <<>> /\ todo' = Tail(todo) /\ op = "none" /\ Up /\ event = "none"
  BY DEF ExecWait, Executing, Done, Shape, Control
<1>2. Head(todo) # "restore"
  BY DEF ExecWait, Executing
<1>3. todo' \in Plans
  BY <1>1, PlanTails DEF Shape, TypeOK
<1>4. /\ todo' # ApplyPlan /\ (Replays(todo') => hasConfigured)
      /\ Head(todo) = "probe" => todo' = <<>>
  BY <1>1, <1>2, PlanTails DEF Shape, TypeOK, Control
<1>5. TypeOK'
  BY <1>3 DEF ExecWait, Done, Shape, TypeOK, Events, machineVars, procVars, custodyVars, ChildRunning
<1>6. Control'
  BY <1>1, <1>3, <1>4 DEF ExecWait, Executing, Done, Shape, Control, Up, machineVars, procVars
<1> QED
  BY <1>5, <1>6 DEF Shape

LEMMA ExecGiveUpShape == Shape /\ ExecGiveUp => Shape'
<1> SUFFICES ASSUME Shape, ExecGiveUp PROVE Shape'
  OBVIOUS
<1>1. todo # <<>> /\ todo' = Tail(todo) /\ op = "none" /\ Up /\ event = "none"
  BY DEF ExecGiveUp, Executing, Done, Shape, Control
<1>2. Head(todo) # "restore"
  BY DEF ExecGiveUp, Executing
<1>3. todo' \in Plans
  BY <1>1, PlanTails DEF Shape, TypeOK
<1>4. /\ todo' # ApplyPlan /\ (Replays(todo') => hasConfigured)
      /\ Head(todo) = "probe" => todo' = <<>>
  BY <1>1, <1>2, PlanTails DEF Shape, TypeOK, Control
<1>5. TypeOK'
  BY <1>3 DEF ExecGiveUp, Done, Shape, TypeOK, Events, machineVars, procVars, custodyVars, ChildRunning
<1>6. Control'
  BY <1>1, <1>3, <1>4 DEF ExecGiveUp, Executing, Done, Shape, Control, Up, machineVars, procVars
<1> QED
  BY <1>5, <1>6 DEF Shape

LEMMA DispatchShape == Shape /\ Dispatch => Shape'
<1> SUFFICES ASSUME Shape, Dispatch PROVE Shape'
  OBVIOUS
<1> DEFINE Outcome ==
      /\ state' \in States /\ hasConfigured' \in BOOLEAN /\ todo' \in Plans
      /\ attempts' \in 0..(MaxAttempts + 1)
      /\ state' \in Active => attempts' <= MaxAttempts
      /\ todo' = ApplyPlan => ~hasConfigured'
      /\ Replays(todo') => hasConfigured'
<1>1. todo = <<>> /\ event # "none" /\ Up /\ op = "none"
  BY DEF Dispatch, Shape, TypeOK, Control
<1>2. Outcome
  <2>1. CASE state = "stopped" /\ event = "start" /\ HandleStart
    BY <2>1, PlansMembers, PlansApart, MaxAttemptsAssumption
    DEF HandleStart, Shape, TypeOK, Control, States
  <2>2. CASE HandleHealthy
    BY <2>2, PlansMembers, PlansApart, MaxAttemptsAssumption
    DEF HandleHealthy, Shape, TypeOK, States
  <2>3. CASE state = "healthy" /\ HandleSettingsApplied
    BY <2>3, PlansMembers, PlansApart
    DEF HandleSettingsApplied, Shape, TypeOK, Control, States, Active
  <2>4. CASE HandleRestoreCompleted
    <3>1. todo' \in Plans /\ todo' # ApplyPlan /\ ~Replays(todo')
      BY <2>4, PlansMembers, PlansApart DEF HandleRestoreCompleted
    <3>2. hasConfigured' \in BOOLEAN /\ state' \in States
      BY <2>4 DEF HandleRestoreCompleted, States
    <3>3. attempts' \in 0..(MaxAttempts + 1) /\ attempts' <= MaxAttempts
      BY <2>4, MaxAttemptsAssumption DEF HandleRestoreCompleted
    <3> QED
      BY <3>1, <3>2, <3>3
  <2>5. CASE state \in Active /\ Retry
    <3>1. attempts' \in 0..(MaxAttempts + 1) /\ hasConfigured' \in BOOLEAN
      BY <2>5, MaxAttemptsAssumption DEF Retry, Shape, TypeOK, Control
    <3>2. CASE attempts < MaxAttempts
      BY <2>5, <3>1, <3>2, PlansMembers, PlansApart, MaxAttemptsAssumption
      DEF Retry, Shape, TypeOK, States
    <3>3. CASE ~(attempts < MaxAttempts)
      BY <2>5, <3>1, <3>3, PlansMembers, PlansApart
      DEF Retry, BeginShutdown, Shape, TypeOK, States, Active
    <3> QED
      BY <3>2, <3>3
  <2>6. CASE /\ state \in Active
             /\ BeginShutdown(RestorePlan, TerminatePlan)
             /\ UNCHANGED <<hasConfigured, attempts>>
    BY <2>6, PlansMembers, PlansApart
    DEF BeginShutdown, Shape, TypeOK, Control, States, Active
  <2>7. CASE UNCHANGED <<machineVars, todo>>
    BY <1>1, <2>7, PlansApart DEF Shape, TypeOK, Control, machineVars
  <2> QED
    BY <2>1, <2>2, <2>3, <2>4, <2>5, <2>6, <2>7, Zenon DEF Dispatch
<1> HIDE DEF Outcome
<1>3. TypeOK'
  BY <1>2 DEF Outcome, Dispatch, Shape, TypeOK, procVars, custodyVars
<1>4. Control'
  BY <1>1, <1>2 DEF Outcome, Dispatch, Shape, Control, Up
<1> QED
  BY <1>3, <1>4 DEF Shape


LEMMA ExecApplyShape == Shape /\ ExecApply => Shape'
<1> SUFFICES ASSUME Shape, ExecApply PROVE Shape'
  OBVIOUS
<1>1. todo = ApplyPlan /\ Up /\ event = "none"
  BY PlanTails DEF ExecApply, Executing, Shape, TypeOK, Control
<1>2. snapshot' \in Snapshots /\ snapshot' # NoSnapshot
  BY NoSnapshotAssumption DEF ExecApply, Shape, TypeOK, Snapshots
<1>3. next' \in Fields \cup {NFields + 1}
  BY NFieldsAssumption DEF ExecApply, Fields
<1>4. TypeOK'
  BY <1>2, <1>3 DEF ExecApply, Shape, TypeOK, machineVars, procVars
<1>5. Control'
  BY <1>1, <1>2, PlansApart DEF ExecApply, Shape, Control, Up, machineVars
<1> QED
  BY <1>4, <1>5 DEF Shape

LEMMA ApplyFieldShape == Shape /\ ApplyField => Shape'
<1> SUFFICES ASSUME Shape, ApplyField PROVE Shape'
  OBVIOUS
<1>1. next \in Fields
  BY SnapshotDomain DEF ApplyField, Shape, TypeOK, Control
<1>2. settings' \in [Fields -> Values]
  BY <1>1 DEF ApplyField, Shape, TypeOK, Values
<1>3. next' \in Fields \cup {NFields + 1}
  BY <1>1, NFieldsAssumption DEF ApplyField, Fields
<1>4. TypeOK'
  BY <1>2, <1>3 DEF ApplyField, Shape, TypeOK, machineVars, procVars
<1>5. Control'
  BY DEF ApplyField, Shape, Control, Up, machineVars
<1> QED
  BY <1>4, <1>5 DEF Shape

LEMMA ApplyDoneShape == Shape /\ ApplyDone => Shape'
<1> SUFFICES ASSUME Shape, ApplyDone PROVE Shape'
  OBVIOUS
<1>1. todo = ApplyPlan /\ todo' = <<>> /\ Up /\ ~hasConfigured
  BY PlanFacts, PlansApart DEF ApplyDone, Done, Shape, Control
<1>2. todo' \in Plans /\ todo' # ApplyPlan /\ ~Replays(todo')
  BY <1>1, PlansMembers, PlansApart
<1>3. TypeOK'
  BY <1>2 DEF ApplyDone, Done, Shape, TypeOK, Events, machineVars, procVars, custodyVars
<1>4. Control'
  BY <1>1, <1>2 DEF ApplyDone, Done, Shape, Control, Up, machineVars
<1> QED
  BY <1>3, <1>4 DEF Shape

LEMMA ExecRestoreShape == Shape /\ ExecRestore => Shape'
<1> SUFFICES ASSUME Shape, ExecRestore PROVE Shape'
  OBVIOUS
<1>1. todo = RestorePlan /\ Tail(todo) = <<>> /\ Up /\ event = "none" /\ op = "none"
  BY PlanTails DEF ExecRestore, Executing, Shape, TypeOK, Control
<1>2. next' \in Fields \cup {NFields + 1}
  BY NFieldsAssumption DEF ExecRestore, Fields
<1>3. todo' \in Plans /\ todo' # ApplyPlan /\ (todo' = <<>> \/ todo' = todo)
  BY <1>1, PlansMembers, PlansApart DEF ExecRestore, Done
<1>4. ~Replays(<<>>)
  BY PlansApart
<1>5. TypeOK'
  BY <1>2, <1>3
  DEF ExecRestore, Done, Shape, TypeOK, Events, machineVars, procVars, custodyVars
<1>6. Control'
  BY <1>1, <1>3, <1>4, PlansApart
  DEF ExecRestore, Done, Shape, Control, Up, machineVars, custodyVars
<1> QED
  BY <1>5, <1>6 DEF Shape

LEMMA RestoreFieldShape == Shape /\ RestoreField => Shape'
<1> SUFFICES ASSUME Shape, RestoreField PROVE Shape'
  OBVIOUS
<1>1. next \in Fields /\ snapshot \in [Fields -> Values]
  BY SnapshotDomain DEF RestoreField, Shape, TypeOK, Control
<1>2. Restored(snapshot[next]) \in Values /\ "blankOn" \in Values
  BY <1>1, RestoredValues DEF Values
<1>3. settings' \in [Fields -> Values]
  BY <1>1, <1>2 DEF RestoreField, Shape, TypeOK
<1>4. next' \in Fields \cup {NFields + 1}
  BY <1>1, NFieldsAssumption DEF RestoreField, Fields
<1>5. TypeOK'
  BY <1>3, <1>4 DEF RestoreField, Shape, TypeOK, machineVars, procVars
<1>6. Control'
  BY DEF RestoreField, Shape, Control, Up, machineVars
<1> QED
  BY <1>5, <1>6 DEF Shape

LEMMA RestoreDoneShape == Shape /\ RestoreDone => Shape'
<1> SUFFICES ASSUME Shape, RestoreDone PROVE Shape'
  OBVIOUS
<1>1. phase # "verb" => todo = RestorePlan /\ Tail(todo) = <<>> /\ Up
  BY PlanFacts DEF RestoreDone, Shape, TypeOK, Control, Phases, Up
<1>2. phase = "verb" => todo = <<>> /\ event = "none" /\ ~Up
  BY DEF Shape, Control, Up
<1>3. todo' = <<>> /\ todo' \in Plans /\ todo' # ApplyPlan /\ ~Replays(todo')
  BY <1>1, <1>2, PlansMembers, PlansApart DEF RestoreDone, Done
<1>4. snapshot' \in Snapshots
  BY DEF RestoreDone, Shape, TypeOK, Snapshots
<1>5. TypeOK'
  BY <1>3, <1>4
  DEF RestoreDone, Done, Shape, TypeOK, Events, Phases, machineVars, procVars
<1>6. Control'
  BY <1>1, <1>2, <1>3 DEF RestoreDone, Done, Shape, Control, Up, machineVars
<1> QED
  BY <1>5, <1>6 DEF Shape

\* The end of a run, however it comes about.
LEMMA AbandonShape ==
  ASSUME Shape, NEW how \in {"clean", "gaveUp", "crashed", "threw"}, Abandon(how)
  PROVE  Shape'
<1>1. todo' \in Plans /\ todo' # ApplyPlan /\ ~Replays(todo') /\ todo' = <<>>
  BY PlansMembers, PlansApart DEF Abandon, Forgotten
<1>2. next' \in Fields \cup {NFields + 1} /\ attempts' \in 0..(MaxAttempts + 1)
  BY NFieldsAssumption, MaxAttemptsAssumption DEF Abandon, Forgotten, Fields
<1>3. TypeOK'
  BY <1>1, <1>2 DEF Abandon, Forgotten, Shape, TypeOK, Phases, States, custodyVars
<1>4. Control'
  BY <1>1, MaxAttemptsAssumption DEF Abandon, Forgotten, Control, Up, Active
<1> QED
  BY <1>3, <1>4 DEF Shape

LEMMA LoopShape ==
  ASSUME Shape, ReturnFromStart \/ ReturnFromCheck \/ ReturnFromStop \/ WatchLoop
  PROVE  Shape'
<1>1. CASE Exit
  BY <1>1, AbandonShape DEF Exit
<1>2. CASE ReturnFromStart /\ ~Exit
  BY <1>2, PlansApart DEF ReturnFromStart, Idle, Shape, TypeOK, Control, Up, Phases, machineVars,
                          procVars, custodyVars
<1>3. CASE ReturnFromCheck
  BY <1>3, PlansApart DEF ReturnFromCheck, Idle, Shape, TypeOK, Control, Up, Phases, machineVars,
                          procVars, custodyVars
<1>4. CASE WatchLoop
  BY <1>4 DEF WatchLoop, Shape, TypeOK, Control, Up, Phases, Events, machineVars,
                          procVars, custodyVars
<1> QED
  BY <1>1, <1>2, <1>3, <1>4 DEF ReturnFromStop

LEMMA EnvShape ==
  ASSUME Shape, EnvStep
  PROVE  Shape'
<1>1. CASE Launch
  BY <1>1 DEF Launch, Shape, TypeOK, Control, Up, Phases, Events, machineVars,
              procVars, custodyVars
<1>2. CASE Signal
  BY <1>2 DEF Signal, Shape, TypeOK, Control, Up, machineVars, procVars, custodyVars
<1>3. CASE RestoreVerb
  <2>1. next' \in Fields \cup {NFields + 1}
    BY <1>3, NFieldsAssumption DEF RestoreVerb, Fields
  <2> QED
    BY <1>3, <2>1 DEF RestoreVerb, Shape, TypeOK, Control, Up, Phases, machineVars,
                      procVars, custodyVars
<1>4. CASE UserEdits
  BY <1>4, ChoicesAreValues
  DEF UserEdits, UserChooses, Shape, TypeOK, Control, Up, machineVars, procVars
<1>5. CASE ChildBinds
  BY <1>5 DEF ChildBinds, Shape, TypeOK, Control, Up, machineVars, custodyVars
<1>7. CASE ChildExits
  BY <1>7 DEF ChildExits, Shape, TypeOK, Control, Up, machineVars, custodyVars
<1>8. CASE OrphanExits
  <2>1. TypeOK'
    BY <1>8 DEF OrphanExits, Shape, TypeOK, machineVars, custodyVars
  <2>2. Control'
    BY <1>8 DEF OrphanExits, Shape, Control, Up, machineVars, custodyVars
  <2> QED
    BY <2>1, <2>2 DEF Shape
<1>6. CASE Crash \/ Throw
  BY <1>6, AbandonShape DEF Crash, Throw
<1> QED
  BY <1>1, <1>2, <1>3, <1>4, <1>5, <1>6, <1>7, <1>8 DEF EnvStep

LEMMA ShapeStep == Shape /\ [Next]_vars => Shape'
<1> SUFFICES ASSUME Shape, [Next]_vars PROVE Shape'
  OBVIOUS
<1>1. CASE DaemonStep
  BY <1>1, DispatchShape, ExecLaunchShape, ExecProbeShape, ExecTerminateShape, ExecWaitShape,
     ExecGiveUpShape, ExecApplyShape, ApplyFieldShape, ApplyDoneShape, ExecRestoreShape,
     RestoreFieldShape, RestoreDoneShape, LoopShape, Zenon
  DEF DaemonStep
<1>2. CASE EnvStep
  BY <1>2, EnvShape
<1>3. CASE UNCHANGED vars
  BY <1>3 DEF vars, Shape, TypeOK, Control, Up, machineVars, procVars, custodyVars
<1> QED
  BY <1>1, <1>2, <1>3 DEF Next

\* The daemon's state is always well formed, whenever launchd starts it.
THEOREM TypeCorrect == Spec => []TypeOK
<1>1. Shape => TypeOK
  BY DEF Shape
<1> QED
  BY <1>1, ShapeInit, ShapeStep, PTL DEF Spec

-----------------------------------------------------------------------------
(* The settings. A run that starts only on settings that were put back      *)
(* keeps the user's choice recoverable and refines ProxyCustody.            *)

CustodyStep == [CustodyNext]_custodyVars

LEMMA CustodyUnchanged ==
  ASSUME UNCHANGED custodyVars
  PROVE  /\ PutBack' <=> PutBack
         /\ Faithful' <=> Faithful
         /\ Backed' <=> Backed
         /\ CustodyStep
<1>1. settings' = settings /\ snapshot' = snapshot /\ original' = original
  BY DEF custodyVars
<1>2. PutBack' <=> PutBack
  BY <1>1 DEF PutBack
<1>3. Faithful' <=> Faithful
  BY <1>1 DEF Faithful
<1>4. Backed' <=> Backed
  BY <1>1, <1>2, <1>3 DEF Backed
<1> QED
  BY <1>2, <1>3, <1>4 DEF CustodyStep

LEMMA CustodyBegins == Init => Custody /\ CustodyInit
<1> SUFFICES ASSUME Init PROVE Custody /\ CustodyInit
  OBVIOUS
<1>1. PutBack
  BY DEF Init, CustodyInit, PutBack
<1> QED
  BY <1>1 DEF Init, Custody, Up

\* Steps of the executor and the child that leave settings and snapshot alone.
LEMMA QuietCustody ==
  ASSUME Shape, Custody, UNCHANGED custodyVars,
         \/ ExecLaunch \/ ExecProbe \/ ExecTerminate \/ ExecWait \/ ExecGiveUp
         \/ WatchLoop \/ ReturnFromCheck \/ (ReturnFromStart /\ ~Exit)
         \/ Signal \/ ChildBinds \/ ChildExits \/ OrphanExits
  PROVE  Custody' /\ CustodyStep
<1>1. /\ op' = op /\ next' = next /\ hasConfigured' = hasConfigured /\ (Up <=> Up')
      /\ \/ event' = event
         \/ event = "none" /\ event' \notin {"settingsApplied", "restoreCompleted"}
  BY DEF ExecLaunch, ExecProbe, ExecTerminate, ExecWait, ExecGiveUp, WatchLoop, Executing,
         ReturnFromCheck, ReturnFromStart, Idle, Signal, ChildBinds, ChildExits, OrphanExits, Done,
         Shape, Control, Up, machineVars, procVars
<1>2. settings' = settings /\ snapshot' = snapshot
  BY DEF custodyVars
<1> QED
  BY <1>1, <1>2, CustodyUnchanged DEF Custody

\* What a run that ends leaves behind is what it had.
LEMMA AbandonCustody ==
  ASSUME Custody, NEW how, Abandon(how)
  PROVE  Custody' /\ CustodyStep
<1>1. UNCHANGED custodyVars /\ op' = "none" /\ event' = "none" /\ ~hasConfigured' /\ ~Up'
  BY DEF Abandon, Forgotten, Up
<1> QED
  BY <1>1, CustodyUnchanged DEF Custody

LEMMA DispatchCustody ==
  ASSUME Shape, Custody, Dispatch
  PROVE  Custody' /\ CustodyStep
<1>1. UNCHANGED custodyVars /\ op' = op /\ op = "none" /\ event' = "none" /\ Up /\ Up'
  BY DEF Dispatch, Shape, Control, Up
<1>2. CASE event = "settingsApplied"
  BY <1>1, <1>2, CustodyUnchanged DEF Dispatch, HandleSettingsApplied, Custody
<1>3. CASE event = "restoreCompleted"
  BY <1>1, <1>3, CustodyUnchanged DEF Dispatch, HandleRestoreCompleted, Custody
<1>4. CASE event \notin {"settingsApplied", "restoreCompleted"}
  <2>1. hasConfigured' = hasConfigured
    BY <1>4 DEF Dispatch, HandleStart, HandleHealthy, Retry, machineVars
  <2> QED
    BY <1>1, <1>4, <2>1, CustodyUnchanged DEF Custody
<1> QED
  BY <1>2, <1>3, <1>4

LEMMA ExecApplyCustody ==
  ASSUME Shape, Custody, ExecApply
  PROVE  Custody' /\ CustodyStep
<1>1. PutBack /\ ~hasConfigured /\ event = "none"
  BY PlanTails DEF ExecApply, Executing, Shape, TypeOK, Control, Custody
<1>2. settings' = settings /\ original' = original
  BY DEF ExecApply
<1>3. PutBack'
  BY <1>1, <1>2 DEF PutBack
<1>4. snapshot' = settings => Faithful'
  <2>1. \A f \in Fields : Restored(settings[f]) = Restored(original[f])
    BY <1>1, ChoicesAreValues, RestoredValues DEF PutBack, Shape, TypeOK
  <2> QED
    BY <1>2, <2>1 DEF Faithful, Shape, TypeOK
<1>5. Backed'
  BY <1>3, <1>4 DEF ExecApply, Backed
<1>6. TakeSnapshot
  BY <1>1, <1>2 DEF ExecApply, TakeSnapshot
<1>7. /\ op' = "apply" /\ ~hasConfigured' /\ event' = "none"
  BY <1>1 DEF ExecApply, machineVars
<1> QED
  BY <1>3, <1>5, <1>6, <1>7 DEF Custody, CustodyStep, CustodyNext

\* Writing one field, forwards or backwards, needs a faithful copy on disk.
LEMMA WriteCustody ==
  ASSUME Shape, Custody, op \in {"apply", "restore"}, next \in DOMAIN snapshot,
         NEW v \in Values, settings' = [settings EXCEPT ![next] = v],
         UNCHANGED <<snapshot, original>>
  PROVE  /\ next \in Fields /\ Faithful /\ Faithful' /\ Backed' /\ CustodyStep
         /\ settings'[next] = v
         /\ \A f \in Fields : f # next => settings'[f] = settings[f]
<1>1. next \in Fields /\ Faithful
  BY SnapshotDomain DEF Shape, TypeOK, Control, Custody, Backed, EmptySnapshot
<1>2. Faithful'
  BY <1>1 DEF Faithful
<1>3. WriteField
  BY <1>1 DEF WriteField
<1>4. settings'[next] = v /\ \A f \in Fields : f # next => settings'[f] = settings[f]
  BY <1>1 DEF Shape, TypeOK
<1> QED
  BY <1>1, <1>2, <1>3, <1>4 DEF Backed, CustodyStep, CustodyNext

LEMMA ApplyFieldCustody ==
  ASSUME Shape, Custody, ApplyField
  PROVE  Custody' /\ CustodyStep
<1>1. Faithful' /\ Backed' /\ CustodyStep
  BY WriteCustody DEF ApplyField, Values
<1>2. op' = "apply" /\ event' = "none" /\ ~hasConfigured'
  BY DEF ApplyField, Shape, Control, machineVars
<1> QED
  BY <1>1, <1>2 DEF Custody

LEMMA ApplyDoneCustody ==
  ASSUME Shape, Custody, ApplyDone
  PROVE  Custody' /\ CustodyStep
<1>1. UNCHANGED custodyVars /\ op' = "none" /\ event' = "settingsApplied" /\ ~hasConfigured'
  BY DEF ApplyDone, Done, Shape, Control, machineVars
<1> QED
  BY <1>1, CustodyUnchanged DEF ApplyDone, Custody

LEMMA ExecRestoreCustody ==
  ASSUME Shape, Custody, ExecRestore
  PROVE  Custody' /\ CustodyStep
<1>1. hasConfigured /\ event = "none" /\ Backed
  BY PlanTails DEF ExecRestore, Executing, Shape, TypeOK, Control, Custody, Replays
<1>2. snapshot # NoSnapshot
  BY <1>1, NoSnapshotAssumption DEF Backed, Faithful
<1>3. /\ op' = "restore" /\ event' = "none" /\ next' = 1 /\ hasConfigured'
      /\ UNCHANGED custodyVars
  BY <1>1, <1>2 DEF ExecRestore, machineVars
<1>4. DOMAIN snapshot \subseteq Fields
  BY <1>2, SnapshotDomain DEF Shape, TypeOK
<1>5. \A f \in DOMAIN snapshot : ~(f < 1)
  BY <1>4 DEF Fields
<1>6. snapshot' = snapshot
  BY <1>3 DEF custodyVars
<1> QED
  BY <1>1, <1>3, <1>5, <1>6, CustodyUnchanged DEF Custody

LEMMA RestoreFieldCustody ==
  ASSUME Shape, Custody, RestoreField
  PROVE  Custody' /\ CustodyStep
<1>1. PICK v \in Values : settings' = [settings EXCEPT ![next] = v]
  <2>1. next \in Fields /\ snapshot \in [Fields -> Values]
    BY SnapshotDomain DEF RestoreField, Shape, TypeOK, Control
  <2> QED
    BY <2>1, RestoredValues DEF RestoreField, Values
<1>2. /\ next \in Fields /\ Faithful /\ Faithful' /\ Backed' /\ CustodyStep
      /\ settings'[next] = v
      /\ \A f \in Fields : f # next => settings'[f] = settings[f]
  BY <1>1, WriteCustody DEF RestoreField
<1>3. op' = "restore" /\ event' = "none" /\ hasConfigured' = hasConfigured /\ (Up <=> Up')
  BY DEF RestoreField, Shape, Control, Up, machineVars
<1>4. snapshot \in [Fields -> Values] /\ snapshot' = snapshot /\ DOMAIN snapshot = Fields
  BY <1>2 DEF RestoreField, Faithful
<1>5. \A f \in Fields : f < next' => settings'[f] = Restored(snapshot[f])
  <2>1. CASE next' = next
    BY <1>2, <1>4, <2>1 DEF Custody, RestoreField, Fields
  <2>2. CASE next' = next + 1 /\ settings' = [settings EXCEPT ![next] = Restored(snapshot[next])]
    <3>1. settings'[next] = Restored(snapshot[next])
      BY <1>2, <2>2 DEF Shape, TypeOK
    <3> QED
      BY <1>2, <1>4, <2>2, <3>1 DEF Custody, RestoreField, Fields
  <2> QED
    BY <2>1, <2>2 DEF RestoreField
<1>6. ~(Up' /\ ~hasConfigured' /\ op' # "apply" /\ event' # "settingsApplied")
  BY <1>3 DEF RestoreField, Shape, Control, Replays
<1> QED
  BY <1>2, <1>3, <1>4, <1>5, <1>6 DEF Custody

\* A restore that has come to its end has written every field back.
LEMMA RestoredIsPutBack ==
  ASSUME Shape, Custody, RestoreDone
  PROVE  PutBack
<1>1. CASE snapshot = EmptySnapshot /\ PutBack
  BY <1>1
<1>2. CASE Faithful
  <2>1. snapshot \in [Fields -> Values] /\ DOMAIN snapshot = Fields
    BY <1>2 DEF Faithful
  <2>2. \A f \in Fields : f < next
    BY <2>1, NFieldsAssumption DEF RestoreDone, Shape, TypeOK, Fields
  <2>3. \A f \in Fields : settings[f] = Restored(original[f])
    BY <1>2, <2>1, <2>2 DEF RestoreDone, Custody, Faithful
  <2> QED
    BY <2>3 DEF PutBack
<1> QED
  BY <1>1, <1>2 DEF RestoreDone, Custody, Backed

LEMMA RestoreDoneCustody ==
  ASSUME Shape, Custody, RestoreDone
  PROVE  Custody' /\ CustodyStep
<1>1. PutBack
  BY RestoredIsPutBack
<1>2. settings' = settings /\ original' = original /\ PutBack'
  BY <1>1 DEF RestoreDone, PutBack
<1>3. CustodyStep
  BY <1>1, <1>2 DEF RestoreDone, CustodyStep, CustodyNext, DropSnapshot, custodyVars
<1>4. /\ op' = "none"
      /\ Up' => event' = "restoreCompleted"
      /\ ~Up' => event' = "none" /\ ~hasConfigured'
  <2>1. CASE phase = "verb"
    BY <2>1 DEF RestoreDone, Shape, Control, Up, machineVars
  <2>2. CASE phase # "verb"
    <3>1. Up
      BY <2>2 DEF RestoreDone, Shape, TypeOK, Control, Up, Phases
    <3> QED
      BY <2>2, <3>1 DEF RestoreDone, Done, Up
  <2> QED
    BY <2>1, <2>2
<1>5. event' # "settingsApplied" /\ (hasConfigured' => event' = "restoreCompleted")
  BY <1>4
<1> QED
  BY <1>2, <1>3, <1>4, <1>5 DEF Custody

LEMMA EnvCustody ==
  ASSUME ~CrashRelaunch, Shape, Custody, Launch \/ RestoreVerb \/ UserEdits
  PROVE  Custody' /\ CustodyStep
<1>1. CASE Launch
  <2>1. PutBack /\ op' = "none" /\ event' = "start" /\ ~hasConfigured' /\ UNCHANGED custodyVars
    BY <1>1 DEF Launch, Shape, Control, Up, machineVars
  <2> QED
    BY <2>1, CustodyUnchanged DEF Custody
<1>2. CASE RestoreVerb
  <2>1. /\ op' = "restore" /\ event' = "none" /\ ~hasConfigured' /\ next' = 1 /\ ~Up'
        /\ UNCHANGED custodyVars /\ ~PutBack /\ snapshot # NoSnapshot
    BY <1>2 DEF RestoreVerb, Shape, Control, Up, machineVars
  <2>2. Faithful /\ Backed
    BY <2>1 DEF Custody, Backed
  <2>3. DOMAIN snapshot \subseteq Fields
    BY <2>1, SnapshotDomain DEF Shape, TypeOK
  <2>4. snapshot' = snapshot /\ \A f \in DOMAIN snapshot : ~(f < 1)
    BY <2>1, <2>3 DEF custodyVars, Fields
  <2> QED
    BY <2>1, <2>2, <2>4, CustodyUnchanged DEF Custody
<1>3. CASE UserEdits
  <2>1. UserChooses /\ op' = "none" /\ event' = "none" /\ ~hasConfigured'
    BY <1>3 DEF UserEdits, Shape, Control, Up, machineVars
  <2>2. PutBack'
    BY <2>1 DEF UserChooses, PutBack
  <2> QED
    BY <2>1, <2>2 DEF Custody, CustodyStep, CustodyNext
<1> QED
  BY <1>1, <1>2, <1>3

LEMMA CustodyKept ==
  ASSUME ~CrashRelaunch, Shape, Custody, [Next]_vars
  PROVE  Custody' /\ CustodyStep
<1>1. CASE \/ ExecLaunch \/ ExecProbe \/ ExecTerminate \/ ExecWait \/ ExecGiveUp
           \/ WatchLoop \/ ReturnFromCheck \/ (ReturnFromStart /\ ~Exit)
           \/ Signal \/ ChildBinds \/ ChildExits \/ OrphanExits
  <2>1. UNCHANGED custodyVars
    BY <1>1 DEF ExecLaunch, ExecProbe, ExecTerminate, ExecWait, ExecGiveUp, WatchLoop,
                ReturnFromCheck, ReturnFromStart, Signal, ChildBinds, ChildExits, OrphanExits
  <2> QED
    BY <1>1, <2>1, QuietCustody
<1>2. CASE Exit \/ Crash \/ Throw
  BY <1>2, AbandonCustody DEF Exit, Crash, Throw
<1>3. CASE \/ Dispatch \/ ExecApply \/ ApplyField \/ ApplyDone
           \/ ExecRestore \/ RestoreField \/ RestoreDone
  BY <1>3, DispatchCustody, ExecApplyCustody, ApplyFieldCustody, ApplyDoneCustody,
     ExecRestoreCustody, RestoreFieldCustody, RestoreDoneCustody
<1>4. CASE Launch \/ RestoreVerb \/ UserEdits
  BY <1>4, EnvCustody
<1>5. CASE UNCHANGED vars
  <2>1. /\ UNCHANGED custodyVars /\ op' = op /\ event' = event /\ next' = next
        /\ hasConfigured' = hasConfigured /\ (Up <=> Up')
        /\ settings' = settings /\ snapshot' = snapshot
    BY <1>5 DEF vars, Up, machineVars, custodyVars
  <2> QED
    BY <2>1, CustodyUnchanged DEF Custody
<1> QED
  BY <1>1, <1>2, <1>3, <1>4, <1>5
  DEF Next, DaemonStep, EnvStep, ReturnFromStop

\* Wherever the daemon dies, the user's settings are untouched or a faithful copy
\* of them is on disk, provided no daemon starts on what another left behind.
THEOREM Recoverability == ~CrashRelaunch => (Spec => []Recoverable)
<1> SUFFICES ASSUME ~CrashRelaunch PROVE Spec => []Recoverable
  OBVIOUS
<1>1. Init => Shape /\ Custody
  BY ShapeInit, CustodyBegins
<1>2. Shape /\ Custody /\ [Next]_vars => (Shape /\ Custody)'
  BY ShapeStep, CustodyKept
<1>3. Custody => Recoverable
  BY DEF Custody, Recoverable
<1> QED
  BY <1>1, <1>2, <1>3, PTL DEF Spec

\* The supervisor implements the custody protocol of ProxyCustody.
THEOREM CustodyRefinement == ~CrashRelaunch => (Spec => CustodySpec)
<1> SUFFICES ASSUME ~CrashRelaunch PROVE Spec => CustodySpec
  OBVIOUS
<1>1. Init => Shape /\ Custody /\ CustodyInit
  BY ShapeInit, CustodyBegins
<1>2. Shape /\ Custody /\ [Next]_vars => (Shape /\ Custody)' /\ [CustodyNext]_custodyVars
  BY ShapeStep, CustodyKept DEF CustodyStep
<1> QED
  BY <1>1, <1>2, PTL DEF Spec, CustodySpec

-----------------------------------------------------------------------------
(* The life of the child, and the end of a run.                             *)

\* The machine's state, the plan in hand and the child agree: a machine that has stopped
\* has nothing left to do but end its child, and no other run is without one unless it
\* is about to launch it.
Flow ==
  /\ state = "stopped" => ~hasConfigured /\ event \in {"none", "start", "stop"}
  /\ state = "stopped" => todo \in {<<>>, TerminatePlan, FailPlan}
  /\ todo \in {TerminatePlan, FailPlan} => state = "stopped"
  /\ state = "stopped" /\ todo = <<>> => ~ChildRunning
  /\ Up /\ Idle => state \in {"stopped", "configured"}
  /\ event = "start" => phase = "start"
  /\ phase = "stop" => state \in {"restoring", "stopped"} \/ event = "stop"
  /\ ~Up => child = "none"
  /\ Up /\ child = "none" => todo \in {LaunchPlan, RelaunchPlan} \/ state = "stopped"

\* A run that ended by itself left the settings put back, and they still are.
EndedWell == phase = "down" /\ exit \in {"clean", "gaveUp"} => PutBack

\* Which plan is in hand when an action is its head, and what is left of it.
LEMMA PlanHeads ==
  ASSUME NEW p \in Plans, p # <<>>
  PROVE  /\ Head(p) = "launch" => p = LaunchPlan /\ Tail(p) = ProbePlan
         /\ Head(p) = "probe" => p = ProbePlan /\ Tail(p) = <<>>
         /\ Head(p) = "wait" => p = RelaunchPlan /\ Tail(p) = LaunchPlan
         /\ Head(p) = "terminate" => \/ p = RestartPlan /\ Tail(p) = RelaunchPlan
                                     \/ p = TerminatePlan /\ Tail(p) = <<>>
         /\ Head(p) = "giveUp" => \/ p = FailPlan /\ Tail(p) = TerminatePlan
                                  \/ p = FailOpenPlan /\ Tail(p) = RestorePlan
BY PlanFacts DEF Plans

\* The two plans of a machine that has stopped are like no other.
LEMMA StoppingPlans ==
  /\ {TerminatePlan, FailPlan}
       \cap {<<>>, LaunchPlan, RelaunchPlan, ProbePlan, ApplyPlan, RestorePlan, RestartPlan,
             FailOpenPlan} = {}
  /\ {LaunchPlan, RelaunchPlan}
       \cap {<<>>, ProbePlan, ApplyPlan, RestorePlan, RestartPlan, FailOpenPlan} = {}
  /\ ProbePlan # <<>> /\ RelaunchPlan # <<>>
<1>1. ProbePlan # <<>> /\ RelaunchPlan # <<>>
  BY DEF ProbePlan, RelaunchPlan
<1>2. TerminatePlan # RestartPlan /\ FailPlan # FailOpenPlan
  BY DEF TerminatePlan, RestartPlan, FailPlan, FailOpenPlan
<1> QED
  BY <1>1, <1>2, PlanFacts, PlansApart

LEMMA FlowInit == Init => Flow
<1> SUFFICES ASSUME Init PROVE Flow
  OBVIOUS
<1>1. <<>> \notin {TerminatePlan, FailPlan}
  BY StoppingPlans
<1> QED
  BY <1>1 DEF Init, Flow, ChildRunning, Up

\* dispatch(): an event finds the machine with nothing in hand, and gives it a plan unless
\* the routing is in place or the machine had stopped.
LEMMA DispatchFlow ==
  ASSUME Shape, Flow, Dispatch
  PROVE  Flow'
<1>1. /\ todo = <<>> /\ event' = "none" /\ op' = "none" /\ Up /\ Up'
      /\ phase' = phase /\ child' = child
  BY DEF Dispatch, Shape, Control, Up, procVars
<1>2. \/ /\ state' \in {"starting", "healthy", "restoring"}
         /\ todo' # <<>> /\ todo' \notin {TerminatePlan, FailPlan}
      \/ state' = "configured" /\ todo' = <<>>
      \/ state' = "stopped" /\ todo' \in {TerminatePlan, FailPlan} /\ ~hasConfigured'
      \/ state = "stopped" /\ UNCHANGED <<machineVars, todo>>
  BY StoppingPlans, PlansApart, Zenon
  DEF Dispatch, HandleStart, HandleHealthy, HandleSettingsApplied, HandleRestoreCompleted,
      Retry, BeginShutdown
<1>3. state = "stopped" \/ child # "none"
  BY <1>1, StoppingPlans DEF Flow
<1>4. state = "stopped" => \/ state' = "starting" /\ todo' = LaunchPlan
                           \/ UNCHANGED <<machineVars, todo>>
  BY DEF Dispatch, HandleStart, HandleRestoreCompleted, Retry, Active
<1>5. phase = "stop" => state' \in {"restoring", "stopped"}
  BY <1>1, Zenon DEF Dispatch, HandleStart, HandleHealthy, HandleSettingsApplied,
       HandleRestoreCompleted, BeginShutdown, Active, Flow, machineVars
<1> QED
  BY <1>1, <1>2, <1>3, <1>4, <1>5, StoppingPlans DEF Flow, Idle, ChildRunning, machineVars

LEMMA ExecuteFlow ==
  ASSUME Shape, Flow, ExecLaunch \/ ExecProbe \/ ExecTerminate \/ ExecWait \/ ExecGiveUp
  PROVE  Flow'
<1>1. /\ todo \in Plans /\ todo # <<>> /\ Up /\ event = "none" /\ op = "none"
      /\ todo' = Tail(todo) /\ op' = op /\ phase' = phase /\ Up'
      /\ state' = state /\ hasConfigured' = hasConfigured
  BY DEF ExecLaunch, ExecProbe, ExecTerminate, ExecWait, ExecGiveUp, Executing, Done, Shape,
         TypeOK, Control, Up, machineVars
<1>2. CASE ExecLaunch
  <2>1. todo = LaunchPlan /\ todo' = ProbePlan /\ child' = "launched" /\ event' = "none"
    BY <1>1, <1>2, PlanHeads DEF ExecLaunch, Executing, Done
  <2> QED
    BY <1>1, <2>1, StoppingPlans, PlansApart DEF Flow, Idle
<1>3. CASE ExecProbe
  <2>1. /\ todo = ProbePlan /\ todo' = <<>> /\ child' = child
        /\ event' \in {"healthy", "healthCheckFailed"}
    BY <1>1, <1>3, PlanHeads DEF ExecProbe, Executing, Done, procVars
  <2> QED
    BY <1>1, <2>1, StoppingPlans DEF Flow, Idle
<1>4. CASE ExecTerminate
  <2>1. /\ event' = "none" /\ child' = IF ChildRunning THEN "none" ELSE child
        /\ \/ todo = RestartPlan /\ todo' = RelaunchPlan
           \/ todo = TerminatePlan /\ todo' = <<>>
    BY <1>1, <1>4, PlanHeads DEF ExecTerminate, Executing, Done
  <2> QED
    BY <1>1, <2>1, StoppingPlans DEF Flow, Idle, ChildRunning
<1>5. CASE ExecWait
  <2>1. todo = RelaunchPlan /\ todo' = LaunchPlan /\ child' = child /\ event' = "none"
    BY <1>1, <1>5, PlanHeads DEF ExecWait, Executing, Done, procVars
  <2> QED
    BY <1>1, <2>1, StoppingPlans, PlansApart DEF Flow, Idle
<1>6. CASE ExecGiveUp
  <2>1. /\ child' = child /\ event' = "none"
        /\ \/ todo = FailPlan /\ todo' = TerminatePlan
           \/ todo = FailOpenPlan /\ todo' = RestorePlan
    BY <1>1, <1>6, PlanHeads DEF ExecGiveUp, Executing, Done, procVars
  <2> QED
    BY <1>1, <2>1, StoppingPlans, PlansApart DEF Flow, Idle
<1> QED
  BY <1>2, <1>3, <1>4, <1>5, <1>6

\* The calls of apply and restore end in an event of their own.
LEMMA SettingsFlow ==
  ASSUME Shape, Flow,
         ExecApply \/ ApplyField \/ ApplyDone \/ ExecRestore \/ RestoreField \/ RestoreDone
  PROVE  Flow'
<1>1. /\ state' = state /\ hasConfigured' = hasConfigured /\ child' = child
      /\ Up => event = "none" /\ todo \in {ApplyPlan, RestorePlan}
  BY PlanTails
  DEF ExecApply, ApplyField, ApplyDone, ExecRestore, RestoreField, RestoreDone, Executing,
      Shape, TypeOK, Control, machineVars, procVars
<1>2. CASE Up
  <2>1. phase' = phase /\ Up'
    BY <1>2 DEF ExecApply, ApplyField, ApplyDone, ExecRestore, RestoreField, RestoreDone, Up
  <2>3. state # "stopped" /\ child # "none"
    BY <1>1, <1>2, StoppingPlans, PlansApart DEF Flow
  <2>2. \/ todo' = todo /\ event' = event
        \/ todo' = <<>> /\ event' \in {"settingsApplied", "restoreCompleted"}
    BY <1>1, <1>2, PlanFacts
    DEF ExecApply, ApplyField, ApplyDone, ExecRestore, RestoreField, RestoreDone, Done, Up
  <2> QED
    BY <1>1, <1>2, <2>1, <2>2, <2>3, StoppingPlans, PlansApart DEF Flow, Idle
<1>3. CASE ~Up
  <2>1. todo = <<>> /\ event = "none" /\ op # "apply" /\ phase \in {"verb", "down"}
    BY <1>3 DEF Shape, TypeOK, Control, Up, Phases
  <2>2. todo' = todo /\ event' = event /\ phase' \in {phase, "down"} /\ ~Up'
    BY <1>3, <2>1
    DEF ExecApply, ApplyField, ApplyDone, ExecRestore, RestoreField, RestoreDone, Executing,
        Shape, Control, Up
  <2> QED
    BY <1>1, <1>3, <2>1, <2>2 DEF Flow, ChildRunning, Up
<1> QED
  BY <1>2, <1>3

\* A process that is gone has nothing in hand and no child.
LEMMA AbandonFlow ==
  ASSUME NEW how, Abandon(how)
  PROVE  Flow'
<1>1. <<>> \notin {TerminatePlan, FailPlan}
  BY StoppingPlans
<1> QED
  BY <1>1 DEF Abandon, Forgotten, Flow, ChildRunning, Up

LEMMA LoopFlow ==
  ASSUME Shape, Flow, (ReturnFromStart /\ ~Exit) \/ ReturnFromCheck \/ WatchLoop
  PROVE  Flow'
<1>1. /\ Idle /\ Up /\ Up' /\ todo' = todo /\ op' = op /\ child' = child
      /\ state' = state /\ hasConfigured' = hasConfigured
      /\ phase' \in {"watch", "check", "stop"}
      /\ event' \in {"none", "stop", "proxyExited"}
      /\ phase' = "stop" => event' = "stop"
      /\ event' = "proxyExited" => state # "stopped"
  BY DEF ReturnFromStart, ReturnFromCheck, WatchLoop, Idle, Shape, Control, Up, machineVars,
         procVars
<1> QED
  BY <1>1 DEF Flow, Idle, ChildRunning

LEMMA EnvFlow ==
  ASSUME Shape, Flow,
         \/ Launch \/ Signal \/ RestoreVerb \/ UserEdits
         \/ ChildBinds \/ ChildExits \/ OrphanExits
  PROVE  Flow'
<1>1. state' = state /\ hasConfigured' = hasConfigured /\ todo' = todo
  BY DEF Launch, Signal, RestoreVerb, UserEdits, ChildBinds, ChildExits, OrphanExits, machineVars
<1>2. CASE Launch \/ RestoreVerb
  <2>1. /\ phase = "down" /\ ~Up /\ state = "stopped" /\ child' = child /\ op = "none"
        /\ \/ phase' = "start" /\ event' = "start" /\ op' = op
           \/ phase' = "verb" /\ event' = event /\ ~Up'
    BY <1>2 DEF Launch, RestoreVerb, Shape, Control, Up, procVars
  <2> QED
    BY <1>1, <2>1 DEF Flow, ChildRunning, Idle
<1>3. CASE Signal \/ UserEdits \/ OrphanExits
  <2>1. phase' = phase /\ event' = event /\ op' = op /\ child' = child
    BY <1>3 DEF Signal, UserEdits, OrphanExits, procVars
  <2> QED
    BY <1>1, <2>1 DEF Flow, ChildRunning, Idle, Up
<1>4. CASE ChildBinds \/ ChildExits
  <2>1. /\ phase' = phase /\ event' = event /\ op' = op
        /\ child \in {"launched", "listening"} /\ child' \in {"listening", "exited"}
        /\ child = "listening" => child' = "exited"
    BY <1>4 DEF ChildBinds, ChildExits, ChildRunning
  <2>2. Up /\ ~(state = "stopped" /\ todo = <<>>)
    BY <2>1 DEF Flow, ChildRunning
  <2> QED
    BY <1>1, <2>1, <2>2 DEF Flow, ChildRunning, Idle, Up
<1> QED
  BY <1>2, <1>3, <1>4

LEMMA FlowStep ==
  ASSUME Shape, Flow, [Next]_vars
  PROVE  Flow'
<1>1. CASE UNCHANGED vars
  BY <1>1 DEF vars, Flow, ChildRunning, Idle, Up, machineVars, procVars
<1>2. CASE Exit \/ Crash \/ Throw
  BY <1>2, AbandonFlow DEF Exit, Crash, Throw
<1>3. CASE Dispatch
  BY <1>3, DispatchFlow
<1>4. CASE ExecLaunch \/ ExecProbe \/ ExecTerminate \/ ExecWait \/ ExecGiveUp
  BY <1>4, ExecuteFlow
<1>5. CASE ExecApply \/ ApplyField \/ ApplyDone \/ ExecRestore \/ RestoreField \/ RestoreDone
  BY <1>5, SettingsFlow
<1>6. CASE (ReturnFromStart /\ ~Exit) \/ ReturnFromCheck \/ WatchLoop
  BY <1>6, LoopFlow
<1>7. CASE \/ Launch \/ Signal \/ RestoreVerb \/ UserEdits
           \/ ChildBinds \/ ChildExits \/ OrphanExits
  BY <1>7, EnvFlow
<1> QED
  BY <1>1, <1>2, <1>3, <1>4, <1>5, <1>6, <1>7, Zenon
  DEF Next, DaemonStep, EnvStep, ReturnFromStop

\* A run has no proxy of its own left, and the settings are put back, whenever start() or
\* stop() returns to the end of the process.
LEMMA ExitClean ==
  ASSUME Shape, Custody, Flow,
         (ReturnFromStart /\ state # "configured") \/ ReturnFromStop
  PROVE  PutBack /\ ~ChildRunning
<1>1. Idle /\ Up /\ state = "stopped"
  BY DEF ReturnFromStart, ReturnFromStop, Flow, Idle, Up
<1> QED
  BY <1>1 DEF Flow, Custody, Idle

LEMMA EndedWellStep ==
  ASSUME ~CrashRelaunch, Shape, Custody, Flow, EndedWell, [Next]_vars
  PROVE  /\ EndedWell'
         /\ phase' = "down" /\ exit' \in {"clean", "gaveUp"} /\ phase # "verb"
              => PutBack' /\ (orphan' => orphan)
<1>1. UNCHANGED <<settings, original>> => (PutBack' <=> PutBack)
  BY DEF PutBack
<1>2. CASE (ReturnFromStart /\ state # "configured") \/ ReturnFromStop
  <2>1. PutBack /\ ~ChildRunning
    BY <1>2, ExitClean
  <2>2. UNCHANGED <<settings, original>> /\ orphan' = orphan
    BY <1>2, <2>1 DEF ReturnFromStart, ReturnFromStop, Exit, Abandon, custodyVars
  <2> QED
    BY <1>1, <2>1, <2>2 DEF EndedWell
<1>3. CASE Crash \/ Throw
  BY <1>3 DEF Crash, Throw, Abandon, EndedWell
<1>4. CASE UserEdits
  <2>1. PutBack' /\ orphan' = orphan
    BY <1>4 DEF UserEdits, UserChooses, PutBack, procVars
  <2> QED
    BY <2>1 DEF EndedWell
<1>5. CASE OrphanExits \/ UNCHANGED vars
  <2>1. /\ UNCHANGED <<settings, original>> /\ phase' = phase /\ exit' = exit
        /\ orphan' => orphan
    BY <1>5 DEF OrphanExits, vars, procVars, custodyVars
  <2> QED
    BY <1>1, <2>1 DEF EndedWell
<1>6. CASE RestoreDone
  <2>1. CASE phase = "verb"
    <3>1. PutBack'
      BY <1>1, <1>6, RestoredIsPutBack DEF RestoreDone
    <3> QED
      BY <2>1, <3>1 DEF EndedWell
  <2>2. CASE phase # "verb"
    <3>1. phase' # "down"
      BY <1>6, <2>2 DEF RestoreDone, Shape, Control
    <3> QED
      BY <3>1 DEF EndedWell
  <2> QED
    BY <2>1, <2>2
<1>7. CASE Launch \/ RestoreVerb
  BY <1>7 DEF Launch, RestoreVerb, EndedWell
<1>8. CASE \/ Dispatch \/ ExecLaunch \/ ExecProbe \/ ExecTerminate \/ ExecWait \/ ExecGiveUp
           \/ ExecApply \/ ApplyField \/ ApplyDone \/ ExecRestore \/ RestoreField
           \/ (ReturnFromStart /\ state = "configured") \/ ReturnFromCheck \/ WatchLoop
           \/ Signal \/ ChildBinds \/ ChildExits
  <2>1. phase # "down" /\ phase' # "down"
    BY <1>8
    DEF Dispatch, ExecLaunch, ExecProbe, ExecTerminate, ExecWait, ExecGiveUp, ExecApply,
        ApplyField, ApplyDone, ExecRestore, RestoreField, ReturnFromStart, ReturnFromCheck,
        WatchLoop, Signal, ChildBinds, ChildExits, Executing, ChildRunning, Shape, Control,
        Flow, Up
  <2> QED
    BY <2>1 DEF EndedWell
<1> QED
  BY <1>2, <1>3, <1>4, <1>5, <1>6, <1>7, <1>8, Zenon DEF Next, DaemonStep, EnvStep

\* What the theorems below stand on, for daemons relaunched on settings that were put back.
Inv == Shape /\ Custody /\ Flow /\ EndedWell

LEMMA InvAlways == ~CrashRelaunch => (Spec => []Inv)
<1> SUFFICES ASSUME ~CrashRelaunch PROVE Spec => []Inv
  OBVIOUS
<1>1. Init => Inv
  BY ShapeInit, CustodyBegins, FlowInit DEF Inv, EndedWell, Init
<1>2. Inv /\ [Next]_vars => Inv'
  BY ShapeStep, CustodyKept, FlowStep, EndedWellStep DEF Inv
<1> QED
  BY <1>1, <1>2, PTL DEF Spec

\* Nothing of the user's reads as the daemon's listener.
LEMMA PutBackIsNotRouted == Shape /\ PutBack => ~Routed
<1> SUFFICES ASSUME Shape, PutBack, NEW f \in Fields PROVE settings[f] # "ours"
  BY DEF Routed
<1>1. original[f] \in {"user", "held", "off"}
  BY DEF Shape, TypeOK, Choices
<1> QED
  BY <1>1 DEF PutBack, Restored

\* Traffic never points at a proxy the daemon has killed, unless the next one is about to
\* be launched (the machine's second ordering rule: restore before terminate).
THEOREM NeverStranded == ~CrashRelaunch => (Spec => []NoStranding)
<1> SUFFICES ASSUME ~CrashRelaunch PROVE Spec => []NoStranding
  OBVIOUS
<1>1. Inv => NoStranding
  <2> SUFFICES ASSUME Inv, Up, child = "none", todo \notin {LaunchPlan, RelaunchPlan}
               PROVE  ~Routed
    BY DEF NoStranding, Up
  <2>1. ~hasConfigured /\ event # "settingsApplied" /\ todo \in {<<>>, TerminatePlan, FailPlan}
    BY DEF Inv, Flow
  <2>2. op # "apply"
    BY <2>1, StoppingPlans, PlansApart DEF Inv, Shape, Control
  <2> QED
    BY <2>1, <2>2, PutBackIsNotRouted DEF Inv, Custody
<1> QED
  BY <1>1, InvAlways, PTL

\* A run that ends by itself, stopped or giving up, leaves the user's settings behind and
\* no proxy of its own: start(), checkLiveness() and stop() return only once the plan that
\* puts them back is worked off.
THEOREM EndsPutBack == ~CrashRelaunch => (Spec => StopRestores)
<1> SUFFICES ASSUME ~CrashRelaunch PROVE Spec => StopRestores
  OBVIOUS
<1>1. Inv /\ [Next]_vars =>
        [phase' = "down" /\ exit' \in {"clean", "gaveUp"} /\ phase # "verb"
           => PutBack' /\ (orphan' => orphan)]_vars
  BY EndedWellStep DEF Inv
<1> QED
  BY <1>1, InvAlways, PTL DEF Spec, StopRestores

=============================================================================
