------------------------------ MODULE Protection ------------------------------
(***************************************************************************)
(* The protection mode of the Android app and the list of apps the user    *)
(* asked to be kept out of: ProtectionSchedule and CustomApps (pure),      *)
(* ProtectionStore (SharedPreferences), CustomAppStore (a file replaced    *)
(* atomically) and the button of MainActivity that drives the mode.        *)
(*                                                                         *)
(* Both schedules measure with elapsedRealtime, here `uptime`, which a     *)
(* reboot sets back to zero. `now` is the time that really passed: the     *)
(* code never reads it, the properties do. A stored time is a stamp: `at`  *)
(* is what the code stores, `on` the instant it was stored.                *)
(***************************************************************************)
EXTENDS Naturals

CONSTANTS
  Cooldown,       (* ProtectionSchedule.COOLDOWN_MILLIS      *)
  ReadyWindow,    (* ProtectionSchedule.READY_WINDOW_MILLIS  *)
  DisarmWindow,   (* ProtectionSchedule.DISARM_WINDOW_MILLIS *)
  Apps,           (* package names *)
  NeverApps,      (* those that are protected or rated NEVER *)
  None,           (* no value stored under the key *)
  MaxNow,         (* bound on the time that passes *)
  MaxDowntime     (* bound on the time a reboot takes *)

ASSUME WindowsAssumption ==
  Cooldown \in Nat \ {0} /\ ReadyWindow \in Nat \ {0} /\ DisarmWindow \in Nat \ {0}
ASSUME NeverAssumption == NeverApps \subseteq Apps
ASSUME TimeAssumption == MaxNow \in Nat /\ MaxDowntime \in Nat

Stamps == [at : Nat, on : Nat]
\* A confirmed disarm also remembers when the request it rests on was made.
Grants == [at : Nat, on : Nat, asked : Nat]

ASSUME NoneAssumption == None \notin Stamps \cup Grants

VARIABLES
  now, uptime, bootedOn,   (* real time, elapsedRealtime, real time of the boot *)
  prefs,      (* the SharedPreferences map every reader sees *)
  disk,       (* the preference file: apply() writes it later *)
  shown,      (* the phase MainActivity.refresh last drew and bound its button to *)
  list        (* the custom app file: apps and removal requests *)

clockVars == <<now, uptime, bootedOn>>
protectionVars == <<clockVars, prefs, disk, shown, list>>

Phases == {"OFF", "ARMED", "DISARM_PENDING", "DISARM_READY", "DISARMED"}
Modes == [armed : BOOLEAN, requested : Stamps \cup {None}, disarmed : Grants \cup {None}]
Lists == [apps : SUBSET Apps, removals : [Apps -> Stamps \cup {None}]]

ProtectionTypeOK ==
  /\ now \in Nat /\ uptime \in Nat /\ bootedOn \in Nat
  /\ prefs \in Modes
  /\ disk \in Modes
  /\ shown \in Phases \cup {"none"}
  /\ list \in Lists

ProtectionInit ==
  /\ now = 0 /\ uptime = 0 /\ bootedOn = 0
  /\ prefs = [armed |-> FALSE, requested |-> None, disarmed |-> None]
  /\ disk = prefs
  /\ shown = "none"
  /\ list = [apps |-> {}, removals |-> [a \in Apps |-> None]]

-----------------------------------------------------------------------------
(* ProtectionSchedule.evaluate *)

\* Seeded fault: the cooldown is over one tick early.
RequestPhaseEarly(r, t) ==
  IF r = None \/ t < r.at THEN "ARMED"
  ELSE IF t + 1 < r.at + Cooldown THEN "DISARM_PENDING"
  ELSE IF t < r.at + Cooldown + ReadyWindow THEN "DISARM_READY"
  ELSE "ARMED"

\* Seeded fault: an unconfirmed request never expires.
RequestPhaseForever(r, t) ==
  IF r = None \/ t < r.at THEN "ARMED"
  ELSE IF t < r.at + Cooldown THEN "DISARM_PENDING"
  ELSE "DISARM_READY"

\* A request in the future was made before a reboot and counts for nothing.
RequestPhase(r, t) ==
  IF r = None \/ t < r.at THEN "ARMED"
  ELSE IF t < r.at + Cooldown THEN "DISARM_PENDING"
  ELSE IF t < r.at + Cooldown + ReadyWindow THEN "DISARM_READY"
  ELSE "ARMED"

\* A disarm in the future was confirmed before a reboot; until the uptime gets there
\* it counts for nothing.
WindowOpen(d, t) == d # None /\ d.at <= t /\ t < d.at + DisarmWindow

EvaluateMode(mode, t) ==
  IF ~mode.armed THEN "OFF"
  ELSE IF WindowOpen(mode.disarmed, t) THEN "DISARMED"
  ELSE RequestPhase(mode.requested, t)

Phase == EvaluateMode(prefs, uptime)
Guarding(phase) == phase \in {"ARMED", "DISARM_PENDING", "DISARM_READY"}

-----------------------------------------------------------------------------
(* ProtectionStore and the button of MainActivity. Nothing runs at the     *)
(* instant of the boot itself.                                             *)

Awake == uptime > 0

\* refresh() after the tap rebinds the button to the phase it reads.
Refreshed == shown' = EvaluateMode(prefs', uptime)

Refresh ==
  /\ Awake
  /\ shown' = Phase
  /\ UNCHANGED <<clockVars, prefs, disk, list>>

\* The button acts on the phase it was drawn with, which may have passed.
Arm ==
  /\ Awake /\ shown \in {"OFF", "DISARMED"}
  /\ prefs' = [armed |-> TRUE, requested |-> None, disarmed |-> None]
  /\ Refreshed
  /\ UNCHANGED <<clockVars, disk, list>>

RequestDisarm ==
  /\ Awake /\ shown = "ARMED"
  /\ prefs' = IF Phase = "ARMED"
                THEN [prefs EXCEPT !.requested = [at |-> uptime, on |-> now]]
                ELSE prefs
  /\ Refreshed
  /\ UNCHANGED <<clockVars, disk, list>>

ConfirmDisarm ==
  /\ Awake /\ shown = "DISARM_READY"
  /\ prefs' = IF Phase = "DISARM_READY"
                THEN [prefs EXCEPT !.requested = None,
                        !.disarmed = [at |-> uptime, on |-> now, asked |-> prefs.requested.on]]
                ELSE prefs
  /\ Refreshed
  /\ UNCHANGED <<clockVars, disk, list>>

CancelDisarm ==
  /\ Awake /\ shown \in {"DISARM_PENDING", "DISARM_READY"}
  /\ prefs' = [prefs EXCEPT !.requested = None]
  /\ Refreshed
  /\ UNCHANGED <<clockVars, disk, list>>

-----------------------------------------------------------------------------
(* CustomAppStore *)

\* CustomApps.removalPhase differs from a disarm request only in its names.
Live(a, t) == RequestPhase(list.removals[a], t) # "ARMED"

Pruned ==
  [list EXCEPT !.removals =
     [a \in Apps |-> IF a \in list.apps /\ Live(a, uptime) THEN list.removals[a] ELSE None]]

\* Each operation reads and prunes, which may write, and then writes its result;
\* a write that fails leaves the file it would have replaced.
Rewrite(new) ==
  /\ Awake
  /\ list' \in {list, Pruned, new}
  /\ UNCHANGED <<clockVars, prefs, disk, shown>>

ReadApps == Rewrite(Pruned)

AddApp(a) ==
  /\ a \notin NeverApps
  /\ Rewrite([apps |-> Pruned.apps \cup {a},
              removals |-> [Pruned.removals EXCEPT ![a] = None]])

RequestRemoval(a) ==
  /\ a \in list.apps
  /\ Pruned.removals[a] = None
  /\ Rewrite([Pruned EXCEPT !.removals[a] = [at |-> uptime, on |-> now]])

\* cancelRemoval alone does not prune.
CancelRemoval(a) ==
  /\ Awake
  /\ list' \in {list, [list EXCEPT !.removals[a] = None]}
  /\ UNCHANGED <<clockVars, prefs, disk, shown>>

\* Seeded fault: any live request may be confirmed.
ConfirmRemovalLive(a) ==
  /\ a \in list.apps
  /\ Live(a, uptime)
  /\ Rewrite([apps |-> Pruned.apps \ {a}, removals |-> [Pruned.removals EXCEPT ![a] = None]])

ConfirmRemoval(a) ==
  /\ a \in list.apps
  /\ RequestPhase(list.removals[a], uptime) = "DISARM_READY"
  /\ Rewrite([apps |-> Pruned.apps \ {a}, removals |-> [Pruned.removals EXCEPT ![a] = None]])

-----------------------------------------------------------------------------
(* Time, the preference file and the ends of the process *)

Tick ==
  /\ now < MaxNow
  /\ now' = now + 1
  /\ uptime' = uptime + 1
  /\ UNCHANGED <<bootedOn, prefs, disk, shown, list>>

\* SharedPreferences writes what apply() left in memory.
Flush ==
  /\ disk' = prefs
  /\ UNCHANGED <<clockVars, prefs, shown, list>>

\* The process is killed and started again: what was not flushed is lost.
ProcessRestart ==
  /\ prefs' = disk
  /\ shown' = "none"
  /\ UNCHANGED <<clockVars, disk, list>>

PhoneReboot ==
  /\ now' \in (now + 1)..(now + MaxDowntime)
  /\ now' <= MaxNow
  /\ uptime' = 0
  /\ bootedOn' = now'
  /\ prefs' = disk
  /\ shown' = "none"
  /\ UNCHANGED <<disk, list>>

\* Settings deletes the app's files and kills it.
ClearData ==
  /\ prefs' = [armed |-> FALSE, requested |-> None, disarmed |-> None]
  /\ disk' = prefs'
  /\ shown' = "none"
  /\ list' = [apps |-> {}, removals |-> [a \in Apps |-> None]]
  /\ UNCHANGED clockVars

ProtectionNext ==
  \/ Refresh \/ Arm \/ RequestDisarm \/ ConfirmDisarm \/ CancelDisarm
  \/ ReadApps
  \/ \E a \in Apps : AddApp(a) \/ RequestRemoval(a) \/ CancelRemoval(a) \/ ConfirmRemoval(a)
  \/ Tick \/ Flush \/ ProcessRestart \/ PhoneReboot \/ ClearData

ProtectionSpec == ProtectionInit /\ [][ProtectionNext]_protectionVars

-----------------------------------------------------------------------------
(* Properties *)

\* A disarm in force, the one of an earlier boot included, rests on a request that
\* had waited the whole cooldown in real time (ProtectionStore.confirmDisarm).
Served(disarm) == disarm.on >= disarm.asked + Cooldown
CooldownServed == Phase = "DISARMED" => Served(prefs.disarmed)

\* A guard that is up falls in five ways only: by a confirmation; with all data of
\* the app; with a process that dies before its last writes reach the disk, as the
\* one that armed does; at a boot only if that left the mode off on disk; and of
\* itself only where the uptime reaches the stamp of a disarm of an earlier boot.
\* Whenever a disarm is then in force, its request had waited the whole cooldown.
FallsAreServed ==
  [][(Guarding(Phase) /\ ~Guarding(Phase')) =>
       /\ Phase' = "DISARMED" => Served(prefs'.disarmed)
       /\ \/ ConfirmDisarm \/ ClearData
          \/ ProcessRestart /\ disk # prefs
          \/ PhoneReboot /\ ~disk.armed
          \/ Tick /\ prefs.disarmed.on <= bootedOn]_protectionVars

\* What ProtectionSchedule.kt:74-79 and its comment in evaluate promise: a disarm of
\* an earlier boot is spent. The code finds it spent only until the uptime reaches
\* its stamp, and this does not hold.
RebootVoids == Phase = "DISARMED" => prefs.disarmed.on > bootedOn

\* Within one boot a request buys one window and nothing after it expired: from
\* the request to the end of the window no more than the three periods pass, even
\* if the process dies with the confirmation not yet on disk.
OneCooldownOneWindow ==
  (Phase = "DISARMED" /\ prefs.disarmed.asked > bootedOn)
    => now < prefs.disarmed.asked + Cooldown + ReadyWindow + DisarmWindow

\* A reboot never comes up unguarded, even out of an open window or with one on
\* disk that would still be running (ProtectionSchedule.evaluate).
RebootGuards ==
  [][(uptime' < uptime /\ prefs'.armed) => Guarding(EvaluateMode(prefs', uptime'))]_protectionVars

\* An app leaves the list only when its removal was requested a whole cooldown
\* of real time before, unless all data is cleared (CustomApps.confirmRemoval).
RemovalServed ==
  [][\A a \in list.apps \ list'.apps :
       \/ ClearData
       \/ list.removals[a] # None /\ now >= list.removals[a].on + Cooldown]_protectionVars

=============================================================================
