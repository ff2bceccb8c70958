--------------------------- MODULE Protection_proofs ---------------------------
(***************************************************************************)
(* Proofs about Protection for every length of the cooldown and of the two *)
(* windows, every set of apps and any number of reboots. The argument is   *)
(* about stamps: one made in this boot is exactly as old as the uptime     *)
(* says, and one from an earlier boot is older than the uptime.            *)
(***************************************************************************)
EXTENDS Protection, TLAPS

ClockOK == now \in Nat /\ uptime \in Nat /\ bootedOn \in Nat /\ now = bootedOn + uptime

StampOK(s) ==
  /\ s.at > 0
  /\ s.on <= now
  /\ s.on > bootedOn => s.on = bootedOn + s.at

GrantOK(g) ==
  /\ StampOK(g)
  /\ g.on >= g.asked + Cooldown
  /\ g.asked > bootedOn => g.on < g.asked + Cooldown + ReadyWindow

ModeOK(m) ==
  /\ m \in Modes
  /\ m.requested # None => StampOK(m.requested)
  /\ m.disarmed # None => GrantOK(m.disarmed)

ListOK(l) ==
  /\ l \in Lists
  /\ \A a \in Apps : l.removals[a] # None => StampOK(l.removals[a])

Stamped ==
  /\ ClockOK
  /\ ModeOK(prefs)
  /\ ModeOK(disk)
  /\ shown \in Phases \cup {"none"}
  /\ ListOK(list)

-----------------------------------------------------------------------------
(* Facts about the pure schedule *)

LEMMA ModeFields ==
  ASSUME NEW m \in Modes
  PROVE  /\ m.armed \in BOOLEAN
         /\ m.requested # None => m.requested \in Stamps
         /\ m.disarmed # None => m.disarmed \in Grants
         /\ None \notin Stamps /\ None \notin Grants
BY NoneAssumption DEF Modes

LEMMA EvaluatePhases ==
  ASSUME NEW m, NEW t
  PROVE  EvaluateMode(m, t) \in Phases
BY DEF EvaluateMode, RequestPhase, Phases

\* The guard is up in a mode that is armed and has no disarm in force.
LEMMA GuardUp ==
  ASSUME NEW m, m.armed \in BOOLEAN, NEW t
  PROVE  Guarding(EvaluateMode(m, t)) <=> m.armed /\ ~WindowOpen(m.disarmed, t)
BY DEF Guarding, EvaluateMode, RequestPhase

LEMMA NewStamp ==
  ASSUME ClockOK, Awake
  PROVE  [at |-> uptime, on |-> now] \in Stamps /\ StampOK([at |-> uptime, on |-> now])
BY DEF ClockOK, Awake, Stamps, StampOK

\* A request that has matured on the uptime clock has waited in real time.
LEMMA MaturedIsServed ==
  ASSUME ClockOK, NEW s \in Stamps, StampOK(s), RequestPhase(s, uptime) = "DISARM_READY"
  PROVE  /\ now >= s.on + Cooldown
         /\ s.on > bootedOn => now < s.on + Cooldown + ReadyWindow
<1>1. s.at \in Nat /\ s.on \in Nat /\ Cooldown \in Nat /\ ReadyWindow \in Nat
  BY WindowsAssumption DEF Stamps
<1>2. uptime >= s.at + Cooldown /\ uptime < s.at + Cooldown + ReadyWindow
  BY <1>1 DEF RequestPhase, ClockOK
<1>3. CASE s.on > bootedOn
  BY <1>1, <1>2, <1>3 DEF StampOK, ClockOK
<1>4. CASE ~(s.on > bootedOn)
  BY <1>1, <1>2, <1>4 DEF StampOK, ClockOK
<1> QED
  BY <1>3, <1>4

\* Time that passes and reboots keep what is known of the stamps.
LEMMA StampsAge ==
  ASSUME ClockOK, now' \in Nat, bootedOn' \in Nat, now' >= now,
         bootedOn' = bootedOn \/ bootedOn' >= now
  PROVE  /\ \A s \in Stamps : StampOK(s) => StampOK(s)'
         /\ \A g \in Grants : GrantOK(g) => GrantOK(g)'
<1>1. \A s : s.on \in Nat /\ s.at \in Nat /\ StampOK(s) => StampOK(s)'
  BY DEF StampOK, ClockOK
<1>2. \A s \in Stamps : StampOK(s) => StampOK(s)'
  BY <1>1 DEF Stamps
<1>3. \A g \in Grants : GrantOK(g) => GrantOK(g)'
  BY <1>1, WindowsAssumption DEF Grants, GrantOK, ClockOK, StampOK
<1> QED
  BY <1>2, <1>3

LEMMA ModesAge ==
  ASSUME ClockOK, now' \in Nat, bootedOn' \in Nat, now' >= now,
         bootedOn' = bootedOn \/ bootedOn' >= now
  PROVE  /\ ModeOK(prefs) /\ prefs' = prefs => ModeOK(prefs)'
         /\ ModeOK(disk) /\ prefs' = disk => ModeOK(prefs)'
         /\ ModeOK(disk) /\ disk' = disk => ModeOK(disk)'
         /\ ModeOK(prefs) /\ disk' = prefs => ModeOK(disk)'
         /\ ListOK(list) /\ list' = list => ListOK(list)'
<1>1. /\ \A s \in Stamps : StampOK(s) => StampOK(s)'
      /\ \A g \in Grants : GrantOK(g) => GrantOK(g)'
  BY StampsAge
<1>2. \A m \in Modes : (m.requested # None => m.requested \in Stamps)
                       /\ (m.disarmed # None => m.disarmed \in Grants)
  BY DEF Modes
<1>3. \A l \in Lists : \A a \in Apps : l.removals[a] # None => l.removals[a] \in Stamps
  BY DEF Lists
<1>4. ListOK(list) /\ list' = list => ListOK(list)'
  BY <1>1, <1>3 DEF ListOK
<1>5. /\ ModeOK(prefs) /\ prefs' = prefs => ModeOK(prefs)'
      /\ ModeOK(disk) /\ prefs' = disk => ModeOK(prefs)'
  BY <1>1, <1>2 DEF ModeOK
<1>6. /\ ModeOK(disk) /\ disk' = disk => ModeOK(disk)'
      /\ ModeOK(prefs) /\ disk' = prefs => ModeOK(disk)'
  BY <1>1, <1>2 DEF ModeOK
<1> QED
  BY <1>4, <1>5, <1>6

\* A fresh install knows no stamps.
LEMMA EmptyOK ==
  /\ ModeOK([armed |-> FALSE, requested |-> None, disarmed |-> None])
  /\ ModeOK([armed |-> TRUE, requested |-> None, disarmed |-> None])
  /\ ListOK([apps |-> {}, removals |-> [a \in Apps |-> None]])
BY DEF ModeOK, Modes, ListOK, Lists

LEMMA StampedInit == ProtectionInit => Stamped
<1> SUFFICES ASSUME ProtectionInit PROVE Stamped
  OBVIOUS
<1>1. ModeOK(prefs) /\ ModeOK(disk) /\ ListOK(list)
  BY EmptyOK DEF ProtectionInit
<1> QED
  BY <1>1 DEF ProtectionInit, Stamped, ClockOK, Phases

-----------------------------------------------------------------------------
(* One lemma per group of actions *)

\* The steps of the button that write what they were told to.
LEMMA ModeStep ==
  ASSUME Stamped, Arm \/ RequestDisarm \/ ConfirmDisarm \/ CancelDisarm
  PROVE  ModeOK(prefs)'
<1>1. ModeOK(prefs) /\ ClockOK /\ UNCHANGED clockVars
  BY DEF Stamped, Arm, RequestDisarm, ConfirmDisarm, CancelDisarm
<1>2. now' = now /\ bootedOn' = bootedOn
  BY <1>1 DEF clockVars
<1> DEFINE Same(m) == m \in Modes /\ (m.requested # None => StampOK(m.requested))
                      /\ (m.disarmed # None => GrantOK(m.disarmed))
<1>3. SUFFICES Same(prefs')
  <2>1. \A s : StampOK(s) <=> StampOK(s)'
    BY <1>2 DEF StampOK
  <2>2. \A g : GrantOK(g) <=> GrantOK(g)'
    BY <1>2, <2>1 DEF GrantOK
  <2> QED
    BY <2>1, <2>2 DEF ModeOK
<1>4. CASE prefs' = prefs
  BY <1>1, <1>4 DEF ModeOK
<1>5. CASE prefs' = [armed |-> TRUE, requested |-> None, disarmed |-> None]
  BY <1>5, EmptyOK DEF ModeOK
<1>6. CASE /\ Awake
           /\ prefs' = [prefs EXCEPT !.requested = [at |-> uptime, on |-> now]]
  <2>1. [at |-> uptime, on |-> now] \in Stamps /\ StampOK([at |-> uptime, on |-> now])
    BY <1>1, <1>6, NewStamp
  <2> QED
    BY <1>1, <1>6, <2>1 DEF ModeOK, Modes
<1>7. CASE prefs' = [prefs EXCEPT !.requested = None]
  BY <1>1, <1>7, NoneAssumption DEF ModeOK, Modes
<1>8. CASE ConfirmDisarm /\ Phase = "DISARM_READY"
  <2> DEFINE r == prefs.requested
             g == [at |-> uptime, on |-> now, asked |-> r.on]
  <2>1. RequestPhase(r, uptime) = "DISARM_READY"
    BY <1>8 DEF Phase, EvaluateMode
  <2>2. r # None
    BY <2>1 DEF RequestPhase
  <2>3. r \in Stamps /\ StampOK(r)
    BY <1>1, <2>2 DEF ModeOK, Modes
  <2>4. now >= r.on + Cooldown /\ (r.on > bootedOn => now < r.on + Cooldown + ReadyWindow)
    BY <1>1, <2>1, <2>3, MaturedIsServed
  <2>5. g \in Grants /\ StampOK(g)
    BY <1>1, <1>8, <2>3 DEF ConfirmDisarm, Awake, Grants, Stamps, StampOK, ClockOK
  <2>6. GrantOK(g)
    BY <2>4, <2>5 DEF GrantOK
  <2>7. prefs' = [prefs EXCEPT !.requested = None, !.disarmed = g]
    BY <1>8 DEF ConfirmDisarm
  <2> HIDE DEF g, r
  <2>8. prefs' \in Modes /\ prefs'.requested = None /\ prefs'.disarmed = g
    BY <1>1, <2>5, <2>7 DEF ModeOK, Modes
  <2> QED
    BY <2>6, <2>8
<1> QED
  BY <1>4, <1>5, <1>6, <1>7, <1>8
  DEF Arm, RequestDisarm, ConfirmDisarm, CancelDisarm

\* Every write of the app file leaves known stamps behind.
LEMMA ListStep ==
  ASSUME Stamped,
         ReadApps \/ \E a \in Apps : AddApp(a) \/ RequestRemoval(a) \/ CancelRemoval(a)
                                     \/ ConfirmRemoval(a)
  PROVE  ListOK(list)' /\ UNCHANGED <<clockVars, prefs, disk, shown>>
<1>1. ListOK(list) /\ ClockOK
  BY DEF Stamped
<1>2. UNCHANGED <<clockVars, prefs, disk, shown>> /\ Awake
  BY DEF ReadApps, AddApp, RequestRemoval, CancelRemoval, ConfirmRemoval, Rewrite
<1> DEFINE Same(l) == l \in Lists /\ \A a \in Apps : l.removals[a] # None => StampOK(l.removals[a])
<1>3. SUFFICES Same(list')
  <2>1. \A s : StampOK(s) <=> StampOK(s)'
    BY <1>2 DEF StampOK, clockVars
  <2> QED
    BY <1>2, <2>1 DEF ListOK
<1>4. Same(list)
  BY <1>1 DEF ListOK
<1>5. Same(Pruned)
  BY <1>4, NoneAssumption DEF Pruned, Lists
<1>6. ASSUME NEW l, Same(l), NEW a \in Apps, NEW s \in Stamps \cup {None}, s # None => StampOK(s),
             NEW A \in SUBSET Apps
      PROVE  Same([apps |-> A, removals |-> [l.removals EXCEPT ![a] = s]])
  BY <1>6 DEF Lists
<1>7. ASSUME NEW l, Same(l), NEW a \in Apps, NEW s \in Stamps \cup {None}, s # None => StampOK(s)
      PROVE  Same([l EXCEPT !.removals[a] = s])
  BY <1>7 DEF Lists
<1>8. [at |-> uptime, on |-> now] \in Stamps /\ StampOK([at |-> uptime, on |-> now])
  BY <1>1, <1>2, NewStamp
<1>9. Pruned.apps \in SUBSET Apps
  BY <1>5 DEF Lists
<1> HIDE DEF Same
<1>10. CASE ReadApps
  BY <1>4, <1>5, <1>10 DEF ReadApps, Rewrite
<1>11. ASSUME NEW a \in Apps, AddApp(a) PROVE Same(list')
  <2>1. Same([apps |-> Pruned.apps \cup {a}, removals |-> [Pruned.removals EXCEPT ![a] = None]])
    BY <1>5, <1>6, <1>9
  <2> QED
    BY <1>4, <1>5, <1>11, <2>1 DEF AddApp, Rewrite
<1>12. ASSUME NEW a \in Apps, ConfirmRemoval(a) PROVE Same(list')
  <2>1. Same([apps |-> Pruned.apps \ {a}, removals |-> [Pruned.removals EXCEPT ![a] = None]])
    BY <1>5, <1>6, <1>9
  <2> QED
    BY <1>4, <1>5, <1>12, <2>1 DEF ConfirmRemoval, Rewrite
<1>13. ASSUME NEW a \in Apps, RequestRemoval(a) PROVE Same(list')
  <2>1. Same([Pruned EXCEPT !.removals[a] = [at |-> uptime, on |-> now]])
    BY <1>5, <1>7, <1>8
  <2> QED
    BY <1>4, <1>5, <1>13, <2>1 DEF RequestRemoval, Rewrite
<1>14. ASSUME NEW a \in Apps, CancelRemoval(a) PROVE Same(list')
  <2>1. Same([list EXCEPT !.removals[a] = None])
    BY <1>4, <1>7
  <2> QED
    BY <1>4, <1>14, <2>1 DEF CancelRemoval
<1> QED
  BY <1>2, <1>10, <1>11, <1>12, <1>13, <1>14

LEMMA StampedStep == Stamped /\ [ProtectionNext]_protectionVars => Stamped'
<1> SUFFICES ASSUME Stamped, [ProtectionNext]_protectionVars PROVE Stamped'
  OBVIOUS
<1>0. ClockOK /\ ModeOK(prefs) /\ ModeOK(disk) /\ ListOK(list) /\ shown \in Phases \cup {"none"}
  BY DEF Stamped
<1>1. CASE Arm \/ RequestDisarm \/ ConfirmDisarm \/ CancelDisarm
  <2>1. ModeOK(prefs)'
    BY <1>1, ModeStep
  <2>2. now' = now /\ uptime' = uptime /\ bootedOn' = bootedOn /\ disk' = disk /\ list' = list
    BY <1>1 DEF Arm, RequestDisarm, ConfirmDisarm, CancelDisarm, clockVars
  <2>3. shown' \in Phases
    BY <1>1, EvaluatePhases DEF Arm, RequestDisarm, ConfirmDisarm, CancelDisarm, Refreshed
  <2>4. ClockOK' /\ ModeOK(disk)' /\ ListOK(list)'
    BY <1>0, <2>2, ModesAge DEF ClockOK
  <2> QED
    BY <2>1, <2>3, <2>4 DEF Stamped
<1>2. CASE ReadApps \/ \E a \in Apps : AddApp(a) \/ RequestRemoval(a) \/ CancelRemoval(a)
                                       \/ ConfirmRemoval(a)
  <2>1. ListOK(list)' /\ UNCHANGED <<clockVars, prefs, disk, shown>>
    BY <1>2, ListStep
  <2>2. ClockOK' /\ ModeOK(disk)' /\ ModeOK(prefs)'
    BY <1>0, <2>1, ModesAge DEF ClockOK, clockVars
  <2> QED
    BY <1>0, <2>1, <2>2 DEF Stamped
<1>3. CASE Refresh \/ Flush \/ ProcessRestart \/ UNCHANGED protectionVars
  <2>1. /\ now' = now /\ uptime' = uptime /\ bootedOn' = bootedOn /\ list' = list
        /\ prefs' = prefs \/ prefs' = disk
        /\ disk' = disk \/ disk' = prefs
    BY <1>3 DEF Refresh, Flush, ProcessRestart, protectionVars, clockVars
  <2>2. ClockOK' /\ ModeOK(disk)' /\ ModeOK(prefs)' /\ ListOK(list)'
    BY <1>0, <2>1, ModesAge DEF ClockOK
  <2>3. shown' \in Phases \cup {"none"}
    BY <1>0, <1>3, EvaluatePhases DEF Refresh, Flush, ProcessRestart, Phase, protectionVars
  <2> QED
    BY <2>2, <2>3 DEF Stamped
<1>4. CASE Tick
  <2>1. /\ now' = now + 1 /\ uptime' = uptime + 1 /\ bootedOn' = bootedOn
        /\ list' = list /\ prefs' = prefs /\ disk' = disk /\ shown' = shown
    BY <1>4 DEF Tick
  <2>2. ClockOK' /\ now' >= now
    BY <1>0, <2>1 DEF ClockOK
  <2>3. ModeOK(disk)' /\ ModeOK(prefs)' /\ ListOK(list)'
    BY <1>0, <2>1, <2>2, ModesAge DEF ClockOK
  <2> QED
    BY <1>0, <2>1, <2>2, <2>3 DEF Stamped
<1>5. CASE PhoneReboot
  <2>1. /\ now' \in Nat /\ now' > now /\ uptime' = 0 /\ bootedOn' = now'
        /\ list' = list /\ prefs' = disk /\ disk' = disk /\ shown' = "none"
    BY <1>0, <1>5, TimeAssumption DEF PhoneReboot, ClockOK
  <2>2. ClockOK'
    <3>1. now' \in Nat /\ bootedOn' = now' /\ uptime' = 0
      BY <2>1
    <3>2. uptime' \in Nat
      BY <3>1
    <3>3. \A b, u, n \in Nat : b = n /\ u = 0 => n = b + u
      OBVIOUS
    <3>4. now' = bootedOn' + uptime'
      BY <3>1, <3>2, <3>3
    <3> QED
      BY <3>1, <3>2, <3>4 DEF ClockOK
  <2>3. now' >= now /\ bootedOn' >= now
    BY <1>0, <2>1 DEF ClockOK
  <2>4. ModeOK(disk)' /\ ModeOK(prefs)' /\ ListOK(list)'
    BY <1>0, <2>1, <2>3, ModesAge DEF ClockOK
  <2> QED
    BY <2>1, <2>2, <2>4 DEF Stamped
<1>6. CASE ClearData
  <2>1. now' = now /\ uptime' = uptime /\ bootedOn' = bootedOn /\ shown' = "none"
    BY <1>6 DEF ClearData, clockVars
  <2>2. ModeOK(prefs)' /\ ModeOK(disk)' /\ ListOK(list)'
    BY <1>6, NoneAssumption DEF ClearData, ModeOK, ListOK, Modes, Lists
  <2> QED
    BY <1>0, <2>1, <2>2 DEF Stamped, ClockOK
<1> QED
  BY <1>1, <1>2, <1>3, <1>4, <1>5, <1>6 DEF ProtectionNext

-----------------------------------------------------------------------------
(* What follows of the stamps *)

\* The store and the file always hold well formed times.
THEOREM TypeCorrect == ProtectionSpec => []ProtectionTypeOK
<1>1. Stamped => ProtectionTypeOK
  BY DEF Stamped, ProtectionTypeOK, ClockOK, ModeOK, ListOK
<1> QED
  BY <1>1, StampedInit, StampedStep, PTL DEF ProtectionSpec

\* Within a boot a window that is not open opens by a confirmation only: the stamp of
\* a disarm of this boot never lies ahead of the uptime.
LEMMA WindowsOfThisBootStayShut ==
  ASSUME ClockOK, NEW d \in Grants, StampOK(d), ~WindowOpen(d, uptime), WindowOpen(d, uptime + 1)
  PROVE  d.on <= bootedOn
<1>1. d.at \in Nat /\ d.on \in Nat /\ DisarmWindow \in Nat
  BY WindowsAssumption DEF Grants
<1>2. d.at = uptime + 1
  BY <1>1 DEF WindowOpen, ClockOK
<1> QED
  BY <1>1, <1>2 DEF StampOK, ClockOK

\* No disarm without a whole cooldown of real time before it, over any number of
\* reboots, kills and lost writes.
THEOREM CooldownAlwaysServed == ProtectionSpec => []CooldownServed
<1>1. Stamped => CooldownServed
  BY DEF Stamped, ModeOK, GrantOK, CooldownServed, Served, Phase, EvaluateMode, WindowOpen,
         RequestPhase
<1> QED
  BY <1>1, StampedInit, StampedStep, PTL DEF ProtectionSpec

\* What a fall of the guard can come from, besides a confirmation and cleared data.
LEMMA FallsExplained ==
  ASSUME Stamped, Stamped', ProtectionNext, Guarding(Phase), ~Guarding(Phase'),
         ~ConfirmDisarm, ~ClearData
  PROVE  \/ ProcessRestart /\ disk # prefs
         \/ PhoneReboot /\ ~disk.armed
         \/ Tick /\ prefs.disarmed.on <= bootedOn
<1>1. ClockOK /\ ModeOK(prefs) /\ ModeOK(disk) /\ prefs \in Modes /\ prefs' \in Modes
  <2>1. prefs' \in Modes /\ prefs \in Modes
    BY DEF Stamped, ModeOK
  <2> QED
    BY <2>1 DEF Stamped, ModeOK
<1>2. prefs.armed \in BOOLEAN /\ prefs'.armed \in BOOLEAN
  BY <1>1, ModeFields
<1>3. prefs.armed /\ ~WindowOpen(prefs.disarmed, uptime)
  BY <1>2, GuardUp DEF Phase
<1>4. ~prefs'.armed \/ WindowOpen(prefs'.disarmed, uptime')
  BY <1>2, GuardUp DEF Phase
<1>5. ~(uptime' = uptime /\ prefs'.armed /\ prefs'.disarmed \in {prefs.disarmed, None})
  BY <1>3, <1>4 DEF WindowOpen
<1>6. CASE Refresh \/ Flush \/ ReadApps
           \/ \E a \in Apps : AddApp(a) \/ RequestRemoval(a) \/ CancelRemoval(a) \/ ConfirmRemoval(a)
  <2>1. prefs' = prefs /\ uptime' = uptime
    BY <1>6 DEF Refresh, Flush, ReadApps, AddApp, RequestRemoval, CancelRemoval, ConfirmRemoval,
                Rewrite, clockVars
  <2> QED
    BY <1>3, <1>5, <2>1
<1>7. CASE Arm \/ RequestDisarm \/ CancelDisarm
  <2>1. uptime' = uptime
    BY <1>7 DEF Arm, RequestDisarm, CancelDisarm, clockVars
  <2>2. prefs'.armed /\ prefs'.disarmed \in {prefs.disarmed, None}
    BY <1>1, <1>3, <1>7 DEF Arm, RequestDisarm, CancelDisarm, Modes
  <2> QED
    BY <1>5, <2>1, <2>2
<1>8. CASE ProcessRestart
  <2>1. prefs' = disk /\ uptime' = uptime
    BY <1>8 DEF ProcessRestart, clockVars
  <2> QED
    BY <1>3, <1>5, <1>8, <2>1
<1>9. CASE PhoneReboot
  <2>1. uptime' = 0 /\ prefs' = disk
    BY <1>9 DEF PhoneReboot
  <2>2. disk.disarmed # None => disk.disarmed.at \in Nat /\ disk.disarmed.at > 0
    BY <1>1 DEF ModeOK, Modes, GrantOK, StampOK, Grants
  <2>3. ~WindowOpen(disk.disarmed, 0)
    BY <2>2 DEF WindowOpen
  <2> QED
    BY <1>4, <1>9, <2>1, <2>3
<1>10. CASE Tick
  <2>1. prefs' = prefs /\ uptime' = uptime + 1
    BY <1>10 DEF Tick
  <2>2. WindowOpen(prefs.disarmed, uptime + 1)
    BY <1>3, <1>4, <2>1
  <2>3. prefs.disarmed \in Grants /\ StampOK(prefs.disarmed)
    BY <1>1, <2>2 DEF ModeOK, Modes, GrantOK, WindowOpen
  <2> QED
    BY <1>1, <1>3, <1>10, <2>2, <2>3, WindowsOfThisBootStayShut
<1> QED
  BY <1>6, <1>7, <1>8, <1>9, <1>10 DEF ProtectionNext

\* A guard that is up falls by a confirmation after a whole cooldown, with the data of the
\* app or with a write that was lost, or where an old stamp comes round again.
THEOREM FallsServed == ProtectionSpec => FallsAreServed
<1>1. Stamped /\ Stamped' /\ [ProtectionNext]_protectionVars
        => [(Guarding(Phase) /\ ~Guarding(Phase')) =>
              /\ Phase' = "DISARMED" => Served(prefs'.disarmed)
              /\ \/ ConfirmDisarm \/ ClearData
                 \/ ProcessRestart /\ disk # prefs
                 \/ PhoneReboot /\ ~disk.armed
                 \/ Tick /\ prefs.disarmed.on <= bootedOn]_protectionVars
  <2> SUFFICES ASSUME Stamped, Stamped', ProtectionNext, Guarding(Phase), ~Guarding(Phase')
               PROVE  /\ Phase' = "DISARMED" => Served(prefs'.disarmed)
                      /\ \/ ConfirmDisarm \/ ClearData
                         \/ ProcessRestart /\ disk # prefs
                         \/ PhoneReboot /\ ~disk.armed
                         \/ Tick /\ prefs.disarmed.on <= bootedOn
    BY DEF protectionVars
  <2>1. Phase' = "DISARMED" => Served(prefs'.disarmed)
    BY DEF Stamped, ModeOK, GrantOK, Served, Phase, EvaluateMode, WindowOpen, RequestPhase
  <2> QED
    BY <2>1, FallsExplained
<1> QED
  BY <1>1, StampedInit, StampedStep, PTL DEF ProtectionSpec, FallsAreServed

\* Within one boot, one request buys one window.
THEOREM OneWindow == ProtectionSpec => []OneCooldownOneWindow
<1>1. Stamped => OneCooldownOneWindow
  <2> SUFFICES ASSUME Stamped, Phase = "DISARMED", prefs.disarmed.asked > bootedOn
               PROVE  now < prefs.disarmed.asked + Cooldown + ReadyWindow + DisarmWindow
    BY DEF OneCooldownOneWindow
  <2> DEFINE g == prefs.disarmed
  <2>1. g # None /\ uptime < g.at + DisarmWindow
    BY DEF Phase, EvaluateMode, WindowOpen, RequestPhase
  <2>2. g \in Grants /\ GrantOK(g) /\ ClockOK
    BY <2>1 DEF Stamped, ModeOK, Modes
  <2>3. g.at \in Nat /\ g.on \in Nat /\ g.asked \in Nat
    BY <2>2 DEF Grants
  <2>4. g.on = bootedOn + g.at /\ g.on < g.asked + Cooldown + ReadyWindow
    BY <2>2, <2>3, WindowsAssumption DEF GrantOK, StampOK, ClockOK
  <2> QED
    BY <2>1, <2>2, <2>3, <2>4, WindowsAssumption DEF ClockOK
<1> QED
  BY <1>1, StampedInit, StampedStep, PTL DEF ProtectionSpec

\* A phone that boots armed boots guarded.
THEOREM BootsGuarded == ProtectionSpec => RebootGuards
<1>1. Stamped /\ Stamped' /\ [ProtectionNext]_protectionVars
        => [(uptime' < uptime /\ prefs'.armed) => Guarding(EvaluateMode(prefs', uptime'))]_protectionVars
  <2> SUFFICES ASSUME Stamped, Stamped', [ProtectionNext]_protectionVars, uptime' < uptime, prefs'.armed
               PROVE  Guarding(EvaluateMode(prefs', uptime'))
    OBVIOUS
  <2>1. uptime' = 0
    BY DEF ProtectionNext, Refresh, Arm, RequestDisarm, ConfirmDisarm, CancelDisarm, ReadApps, AddApp,
           RequestRemoval, CancelRemoval, ConfirmRemoval, Rewrite, Tick, Flush, ProcessRestart,
           PhoneReboot, ClearData, protectionVars, clockVars, Stamped, ClockOK
  <2>2. prefs'.disarmed # None => prefs'.disarmed.at > 0 /\ prefs'.disarmed.at \in Nat
    <3>1. ModeOK(prefs)'
      BY DEF Stamped
    <3> QED
      BY <3>1 DEF ModeOK, Modes, GrantOK, StampOK, Grants
  <2>3. ~WindowOpen(prefs'.disarmed, 0)
    BY <2>2 DEF WindowOpen
  <2> QED
    BY <2>1, <2>3 DEF EvaluateMode, Guarding, RequestPhase
<1> QED
  BY <1>1, StampedInit, StampedStep, PTL DEF ProtectionSpec, RebootGuards

\* An app leaves the list by a served removal, or with all of the app's data.
THEOREM RemovalsServed == ProtectionSpec => RemovalServed
<1>1. Stamped /\ [ProtectionNext]_protectionVars
        => [\A a \in list.apps \ list'.apps :
              \/ ClearData
              \/ list.removals[a] # None /\ now >= list.removals[a].on + Cooldown]_protectionVars
  <2> SUFFICES ASSUME Stamped, [ProtectionNext]_protectionVars, NEW a \in list.apps \ list'.apps, ~ClearData
               PROVE  list.removals[a] # None /\ now >= list.removals[a].on + Cooldown
    OBVIOUS
  <2>1. list \in Lists /\ ListOK(list) /\ ClockOK
    BY DEF Stamped, ListOK
  <2>2. a \in Apps
    BY <2>1 DEF Lists
  <2>3. Pruned.apps = list.apps
    BY <2>1 DEF Pruned, Lists
  <2>4. \E b \in Apps : ConfirmRemoval(b)
    <3>1. list' # list
      OBVIOUS
    <3>2. CASE ReadApps
      BY <2>3, <3>2 DEF ReadApps, Rewrite
    <3>3. ASSUME NEW b \in Apps, AddApp(b) \/ RequestRemoval(b) \/ CancelRemoval(b)
          PROVE  FALSE
      <4>1. CASE AddApp(b)
        BY <2>3, <4>1 DEF AddApp, Rewrite
      <4>2. CASE RequestRemoval(b)
        <5>1. [Pruned EXCEPT !.removals[b] = [at |-> uptime, on |-> now]].apps = Pruned.apps
          BY <2>1 DEF Pruned, Lists
        <5> QED
          BY <2>3, <4>2, <5>1 DEF RequestRemoval, Rewrite
      <4>3. CASE CancelRemoval(b)
        <5>1. [list EXCEPT !.removals[b] = None].apps = list.apps
          BY <2>1 DEF Lists
        <5> QED
          BY <4>3, <5>1 DEF CancelRemoval
      <4> QED
        BY <3>3, <4>1, <4>2, <4>3
    <3> QED
      BY <3>1, <3>2, <3>3 DEF ProtectionNext, Refresh, Arm, RequestDisarm, ConfirmDisarm, CancelDisarm,
         Tick, Flush, ProcessRestart, PhoneReboot, protectionVars
  <2>5. PICK b \in Apps : ConfirmRemoval(b)
    BY <2>4
  <2>6. a = b
    BY <2>1, <2>3, <2>5 DEF ConfirmRemoval, Rewrite, Pruned, Lists
  <2>7. RequestPhase(list.removals[a], uptime) = "DISARM_READY"
    BY <2>5, <2>6 DEF ConfirmRemoval
  <2>8. list.removals[a] # None
    BY <2>7 DEF RequestPhase
  <2>9. list.removals[a] \in Stamps /\ StampOK(list.removals[a])
    BY <2>1, <2>2, <2>8 DEF ListOK, Lists
  <2> QED
    BY <2>1, <2>7, <2>8, <2>9, MaturedIsServed
<1> QED
  BY <1>1, StampedInit, StampedStep, PTL DEF ProtectionSpec, RemovalServed

=============================================================================
