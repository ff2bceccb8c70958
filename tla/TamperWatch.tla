------------------------------- MODULE TamperWatch -------------------------------
(***************************************************************************)
(* The tamper watch of the macOS agent: PermissionGate.swift and the timer of *)
(* main.swift that polls it.  A poll runs four tools and asks three           *)
(* permissions, one after another, while the machine goes on changing; any    *)
(* tool may fail, and then nothing of the reading is kept.  What a poll tells *)
(* is the difference between two readings.                                    *)
(*                                                                           *)
(* told is what somebody knows who saw the first reading and every event      *)
(* since: it is in no variable of the program.                                *)
(***************************************************************************)
EXTENDS Integers

CONSTANTS
  Accounts,       (* names of accounts *)
  People,         (* those with a UID of 500 or more *)
  ProtectedUser,  (* NSUserName() *)
  Seconds,        (* what the clock may read: bound *)
  MaxBoots        (* bound on the restarts of the machine *)

Capabilities == {"screenRecording", "accessibility", "inputMonitoring"}
PermissionStates == {"granted", "denied", "undetermined"}
RebootTolerance == 5

Machines ==
  [grants : [Capabilities -> PermissionStates],
   sip : {"enabled", "disabled", "custom"},
   users : SUBSET Accounts, admins : SUBSET Accounts,
   bootTime : Seconds]

\* protectedUserIsAdmin is admins.contains of the same listing: no field of its own.
Snapshots ==
  [sip : BOOLEAN, users : SUBSET Accounts, admins : SUBSET Accounts, bootTime : Seconds,
   grants : [Capabilities -> PermissionStates]]

NoSnapshot == [sip |-> "none"]

VARIABLES
  machine,   (* what there is to read *)
  boots,     (* how often the machine has started *)
  running,   (* whether the agent is *)
  pc,        (* what the poll under way reads next, "idle" between two polls *)
  sip, users, admins, bootTime,   (* what it has read so far *)
  last,      (* lastSnapshot, NoSnapshot before the first *)
  lastBoot,  (* the start of the machine last was read in *)
  news,      (* the events the last step logged *)
  told       (* what they and the first reading add up to *)

reading == <<sip, users, admins, bootTime>>
watchVars == <<machine, boots, running, pc, reading, last, lastBoot, news, told>>

Quiet ==
  [rebooted |-> {}, permissionLost |-> {}, permissionGranted |-> {}, sipTurned |-> {},
   protectedUserBecameAdministrator |-> {}, administratorAdded |-> {},
   administratorRemoved |-> {}, localUserAdded |-> {}, localUserRemoved |-> {}]

Untold == [granted |-> {}, sip |-> FALSE, users |-> {}, admins |-> {}]

WatchInit ==
  /\ machine \in Machines
  /\ boots = 1
  /\ running = FALSE /\ pc = "idle"
  /\ sip = FALSE /\ users = {} /\ admins = {} /\ bootTime = machine.bootTime
  /\ last = NoSnapshot /\ lastBoot = 0
  /\ news = Quiet /\ told = Untold

-----------------------------------------------------------------------------
(* Parsers and preflight calls *)

\* "unknown (Custom Configuration)" is not enabled.
ParseSIPStatus(status) == status = "enabled"

\* Accounts of the system are left out.
ParseUserList(listing) == listing \cap People

\* Only input monitoring tells a refusal from a question never asked.
State(c) ==
  IF machine.grants[c] = "granted" THEN "granted"
  ELSE IF c = "inputMonitoring" THEN machine.grants[c]
  ELSE "undetermined"

-----------------------------------------------------------------------------
(* Pure decisions *)

Granted(s) == {c \in Capabilities : s.grants[c] = "granted"}

Rebooted(s, t) ==
  t.bootTime - s.bootTime > RebootTolerance \/ s.bootTime - t.bootTime > RebootTolerance

\* The events from the reading s to the reading t, those of each kind in a field.
Transitions(s, t) ==
  [rebooted |-> IF Rebooted(s, t) THEN {t.bootTime} ELSE {},
   permissionLost |-> Granted(s) \ Granted(t),
   permissionGranted |-> Granted(t) \ Granted(s),
   sipTurned |-> {t.sip} \ {s.sip},
   protectedUserBecameAdministrator |-> {ProtectedUser} \cap (t.admins \ s.admins),
   administratorAdded |-> t.admins \ s.admins,
   administratorRemoved |-> s.admins \ t.admins,
   localUserAdded |-> t.users \ s.users,
   localUserRemoved |-> s.users \ t.users]

\* What the reader of a log makes of a first reading and of the events after it.
Baseline(s) ==
  [granted |-> Granted(s), sip |-> s.sip, users |-> s.users, admins |-> s.admins]

Tell(known, events) ==
  [granted |-> (known.granted \ events.permissionLost) \cup events.permissionGranted,
   sip |-> IF TRUE \in events.sipTurned THEN TRUE
           ELSE IF FALSE \in events.sipTurned THEN FALSE ELSE known.sip,
   users |-> (known.users \ events.localUserRemoved) \cup events.localUserAdded,
   admins |-> (known.admins \ events.administratorRemoved) \cup events.administratorAdded]

\* assess: from what is granted, SIP and the administrators.
Assess(granted, sipEnabled, administrators) ==
  IF "screenRecording" \notin granted THEN "blind"
  ELSE IF granted = Capabilities /\ sipEnabled /\ ProtectedUser \notin administrators
    THEN "protected"
  ELSE "weakened"

-----------------------------------------------------------------------------
(* A poll *)

\* runAgent with a new gate: its first poll.
Start ==
  /\ ~running
  /\ running' = TRUE /\ pc' = "csrutil"
  /\ UNCHANGED <<machine, boots, reading, last, lastBoot, news, told>>

\* tamperTick: the timers share the main thread, so no two polls overlap.
Tick ==
  /\ running /\ pc = "idle"
  /\ pc' = "csrutil" /\ news' = Quiet
  /\ UNCHANGED <<machine, boots, running, reading, last, lastBoot, told>>

ReadStatus ==
  /\ pc = "csrutil"
  /\ sip' = ParseSIPStatus(machine.sip) /\ pc' = "users"
  /\ UNCHANGED <<machine, boots, running, users, admins, bootTime, last, lastBoot, news, told>>

ReadUsers ==
  /\ pc = "users"
  /\ users' = ParseUserList(machine.users) /\ pc' = "admins"
  /\ UNCHANGED <<machine, boots, running, sip, admins, bootTime, last, lastBoot, news, told>>

\* A group without members is a missing key, and no failure.
ReadAdmins ==
  /\ pc = "admins"
  /\ admins' = machine.admins /\ pc' = "boottime"
  /\ UNCHANGED <<machine, boots, running, sip, users, bootTime, last, lastBoot, news, told>>

ReadBootTime ==
  /\ pc = "boottime"
  /\ bootTime' = machine.bootTime /\ pc' = "preflight"
  /\ UNCHANGED <<machine, boots, running, sip, users, admins, last, lastBoot, news, told>>

\* The three preflight calls start no process: one step.
Current ==
  [sip |-> sip, users |-> users, admins |-> admins, bootTime |-> bootTime,
   grants |-> [c \in Capabilities |-> State(c)]]

\* poll: the first reading reports nothing.
Poll ==
  /\ pc = "preflight"
  /\ last' = Current /\ lastBoot' = boots
  /\ news' = IF last = NoSnapshot THEN Quiet ELSE Transitions(last, Current)
  /\ told' = IF last = NoSnapshot THEN Baseline(Current) ELSE Tell(told, news')
  /\ pc' = "idle"
  /\ UNCHANGED <<machine, boots, running, reading>>

\* A tool fails or says something unknown: the agent ends if this was its first poll,
\* and otherwise keeps the reading it has.
PollFails ==
  /\ pc \in {"csrutil", "users", "admins", "boottime"}
  /\ pc' = "idle"
  /\ running' = (last # NoSnapshot)
  /\ UNCHANGED <<machine, boots, reading, last, lastBoot, news, told>>

\* The process is gone, and the gate with it.
Ends ==
  /\ running' = FALSE /\ pc' = "idle"
  /\ last' = NoSnapshot /\ lastBoot' = 0 /\ news' = Quiet /\ told' = Untold
  /\ UNCHANGED reading

Stop == running /\ Ends /\ UNCHANGED <<machine, boots>>

-----------------------------------------------------------------------------
(* The machine *)

\* Somebody grants or revokes, adds or removes an account, sets the clock.
Change ==
  /\ machine' \in Machines
  /\ UNCHANGED <<boots, running, pc, reading, last, lastBoot, news, told>>

Reboot ==
  /\ boots < MaxBoots
  /\ boots' = boots + 1
  /\ machine' \in Machines
  /\ Ends

WatchNext ==
  \/ Start \/ Tick \/ ReadStatus \/ ReadUsers \/ ReadAdmins \/ ReadBootTime \/ Poll
  \/ PollFails \/ Stop \/ Change \/ Reboot

WatchSpec == WatchInit /\ [][WatchNext]_watchVars

-----------------------------------------------------------------------------
(* Properties *)

WatchTypeOK ==
  /\ machine \in Machines
  /\ boots \in Nat \ {0} /\ lastBoot \in Nat
  /\ running \in BOOLEAN
  /\ pc \in {"idle", "csrutil", "users", "admins", "boottime", "preflight"}
  /\ sip \in BOOLEAN /\ users \subseteq Accounts /\ admins \subseteq Accounts
  /\ bootTime \in Seconds
  /\ last \in Snapshots \cup {NoSnapshot}

\* Once the agent has its first reading, that and the events it has logged since give what its
\* latest reading says of every permission, account and administrator and of SIP: a
\* change that outlives a poll is told, over failed polls and over readings the
\* machine changed in the middle of, and nothing is told that was not read (poll,
\* transitions, difference).
LogTellsReading ==
  last # NoSnapshot => told = Baseline(last)

\* So the log alone gives the level of protection the agent would claim (assess).
LevelIsTold ==
  last # NoSnapshot =>
    Assess(told.granted, told.sip, told.admins) = Assess(Granted(last), last.sip, last.admins)

\* An agent compares readings of one start of the machine only: lastSnapshot is in no file,
\* so the "rebooted" it can log never stands for a restart, but for a clock
\* that was set (poll, rebootTolerance).
OneStart == last # NoSnapshot => lastBoot = boots

=============================================================================
