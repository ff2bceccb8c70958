------------------------------ MODULE TamperLog ------------------------------
(***************************************************************************)
(* The tamper log of the Android app: the file TamperLogStore appends to,  *)
(* what TamperLog.classifyConnect infers from it when the screen guard     *)
(* connects, and those who write: ScreenGuardService, GuardStatusService,  *)
(* the mode, the admin receiver and the network guard on the main thread,  *)
(* and the screen capture on its own.                                      *)
(*                                                                         *)
(* A line is what a reader of the file makes of it; one that was cut short *)
(* when the process died reads as "torn". `fate` and the other history     *)
(* variables are what really happened: no code reads them.                 *)
(***************************************************************************)
EXTENDS Integers, Sequences, SequencesExt

CONSTANTS
  Tail64,       (* CLASSIFY_TAIL *)
  MaxEntries,   (* MAX_ENTRIES *)
  Slack,        (* TRIM_SLACK *)
  Coalesce,     (* COALESCE_MILLIS *)
  MaxClock      (* bound on the uptime *)

ASSUME SizesAssumption ==
  /\ Tail64 \in Nat \ {0} /\ MaxEntries \in Nat \ {0} /\ Slack \in Nat \ {0, 1}
  /\ Coalesce \in Nat \ {0} /\ MaxClock \in Nat

Clock == 0..MaxClock
Never == -1

\* "on" and "off" bound the sessions of the screen guard, a "blocked" is coalesced,
\* a "note" is any other event; the detail of an "on" is its SessionStart.
Events == {"on", "off", "note", "blocked"}
Starts == {"FIRST_RUN", "CLEAN_RESTART", "AFTER_REBOOT", "UNCLEAN_STOP"}
Entry(event, t) == [event |-> event, at |-> t, detail |-> "none"]
Lines == [event : Events \cup {"torn"}, at : Clock, detail : Starts \cup {"none"}]
NoEntry == [event |-> "torn", at |-> 0, detail |-> "none"]

VARIABLES
  file,      (* its lines *)
  end,       (* whether the last one ends in a newline; if not, what it lacks *)
  loaded, lastEntry, lineCount,   (* what the store keeps in memory *)
  clock,     (* elapsedRealtime *)
  enabled,   (* the accessibility setting *)
  service,   (* the screen guard: "off", "connecting", or "on" *)
  start,     (* what recordConnect made of the gap *)
  mode,      (* the protection mode: "OFF", "ARMED", or in a release "DISARMED" *)
  health,    (* GuardStatusService.lastHealth, "none" while it does not run *)
  asked,     (* a start command for it is on its way *)
  pending,   (* the time the capture thread read before it waits for the lock *)
  fate,      (* history: how the last session ended *)
  kept,      (* history: whether its "on" can be read *)
  tried, attempt   (* history: when this boot last had an attempt, and one recorded *)

store == <<file, end, loaded, lastEntry, lineCount>>
session == <<service, start, fate, kept>>
attempts == <<tried, attempt>>
watch == <<mode, health, asked>>
logVars == <<store, clock, enabled, session, watch, pending, attempts>>

LogTypeOK ==
  /\ file \in Seq(Lines) /\ end \in {"newline", "torn", "whole"}
  /\ loaded \in BOOLEAN /\ lastEntry \in Lines /\ lineCount \in Nat
  /\ clock \in Clock /\ enabled \in BOOLEAN
  /\ service \in {"off", "connecting", "on"} /\ start \in Starts \cup {"none"}
  /\ mode \in {"OFF", "ARMED", "DISARMED"} /\ asked \in BOOLEAN
  /\ health \in {"none", "PROTECTING", "UNPROTECTED", "IDLE"}
  /\ pending \in Clock \cup {Never} /\ tried \in Clock \cup {Never} /\ attempt \in Clock \cup {Never}
  /\ fate \in {"none", "clean", "killed", "rebooted"} /\ kept \in BOOLEAN

LogInit ==
  /\ file = <<>> /\ end = "newline"
  /\ loaded = FALSE /\ lastEntry = NoEntry /\ lineCount = 0
  /\ clock = 0 /\ enabled = FALSE
  /\ service = "off" /\ start = "none"
  /\ mode = "OFF" /\ health = "none" /\ asked = FALSE /\ pending = Never
  /\ fate = "none" /\ kept = FALSE /\ tried = Never /\ attempt = Never

-----------------------------------------------------------------------------
(* TamperLog: parse, shouldRecord, trim, classifyConnect.                  *)

LastLines(lines, n) == SubSeq(lines, IF Len(lines) > n THEN Len(lines) - n + 1 ELSE 1, Len(lines))

\* An entry that was read is named by its place in the file.
Readable == {i \in DOMAIN file : file[i].event # "torn"}

\* recentEntries: lines are counted before the unreadable ones are left out.
Recent == {i \in Readable : i > Len(file) - Tail64}

Boundaries(recent) == {i \in recent : file[i].event \in {"on", "off"}}
Boundary(recent) == Max(Boundaries(recent))
SinceBoundary(recent) == {i \in recent : i >= Boundary(recent)}

\* Somewhere in a list of times one is below the one before it.
ClockFalls(entries) == \E i, j \in entries : i < j /\ file[j].at < file[i].at
FallsTo(entries, t) == ClockFalls(entries) \/ \E i \in entries : t < file[i].at

\* Seeded fault: the newest line alone tells a reboot.
ClassifyNewest(recent, t) ==
  IF Boundaries(recent) = {} THEN "FIRST_RUN"
  ELSE IF t < file[Max(recent)].at THEN "AFTER_REBOOT"
  ELSE IF file[Boundary(recent)].event = "off" THEN "CLEAN_RESTART" ELSE "UNCLEAN_STOP"

\* Seeded fault: older boots in the tail count as a reboot too.
ClassifyTail(recent, t) ==
  IF Boundaries(recent) = {} THEN "FIRST_RUN"
  ELSE IF FallsTo(recent, t) THEN "AFTER_REBOOT"
  ELSE IF file[Boundary(recent)].event = "off" THEN "CLEAN_RESTART" ELSE "UNCLEAN_STOP"

Classify(recent, t) ==
  IF Boundaries(recent) = {} THEN "FIRST_RUN"
  ELSE IF FallsTo(SinceBoundary(recent), t) THEN "AFTER_REBOOT"
  ELSE IF file[Boundary(recent)].event = "off" THEN "CLEAN_RESTART"
  ELSE "UNCLEAN_STOP"

\* An attempt like the one before it, within the window, is the same visit.
ShouldRecord(previous, entry) ==
  \/ entry.event # "blocked" \/ previous.event # entry.event
  \/ entry.at < previous.at \/ entry.at - previous.at >= Coalesce

-----------------------------------------------------------------------------
(* TamperLogStore.                                                         *)

\* What is written after a line without its newline becomes part of it: a line that was
\* whole can still be read, one that was torn makes the new one unreadable.
Joined(lines, entry) ==
  CASE end = "newline" -> Append(lines, entry)
    [] end = "whole"   -> lines
    [] end = "torn"    -> [lines EXCEPT ![Len(lines)] = NoEntry]

\* load(): once per process.
LoadedCount == IF loaded THEN lineCount ELSE Len(file)
LoadedLast ==
  IF loaded THEN lastEntry
  ELSE IF Readable = {} THEN NoEntry ELSE file[Max(Readable)]

\* Seeded fault: only events that coalesce are remembered.
RememberedBlocked(entry) == IF entry.event = "blocked" THEN entry ELSE LoadedLast

Remembered(entry) == entry

\* record(): append, and once too long a log is rewritten without its oldest
\* lines, which is an event of its own.
Record(entry) ==
  /\ loaded' = TRUE
  /\ IF ~ShouldRecord(LoadedLast, entry)
       THEN /\ lastEntry' = LoadedLast /\ lineCount' = LoadedCount
            /\ UNCHANGED <<file, end>>
       ELSE LET lines == Joined(file, entry)
            IN /\ end' = "newline"
               /\ IF LoadedCount + 1 >= MaxEntries + Slack /\ Len(lines) > MaxEntries
                    THEN /\ file' = Append(LastLines(lines, MaxEntries), Entry("note", clock))
                         /\ lineCount' = MaxEntries + 1
                         /\ lastEntry' = Remembered(Entry("note", clock))
                    ELSE /\ file' = lines
                         /\ lineCount' = LoadedCount + 1
                         /\ lastEntry' = Remembered(entry)

-----------------------------------------------------------------------------
(* GuardStatusService, and who asks for it.                                *)

\* In the model of the mode a cooldown counts as armed: guardActive.
Health ==
  IF mode # "ARMED" THEN "IDLE" ELSE IF enabled THEN "PROTECTING" ELSE "UNPROTECTED"

\* Seeded fault: a mode that is released for a while is not worth watching.
KeepRunningGuarding == enabled \/ mode = "ARMED"

\* shouldKeepRunning: a release ends by itself, so it is watched too.
KeepRunning == enabled \/ mode # "OFF"

\* start(): nothing is asked for when there is nothing to report. A service that runs
\* would only check once more, as its poll does.
AskStatus == asked' = (asked \/ (KeepRunning /\ health = "none"))

\* check(): the fall is recorded on its edge, and a service with nothing to report stops.
Observe ==
  /\ IF Health = "UNPROTECTED" /\ health # "UNPROTECTED"
       THEN Record(Entry("note", clock)) ELSE UNCHANGED store
  /\ health' = IF KeepRunning THEN Health ELSE "none"

\* The observer of the setting, or the poll of every minute.
Check ==
  /\ service # "connecting"
  /\ health # "none"
  /\ Observe
  /\ UNCHANGED <<clock, enabled, session, mode, asked, pending, attempts>>

StartCommand ==
  /\ service # "connecting"
  /\ asked /\ asked' = FALSE
  /\ Observe
  /\ UNCHANGED <<clock, enabled, session, mode, pending, attempts>>

\* MainActivity.refresh on a resume, or the BootReceiver.
Open ==
  /\ service # "connecting"
  /\ AskStatus
  /\ UNCHANGED <<store, clock, enabled, session, mode, health, pending, attempts>>

\* The button of the activity, which comes back through refresh.
SetMode ==
  /\ service # "connecting"
  /\ mode' = IF mode = "ARMED" THEN "DISARMED" ELSE "ARMED"
  /\ Record(Entry("note", clock))
  /\ asked' = (health = "none")
  /\ UNCHANGED <<clock, enabled, session, health, pending, attempts>>

\* The release window runs out: nothing is written, and nobody is told. That it may come
\* round again in a later boot (Protection.tla) is left out: it turns no mode on or off.
WindowEnds ==
  /\ mode = "DISARMED" /\ mode' = "ARMED"
  /\ UNCHANGED <<store, clock, enabled, session, health, asked, pending, attempts>>

-----------------------------------------------------------------------------
(* The writers.                                                            *)

\* Seeded fault: what the gap means is left to the entry of the connect.
ConnectQuiet ==
  /\ enabled /\ service = "off"
  /\ service' = "connecting"
  /\ start' = Classify(Recent, clock)
  /\ UNCHANGED <<store, clock, enabled, watch, pending, fate, kept, attempts>>

\* recordConnect up to the event it may record about the gap.
Connect ==
  /\ enabled /\ service = "off"
  /\ service' = "connecting"
  /\ start' = Classify(Recent, clock)
  /\ IF start' = "UNCLEAN_STOP" THEN Record(Entry("note", clock)) ELSE UNCHANGED store
  /\ UNCHANGED <<clock, enabled, watch, pending, fate, kept, attempts>>

\* The rest of recordConnect, and of onServiceConnected: the status service is asked
\* for, and from the background that may be refused.
Connected ==
  /\ service = "connecting"
  /\ service' = "on"
  /\ Record([Entry("on", clock) EXCEPT !.detail = start])
  /\ fate' = "none" /\ kept' = (end = "newline")
  /\ \/ AskStatus \/ UNCHANGED asked
  /\ UNCHANGED <<clock, enabled, start, mode, health, pending, attempts>>

\* The user turns the service off: onUnbind, then onDestroy, record one "off".
Disable ==
  /\ enabled /\ service # "connecting"
  /\ enabled' = FALSE
  /\ service' = "off" /\ start' = "none"
  /\ IF service = "on"
       THEN Record(Entry("off", clock)) /\ fate' = "clean"
       ELSE UNCHANGED <<store, fate>>
  /\ UNCHANGED <<clock, watch, pending, kept, attempts>>

Enable ==
  /\ ~enabled /\ enabled' = TRUE
  /\ UNCHANGED <<store, clock, session, watch, pending, attempts>>

\* A settings screen is backed out of, or covered.
Blocked ==
  /\ service = "on"
  /\ Record(Entry("blocked", clock))
  /\ tried' = clock
  /\ attempt' = IF ShouldRecord(LoadedLast, Entry("blocked", clock)) THEN clock ELSE attempt
  /\ UNCHANGED <<clock, enabled, session, watch, pending>>

\* The capture thread reads the clock and may then wait for the store's lock.
CaptureStamps ==
  /\ pending = Never /\ pending' = clock
  /\ UNCHANGED <<store, clock, enabled, session, watch, attempts>>

CaptureRecords ==
  /\ pending # Never /\ pending' = Never
  /\ Record(Entry("note", pending))
  /\ UNCHANGED <<clock, enabled, session, watch, attempts>>

-----------------------------------------------------------------------------
(* The process and the device.                                             *)

ProcessGone ==
  /\ loaded' = FALSE /\ lastEntry' = NoEntry /\ lineCount' = 0
  /\ service' = "off" /\ start' = "none" /\ health' = "none" /\ pending' = Never

\* What a kill may interrupt: a write of the capture, or that of the "on".
Underway ==
  {Entry("note", t) : t \in {pending} \ {Never}}
    \cup {[Entry("on", clock) EXCEPT !.detail = start] : s \in {service} \cap {"connecting"}}

\* The append is cut within the line, or before its newline.
AppendCut(entry) ==
  \E e \in {"torn", "whole"} :
    /\ end' = IF end = "newline" THEN e ELSE end
    /\ file' = Joined(file, IF e = "torn" THEN NoEntry ELSE entry)

\* The shorter file is in place, and the note about it is not.
TrimCut(entry) ==
  /\ LoadedCount + 1 >= MaxEntries + Slack
  /\ Len(Joined(file, entry)) > MaxEntries
  /\ file' = LastLines(Joined(file, entry), MaxEntries) /\ end' = "newline"

\* Force-stop or a kill, perhaps in the middle of a write. After a kill Android starts
\* the sticky status service again.
Kill ==
  /\ ProcessGone
  /\ asked' \in {FALSE, health # "none"}
  /\ \/ /\ UNCHANGED <<file, end, kept>>
        /\ fate' = IF service = "on" THEN "killed" ELSE fate
     \/ \E entry \in Underway :
          /\ AppendCut(entry) \/ TrimCut(entry)
          /\ LET begun == entry.event = "on" /\ end = "newline" /\ end' # "torn"
             IN /\ fate' = IF service = "on" \/ begun THEN "killed" ELSE fate
                /\ kept' = (begun \/ kept)
  /\ UNCHANGED <<clock, enabled, mode, attempts>>

\* Right after a boot no release is in force.
Reboot ==
  /\ ProcessGone /\ asked' = FALSE
  /\ clock' = 0 /\ tried' = Never /\ attempt' = Never
  /\ fate' = IF service = "on" \/ fate = "killed" THEN "rebooted" ELSE fate
  /\ mode' = IF mode = "DISARMED" THEN "ARMED" ELSE mode
  /\ UNCHANGED <<file, end, enabled, kept>>

ClockTicks ==
  /\ clock < MaxClock /\ clock' = clock + 1
  /\ UNCHANGED <<store, enabled, session, watch, pending, attempts>>

LogNext ==
  \/ Connect \/ Connected \/ Disable \/ Enable \/ Blocked
  \/ Check \/ StartCommand \/ Open \/ SetMode \/ WindowEnds
  \/ CaptureStamps \/ CaptureRecords \/ Kill \/ Reboot \/ ClockTicks

LogSpec == LogInit /\ [][LogNext]_logVars

-----------------------------------------------------------------------------
(* Properties *)

\* The session boundary a connect starts from, if the tail still has one.
Anchored == Boundaries(Recent) # {}
Anchor == file[Boundary(Recent)]

\* Nobody is accused who turned the guard off in the settings or restarted the
\* phone, whoever wrote in between; a reboot can be told while the uptime is
\* still below that of the session it ended.
NoFalseAlarm ==
  [][(Connect /\ start' = "UNCLEAN_STOP")
       => (fate = "killed" \/ (fate = "rebooted" /\ clock >= Anchor.at))]_logVars

\* A kill is found out by the next connect on the same boot, unless the log has
\* lost sight of the session or the clocks of two writers crossed.
KillIsNoticed ==
  [][(/\ Connect /\ fate = "killed" /\ kept
      /\ Anchored /\ ~ClockFalls(SinceBoundary(Recent)))
       => start' = "UNCLEAN_STOP"]_logVars

\* What was found out can be read in the log once the guard runs, though the
\* first entry after a kill may run into a line the kill cut short: that one is
\* the event, and the connect behind it says the same.
KillIsOnRecord ==
  [][(Connected /\ start = "UNCLEAN_STOP")
       => \E l \in Range(LastLines(file', 2)) : l.detail = "UNCLEAN_STOP"]_logVars

\* An attempt that is not written down is the same visit as one that was, on
\* this boot: none is folded into an entry of the boot before.
AttemptsCounted == tried # Never => (attempt # Never /\ tried - attempt < Coalesce)

\* While the mode is on, a release window included at whose end it guards again, the
\* status service runs or is on its way: it never stops itself then, and no way of
\* turning the mode on leaves it out. Only the end of the process does.
Watched == mode = "OFF" \/ health # "none" \/ asked
ModeIsWatched == [][(Watched /\ ~Watched') => (Kill \/ Reboot)]_logVars

=============================================================================
