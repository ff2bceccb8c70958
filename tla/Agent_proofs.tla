------------------------------ MODULE Agent_proofs ------------------------------
(***************************************************************************)
(* Theorems about the two halves of the macOS agent: Agent, for any           *)
(* applications, displays, actions and intervals, and TamperWatch, for any    *)
(* accounts and any clock.  The cover on screen always has a scanner behind   *)
(* it; and what the watch has logged tells what it has read.                  *)
(***************************************************************************)
EXTENDS Agent, TamperWatch, TLAPS

-----------------------------------------------------------------------------
(* The render loop. A classification that is under way was begun by an image  *)
(* scan, and from the first frame on no image scan is ever overdue: that is   *)
(* what stands behind a verdict whose scanner has come to say something else. *)

USE AppAssumption, ActionAssumption, IntervalAssumption, NoFrameAssumption

ScansAreDue == inFlight # NoFrame => frame # NoFrame /\ imageAge < ImageInterval

Inv == TypeOK /\ ScansAreDue /\ CoverIsBacked

\* Of the verdicts of a tick the worst is one.
LEMMA WorstIsOne ==
  ASSUME NEW S, S \subseteq Actions, S # {}
  PROVE  Worst(S) \in S
  <1> DEFINE worse(v) == \A w \in S : Severity(w) <= Severity(v)
  <1>1. /\ Severity("block") = 2 /\ Severity("warn") = 1 /\ Severity("allow") = 0
        /\ \A v \in S : v \in {"allow", "warn", "block"}
    BY DEF Severity, Actions
  <1>2. \E v \in S : worse(v)
    <2>1. CASE "block" \in S
      <3>1. worse("block")
        BY <1>1
      <3> QED
        BY <2>1, <3>1
    <2>2. CASE "block" \notin S /\ "warn" \in S
      <3>1. worse("warn")
        BY <1>1, <2>2
      <3> QED
        BY <2>2, <3>1
    <2>3. CASE "block" \notin S /\ "warn" \notin S
      <3>1. "allow" \in S
        BY <1>1, <2>3
      <3>2. worse("allow")
        BY <1>1, <2>3
      <3> QED
        BY <3>1, <3>2
    <2> QED
      BY <2>1, <2>2, <2>3
  <1> HIDE DEF worse
  <1>3. (CHOOSE v \in S : worse(v)) \in S
    BY <1>2
  <1> QED
    BY <1>3 DEF Worst, worse

LEMMA OlderStays ==
  ASSUME NEW cap \in Nat, NEW age \in 0..cap
  PROVE  Older(age, cap) \in 0..cap
  BY DEF Older

-----------------------------------------------------------------------------
(* A tick *)

LEMMA ImageScanType ==
  ASSUME TypeOK, ScanImage \/ NoImageScan
  PROVE  /\ inFlight' \in ImageActions \cup {NoFrame}
         /\ imageVerdict' \in ImageActions
         /\ startAge' \in 0..(ImageInterval + 1)
  <1>1. Older(startAge, ImageInterval + 1) \in 0..(ImageInterval + 1) /\ 0 \in 0..(ImageInterval + 1)
    BY OlderStays DEF TypeOK
  <1>2. CASE ScanImage
    <2>1. \A f \in ImageActions \cup {NoFrame} :
            Classify(f) => inFlight' \in ImageActions \cup {NoFrame} /\ imageVerdict' \in ImageActions
      BY DEF Classify, TypeOK
    <2>2. \E f \in {frame, inFlight} : Classify(f)
      BY <1>2 DEF ScanImage
    <2>3. startAge' \in 0..(ImageInterval + 1)
      BY <1>1, <1>2 DEF ScanImage
    <2> QED
      BY <2>1, <2>2, <2>3 DEF TypeOK
  <1>3. CASE NoImageScan
    BY <1>1, <1>3 DEF NoImageScan, TypeOK
  <1> QED
    BY <1>2, <1>3

LEMMA TextScanType ==
  ASSUME TypeOK, ScanText \/ NoTextScan
  PROVE  /\ textVerdict' \in TextActions
         /\ textApp' \in Apps \cup {NoApp}
         /\ walkAge' \in 0..(WalkInterval + 1)
  <1>1. Older(walkAge, WalkInterval + 1) \in 0..(WalkInterval + 1) /\ 0 \in 0..(WalkInterval + 1)
    BY OlderStays DEF TypeOK
  <1>2. FocusedText \in TextActions
    BY DEF FocusedText, TypeOK
  <1> QED
    BY <1>1, <1>2 DEF ScanText, NoTextScan, TypeOK

\* What a tick of the loop leaves of its two clocks and of its verdict.
LEMMA LoopTick ==
  ASSUME TypeOK, NEW imageDue \in BOOLEAN, NEW ocrDue \in BOOLEAN, ScanLoopTick(imageDue, ocrDue)
  PROVE  /\ ScanImage \/ NoImageScan
         /\ ScanText \/ NoTextScan
         /\ imageAge' = (IF imageDue THEN 0 ELSE Older(imageAge, ImageInterval))
         /\ ~imageDue => NoImageScan
         /\ ocrAge' = (IF ocrDue THEN 0 ELSE Older(ocrAge, OcrMax))
         /\ lastVerdict' \in Actions \cup {NoVerdict}
         /\ ~imageDue /\ ocrDue => lastVerdict' = textVerdict'
         /\ ~imageDue /\ ~ocrDue => lastVerdict' = lastVerdict /\ NoTextScan
  <1>1. /\ IF imageDue THEN ScanImage ELSE NoImageScan
        /\ imageAge' = IF imageDue THEN 0 ELSE Older(imageAge, ImageInterval)
        /\ IF ocrDue THEN ScanText ELSE NoTextScan
        /\ ocrAge' = IF ocrDue THEN 0 ELSE Older(ocrAge, OcrMax)
    BY DEF ScanLoopTick
  <1> DEFINE verdicts == (IF imageDue THEN {imageVerdict'} ELSE {})
                           \cup (IF ocrDue THEN {textVerdict'} ELSE {})
  <1>2. lastVerdict' = IF verdicts = {} THEN lastVerdict ELSE Worst(verdicts)
    BY DEF ScanLoopTick
  <1>3. (ScanImage \/ NoImageScan) /\ (ScanText \/ NoTextScan)
    BY <1>1
  <1>4. verdicts \subseteq Actions
    BY <1>3, ImageScanType, TextScanType
  <1>5. verdicts # {} => Worst(verdicts) \in verdicts
    BY <1>4, WorstIsOne
  <1>6. lastVerdict' \in Actions \cup {NoVerdict}
    BY <1>2, <1>4, <1>5 DEF TypeOK
  <1>7. ~imageDue /\ ocrDue => lastVerdict' = textVerdict'
    BY <1>2, <1>5
  <1>8. ~imageDue /\ ~ocrDue => lastVerdict' = lastVerdict /\ NoTextScan
    BY <1>1, <1>2
  <1> QED
    BY <1>1, <1>3, <1>6, <1>7, <1>8

LEMMA ScanTickInv ==
  ASSUME Inv, ScanTick
  PROVE  Inv'
  <1>0. TypeOK
    BY DEF Inv
  <1>1. PICK changed \in BOOLEAN :
          LET older == Older(ocrAge, OcrMax)
          IN ScanLoopTick(frame # NoFrame /\ Older(imageAge, ImageInterval) = ImageInterval,
                          older = OcrMax \/ (older >= OcrMin /\ changed))
    BY DEF ScanTick, Changed
  <1> DEFINE imageDue == frame # NoFrame /\ Older(imageAge, ImageInterval) = ImageInterval
             ocrDue == Older(ocrAge, OcrMax) = OcrMax \/ (Older(ocrAge, OcrMax) >= OcrMin /\ changed)
  <1>2. /\ imageDue \in BOOLEAN /\ ocrDue \in BOOLEAN
        /\ ScanLoopTick(imageDue, ocrDue)
    BY <1>1
  <1>3. UNCHANGED <<text, screens, streaming, frame>>
    BY DEF ScanTick
  <1>4. Older(imageAge, ImageInterval) \in 0..ImageInterval /\ Older(ocrAge, OcrMax) \in 0..OcrMax
    BY <1>0, OlderStays DEF TypeOK
  <1>5. /\ ScanImage \/ NoImageScan
        /\ ScanText \/ NoTextScan
        /\ imageAge' = (IF imageDue THEN 0 ELSE Older(imageAge, ImageInterval))
        /\ ~imageDue => NoImageScan
        /\ ocrAge' = (IF ocrDue THEN 0 ELSE Older(ocrAge, OcrMax))
        /\ lastVerdict' \in Actions \cup {NoVerdict}
        /\ ~imageDue /\ ocrDue => lastVerdict' = textVerdict'
        /\ ~imageDue /\ ~ocrDue => lastVerdict' = lastVerdict /\ NoTextScan
    <2> HIDE DEF imageDue, ocrDue
    <2> QED
      BY <1>0, <1>2, LoopTick
  <1>6. frame # NoFrame => imageAge' < ImageInterval
    BY <1>4, <1>5
  <1>7. TypeOK'
    <2>1. windows' \subseteq Screens
      BY <1>0 DEF ScanTick, Reconcile, Planned, TypeOK
    <2>2. /\ front' \in Apps \cup {NoApp} /\ command' \in Apps \cup {NoApp}
          /\ hiddenAge' \in [Apps -> 0..Cooldown]
      <3>1. textApp' \in Apps \cup {NoApp}
        BY <1>0, <1>5, TextScanType
      <3>2. [a \in Apps |-> Older(hiddenAge[a], Cooldown)] \in [Apps -> 0..Cooldown]
        <4>1. \A a \in Apps : Older(hiddenAge[a], Cooldown) \in 0..Cooldown
          BY <1>0, OlderStays DEF TypeOK
        <4> QED
          BY <4>1
      <3>3. Suppress(lastVerdict', textApp')
        BY DEF ScanTick
      <3>4. CASE Hides(lastVerdict', textApp')
        <4>1. textApp' \in Apps
          BY <3>4 DEF Hides
        <4> DEFINE older == [a \in Apps |-> Older(hiddenAge[a], Cooldown)]
        <4>2. /\ command' = textApp'
              /\ hiddenAge' \in {older, [older EXCEPT ![textApp'] = 0]}
              /\ front' \in Apps \cup {NoApp}
          BY <1>0, <3>3, <3>4 DEF Suppress, TypeOK
        <4>3. 0 \in 0..Cooldown
          OBVIOUS
        <4> HIDE DEF older
        <4>4. [older EXCEPT ![textApp'] = 0] \in [Apps -> 0..Cooldown]
          BY <3>2, <4>3 DEF older
        <4> QED
          BY <3>2, <4>1, <4>2, <4>4 DEF older
      <3>5. CASE ~Hides(lastVerdict', textApp')
        BY <1>0, <3>2, <3>3, <3>5 DEF Suppress, TypeOK
      <3> QED
        BY <3>4, <3>5
    <2>3. imageAge' \in 0..ImageInterval /\ ocrAge' \in 0..OcrMax
      <3>1. 0 \in 0..ImageInterval /\ 0 \in 0..OcrMax
        OBVIOUS
      <3> HIDE DEF imageDue, ocrDue
      <3> QED
        BY <1>4, <1>5, <3>1
    <2>4. /\ inFlight' \in ImageActions \cup {NoFrame} /\ imageVerdict' \in ImageActions
          /\ startAge' \in 0..(ImageInterval + 1)
      BY <1>0, <1>5, ImageScanType
    <2>5. /\ textVerdict' \in TextActions /\ textApp' \in Apps \cup {NoApp}
          /\ walkAge' \in 0..(WalkInterval + 1)
      BY <1>0, <1>5, TextScanType
    <2> QED
      BY <1>0, <1>3, <1>5, <2>1, <2>2, <2>3, <2>4, <2>5 DEF TypeOK
  <1>8. ScansAreDue'
    BY <1>3, <1>5, <1>6 DEF Inv, ScansAreDue, NoImageScan
  <1>9. CoverIsBacked'
    <2>1. CASE frame # NoFrame
      BY <1>3, <1>6, <2>1 DEF CoverIsBacked
    <2>2. CASE frame = NoFrame
      <3>1. ~imageDue /\ UNCHANGED imageVerdict
        BY <1>5, <2>2 DEF NoImageScan
      <3>2. CASE ocrDue
        BY <1>5, <3>1, <3>2 DEF CoverIsBacked
      <3>3. CASE ~ocrDue
        <4>1. UNCHANGED <<lastVerdict, textVerdict, imageVerdict>>
          BY <1>5, <3>1, <3>3 DEF NoTextScan
        <4> QED
          BY <2>2, <4>1 DEF Inv, CoverIsBacked
      <3> QED
        BY <3>2, <3>3
    <2> QED
      BY <2>1, <2>2
  <1> QED
    BY <1>7, <1>8, <1>9 DEF Inv

-----------------------------------------------------------------------------
(* Between two ticks *)

LEMMA BetweenInv ==
  ASSUME Inv, Finish \/ Deliver \/ Revoke \/ Focus \/ Browse \/ ScreensChange \/ ScreensNotified
  PROVE  Inv'
  <1> USE DEF Inv, ScansAreDue, CoverIsBacked, TypeOK, desktop, loop, imageScanner, textScanner, effects
  <1>1. CASE Finish
    BY <1>1 DEF Finish
  <1>2. CASE Deliver
    <2>1. frame' \in ImageActions /\ frame' # NoFrame
      BY <1>2 DEF Deliver
    <2>2. UNCHANGED <<desktop, screens, streaming, loop, imageScanner, textScanner, effects>>
      BY <1>2 DEF Deliver
    <2> QED
      BY <2>1, <2>2
  <1>3. CASE Revoke
    BY <1>3 DEF Revoke
  <1>4. CASE Focus
    BY <1>4 DEF Focus
  <1>5. CASE Browse
    BY <1>5 DEF Browse
  <1>6. CASE ScreensChange
    BY <1>6 DEF ScreensChange
  <1>7. CASE ScreensNotified
    BY <1>7 DEF ScreensNotified, Reconcile, Planned
  <1> QED
    BY <1>1, <1>2, <1>3, <1>4, <1>5, <1>6, <1>7

LEMMA InitInv == Init => Inv
  BY DEF Init, Inv, TypeOK, ScansAreDue, CoverIsBacked

LEMMA NextInv == Inv /\ [Next]_vars => Inv'
  <1> SUFFICES ASSUME Inv, [Next]_vars PROVE Inv'
    OBVIOUS
  <1>1. CASE ScanTick
    BY <1>1, ScanTickInv
  <1>2. CASE Finish \/ Deliver \/ Revoke \/ Focus \/ Browse \/ ScreensChange \/ ScreensNotified
    BY <1>2, BetweenInv
  <1>3. CASE UNCHANGED vars
    BY <1>3 DEF vars, desktop, loop, imageScanner, textScanner, effects, Inv, TypeOK, ScansAreDue,
                CoverIsBacked
  <1> QED
    BY <1>1, <1>2, <1>3, Zenon DEF Next

LEMMA InvAlways == Spec => []Inv
  BY InitInv, NextInv, PTL DEF Spec

\* Verdicts are actions or none at all, ages stay within the intervals they are
\* compared with, and there is no window on a screen there is not.
THEOREM AgentTypeCorrect == Spec => []TypeOK
  <1>1. Inv => TypeOK
    BY DEF Inv
  <1> QED
    BY <1>1, InvAlways, PTL

\* What is on screen is at any time the word of a scanner, or will be looked at
\* again before the interval of the image scan is over.
THEOREM CoverAlwaysBacked == Spec => []CoverIsBacked
  <1>1. Inv => CoverIsBacked
    BY DEF Inv
  <1> QED
    BY <1>1, InvAlways, PTL

-----------------------------------------------------------------------------
(* The tamper watch. The events between two readings, told to somebody who     *)
(* knows the first, give the second: no change cancels another out or hides   *)
(* behind it.                                                                *)

WatchInv == WatchTypeOK /\ LogTellsReading /\ OneStart

\* What is told of a reading and of the events to the next is what the next one says
\* (transitions, difference).
LEMMA EventsAddUp ==
  ASSUME NEW s \in Snapshots, NEW t \in Snapshots
  PROVE  Tell(Baseline(s), Transitions(s, t)) = Baseline(t)
<1>1. Tell(Baseline(s), Transitions(s, t)).granted = Granted(t)
  BY DEF Tell, Baseline, Transitions, Granted
<1>2. Tell(Baseline(s), Transitions(s, t)).users = t.users
  BY DEF Tell, Baseline, Transitions
<1>3. Tell(Baseline(s), Transitions(s, t)).admins = t.admins
  BY DEF Tell, Baseline, Transitions
<1>4. Tell(Baseline(s), Transitions(s, t)).sip = t.sip
  <2>1. s.sip \in BOOLEAN /\ t.sip \in BOOLEAN
    BY DEF Snapshots
  <2>2. CASE s.sip = t.sip
    <3>1. Transitions(s, t).sipTurned = {}
      BY <2>2 DEF Transitions
    <3> QED
      BY <3>1, <2>2 DEF Tell, Baseline
  <2>3. CASE s.sip # t.sip
    <3>1. Transitions(s, t).sipTurned = {t.sip}
      BY <2>3 DEF Transitions
    <3>2. CASE t.sip = TRUE
      BY <3>1, <3>2 DEF Tell
    <3>3. CASE t.sip = FALSE
      <4>1. TRUE \notin {t.sip}
        BY <3>3
      <4> QED
        BY <3>1, <3>3, <4>1 DEF Tell
    <3> QED
      BY <3>2, <3>3, <2>1
  <2> QED
    BY <2>2, <2>3
<1> QED
  BY <1>1, <1>2, <1>3, <1>4 DEF Tell, Baseline

\* What a poll has read when it ends is a snapshot.
LEMMA CurrentIsSnapshot == WatchTypeOK => Current \in Snapshots
<1> SUFFICES ASSUME WatchTypeOK PROVE Current \in Snapshots
  OBVIOUS
<1>1. \A c \in Capabilities : State(c) \in PermissionStates
  BY DEF WatchTypeOK, State, Machines, PermissionStates
<1> QED
  BY <1>1 DEF Current, WatchTypeOK, Snapshots

LEMMA WatchInvInit == WatchInit => WatchInv
<1> SUFFICES ASSUME WatchInit PROVE WatchInv
  OBVIOUS
<1>1. bootTime \in Seconds
  BY DEF WatchInit, Machines
<1>2. boots \in Nat \ {0} /\ lastBoot \in Nat
  BY DEF WatchInit
<1>3. WatchTypeOK
  BY <1>1, <1>2 DEF WatchInit, WatchTypeOK
<1> QED
  BY <1>3 DEF WatchInit, WatchInv, LogTellsReading, OneStart

LEMMA WatchInvStep == WatchInv /\ [WatchNext]_watchVars => WatchInv'
<1> SUFFICES ASSUME WatchInv, [WatchNext]_watchVars PROVE WatchInv'
  OBVIOUS
<1> USE DEF WatchInv, LogTellsReading, OneStart
<1>1. CASE Start
  BY <1>1 DEF Start, WatchTypeOK, reading
<1>2. CASE Tick
  BY <1>2 DEF Tick, WatchTypeOK, reading
<1>3. CASE ReadStatus
  BY <1>3 DEF ReadStatus, WatchTypeOK, ParseSIPStatus
<1>4. CASE ReadUsers
  BY <1>4 DEF ReadUsers, WatchTypeOK, ParseUserList, Machines
<1>5. CASE ReadAdmins
  BY <1>5 DEF ReadAdmins, WatchTypeOK, Machines
<1>6. CASE ReadBootTime
  BY <1>6 DEF ReadBootTime, WatchTypeOK, Machines
<1>7. CASE Poll
  <2>1. Current \in Snapshots
    BY CurrentIsSnapshot
  <2>2. WatchTypeOK'
    BY <1>7, <2>1 DEF Poll, WatchTypeOK, reading
  <2>3. told' = Baseline(Current)
    <3>1. CASE last = NoSnapshot
      BY <1>7, <3>1 DEF Poll
    <3>2. CASE last # NoSnapshot
      <4>1. last \in Snapshots /\ told = Baseline(last)
        BY <3>2 DEF WatchTypeOK
      <4>2. told' = Tell(told, Transitions(last, Current))
        BY <1>7, <3>2 DEF Poll
      <4> QED
        BY <4>1, <4>2, <2>1, EventsAddUp
    <3> QED
      BY <3>1, <3>2
  <2>4. LogTellsReading' /\ OneStart'
    BY <1>7, <2>3 DEF Poll
  <2> QED
    BY <2>2, <2>4
<1>8. CASE PollFails
  BY <1>8 DEF PollFails, WatchTypeOK, reading
<1>9. CASE Stop
  BY <1>9 DEF Stop, Ends, WatchTypeOK, reading
<1>10. CASE Change
  BY <1>10 DEF Change, WatchTypeOK, reading
<1>11. CASE Reboot
  <2>1. boots' \in Nat \ {0} /\ lastBoot' \in Nat
    BY <1>11 DEF Reboot, Ends, WatchTypeOK
  <2>2. machine' \in Machines /\ last' = NoSnapshot
    BY <1>11 DEF Reboot, Ends
  <2>3. WatchTypeOK'
    BY <1>11, <2>1, <2>2 DEF Reboot, Ends, WatchTypeOK, reading
  <2> QED
    BY <2>2, <2>3
<1>12. CASE UNCHANGED watchVars
  BY <1>12 DEF watchVars, WatchTypeOK, reading
<1> QED
  BY <1>1, <1>2, <1>3, <1>4, <1>5, <1>6, <1>7, <1>8, <1>9, <1>10, <1>11, <1>12 DEF WatchNext

\* Every reachable state has its type, its log tells its latest reading, and that reading is
\* of the present start of the machine.
THEOREM WatchInvAlways == WatchSpec => []WatchInv
<1>1. WatchInit => WatchInv
  BY WatchInvInit
<1>2. WatchInv /\ [WatchNext]_watchVars => WatchInv'
  BY WatchInvStep
<1> QED
  BY <1>1, <1>2, PTL DEF WatchSpec

\* The log of an agent, read from its first reading on, always tells its latest reading,
\* whatever polls failed and whatever changed in the middle of one (poll).
THEOREM LogAlwaysTells == WatchSpec => []LogTellsReading
<1>1. WatchInv => LogTellsReading
  BY DEF WatchInv
<1> QED
  BY <1>1, WatchInvAlways, PTL

\* The log gives the level of protection the agent would claim (assess).
THEOREM LevelAlwaysTold == WatchSpec => []LevelIsTold
<1>1. LogTellsReading => LevelIsTold
  BY DEF LogTellsReading, LevelIsTold, Baseline
<1> QED
  BY <1>1, LogAlwaysTells, PTL

\* No agent ever compares a reading with one of before a restart of the machine: the
\* "rebooted" it logs stands for a clock that was set (rebootTolerance).
THEOREM NoRestartIsTold == WatchSpec => []OneStart
<1>1. WatchInv => OneStart
  BY DEF WatchInv
<1> QED
  BY <1>1, WatchInvAlways, PTL

=============================================================================
