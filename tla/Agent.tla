--------------------------------- MODULE Agent ---------------------------------
(***************************************************************************)
(* The Layer 2 agent of the mac daemon: AgentRenderLoop drives ScanLoop      *)
(* from a repeating timer; ScanLoop asks the image scanner and the text      *)
(* scanner at two cadences and keeps the worst verdict of the tick; the      *)
(* overlay follows that verdict and WindowSuppressor hides an application.   *)
(* Frames come from the capture stream and classifications end on a queue    *)
(* of their own, both between any two ticks.                                 *)
(*                                                                          *)
(* One tick of the timer is one unit of time. An age counts the ticks since  *)
(* something happened and stops once every comparison with it is decided;    *)
(* "never" starts there. Scores are abstracted to the action they lead to,   *)
(* and a frame to the action the classifier gives for what it shows.         *)
(* ScanLoop.setMode, setEligibility and signalEvent have no caller in the    *)
(* agent, so the mode is full, the surface eligible and no event pending.    *)
(***************************************************************************)
EXTENDS Integers, FiniteSets

CONSTANTS
  Apps,           (* bundle identifiers of the running applications *)
  Protected,      (* SuppressionPolicy.protectedBundleIdentifiers among them *)
  Screens,        (* displays that may be connected *)
  TextActions,    (* actions the text policy gives for what applications show *)
  ImageActions,   (* actions the classifier gives for what applications show *)
  ImageInterval,  (* ScanLoopConfig.imageInterval and ImageScanner's own, in ticks *)
  OcrMin,         (* ScanLoopConfig.ocrMinInterval *)
  OcrMax,         (* ScanLoopConfig.ocrMaxInterval *)
  WalkInterval,   (* AccessibilityScanner.minimumWalkInterval *)
  Cooldown,       (* SuppressionPolicy.cooldown *)
  NoApp,          (* no focused window, no application *)
  NoFrame,        (* CapturedFrame.empty; no classification in flight *)
  NoVerdict       (* lastVerdict is nil *)

Actions == {"allow", "warn", "block"}

ASSUME AppAssumption == Protected \subseteq Apps /\ NoApp \notin Apps
ASSUME ScreenAssumption == IsFiniteSet(Screens)
ASSUME ActionAssumption ==
  /\ TextActions \subseteq Actions /\ ImageActions \subseteq Actions
  /\ "allow" \in TextActions \cap ImageActions
  /\ NoVerdict \notin Actions
ASSUME IntervalAssumption ==
  /\ ImageInterval \in Nat \ {0} /\ OcrMin \in Nat \ {0} /\ OcrMax \in Nat
  /\ WalkInterval \in Nat \ {0} /\ Cooldown \in Nat
  /\ OcrMin <= OcrMax

ASSUME NoFrameAssumption == NoFrame \notin Actions

VARIABLES
  front,        (* the application with the focused window *)
  text,         (* what the text policy says of each application's window *)
  screens,      (* connected displays *)
  streaming,    (* Screen Recording is granted: the stream delivers frames *)
  frame,        (* FrameCache.lastComplete *)
  lastVerdict,  (* ScanLoop.lastVerdict *)
  imageAge,     (* ScanLoop.lastImageScanAt *)
  ocrAge,       (* ScanLoop.lastOCRScanAt *)
  inFlight,     (* the frame being classified *)
  imageVerdict, (* ImageScanner.State.verdict *)
  startAge,     (* ImageScanner.State.lastStartedAt *)
  textVerdict,  (* AccessibilityScanner.lastVerdict *)
  textApp,      (* AccessibilityScanner.lastVerdictApplication *)
  walkAge,      (* AccessibilityScanner.lastWalkAt *)
  windows,      (* OverlayController.windows, by screen *)
  hiddenAge,    (* WindowSuppressor.lastHiddenAt *)
  command       (* the application the last tick asked to hide, or NoApp *)

desktop == <<front, text>>
loop == <<lastVerdict, imageAge, ocrAge>>
imageScanner == <<inFlight, imageVerdict, startAge>>
textScanner == <<textVerdict, textApp, walkAge>>
effects == <<windows, hiddenAge, command>>
vars == <<desktop, screens, streaming, frame, loop, imageScanner, textScanner, effects>>

TypeOK ==
  /\ front \in Apps \cup {NoApp}
  /\ text \in [Apps -> TextActions]
  /\ screens \in SUBSET Screens
  /\ streaming \in BOOLEAN
  /\ frame \in ImageActions \cup {NoFrame}
  /\ lastVerdict \in Actions \cup {NoVerdict}
  /\ imageAge \in 0..ImageInterval
  /\ ocrAge \in 0..OcrMax
  /\ inFlight \in ImageActions \cup {NoFrame}
  /\ imageVerdict \in ImageActions
  /\ startAge \in 0..(ImageInterval + 1)
  /\ textVerdict \in TextActions
  /\ textApp \in Apps \cup {NoApp}
  /\ walkAge \in 0..(WalkInterval + 1)
  /\ windows \in SUBSET Screens
  /\ hiddenAge \in [Apps -> 0..Cooldown]
  /\ command \in Apps \cup {NoApp}

Init ==
  /\ front \in Apps \cup {NoApp}
  /\ text \in [Apps -> TextActions]
  /\ screens \in SUBSET Screens
  /\ streaming \in BOOLEAN
  /\ frame = NoFrame
  /\ lastVerdict = NoVerdict
  /\ imageAge = ImageInterval
  /\ ocrAge = OcrMax
  /\ inFlight = NoFrame
  /\ imageVerdict = "allow"
  /\ startAge = ImageInterval + 1
  /\ textVerdict = "allow"
  /\ textApp = NoApp
  /\ walkAge = WalkInterval + 1
  /\ windows = {}
  /\ hiddenAge = [a \in Apps |-> Cooldown]
  /\ command = NoApp

-----------------------------------------------------------------------------
(* Verdicts, cadences and the overlay's plan *)

Severity(action) == CASE action = "block" -> 2 [] action = "warn" -> 1 [] OTHER -> 0

\* verdicts.max(by:) over the tick's verdicts
Worst(S) == CHOOSE v \in S : \A w \in S : Severity(w) <= Severity(v)

Older(age, cap) == IF age < cap THEN age + 1 ELSE age

\* A scanner reads the clock after the loop did, so an interval that the loop
\* measures as just elapsed may read as just short of it.
Elapsed(age, interval) ==
  IF age < interval THEN {FALSE} ELSE IF age = interval THEN BOOLEAN ELSE {TRUE}

\* FrameFingerprint samples the pixels: of two frames with pixels the loop may
\* or may not notice a difference. An empty frame always counts as changed.
Changed == IF frame = NoFrame THEN {TRUE} ELSE BOOLEAN

\* OverlayPlan.plan: one window on every screen, or none at all
Planned(intent) == IF intent = "none" THEN {} ELSE screens

\* overlayIntent(forVerdict:)
Intent(verdict) == IF verdict \in {NoVerdict, "allow"} THEN "none" ELSE "interstitial"

\* Seeded fault: what the plan no longer asks for is not closed.
ReconcileAddsOnly(intent) == windows' = windows \cup Planned(intent)

\* OverlayController.reconcile: what diff closes goes, what it creates is added.
Reconcile(intent) ==
  LET closed == windows \ Planned(intent)
      created == Planned(intent) \ windows
  IN windows' = (windows \ closed) \cup created

-----------------------------------------------------------------------------
(* The two scanners, asked once in a tick *)

\* ImageScanner.scan: a due classification takes the frame if none is running.
\* The answer is the verdict of the last one that ended, which may be one that
\* runs while the tick does.
Classify(f) ==
  \/ inFlight' = f /\ UNCHANGED imageVerdict
  \/ f # NoFrame /\ inFlight' = NoFrame /\ imageVerdict' = f

ScanImage ==
  \E due \in Elapsed(Older(startAge, ImageInterval + 1), ImageInterval) :
    IF due /\ inFlight = NoFrame
      THEN Classify(frame) /\ startAge' = 0
      ELSE Classify(inFlight) /\ startAge' = Older(startAge, ImageInterval + 1)

\* evaluateFocusedText: no focused window gives no text, and no text allows.
FocusedText == IF front = NoApp THEN "allow" ELSE text[front]

\* Seeded fault: within the interval the text is allowed.
ScanTextForgets ==
  \E due \in Elapsed(Older(walkAge, WalkInterval + 1), WalkInterval) :
    IF due
      THEN textVerdict' = FocusedText /\ textApp' = front /\ walkAge' = 0
      ELSE /\ walkAge' = Older(walkAge, WalkInterval + 1)
           /\ textVerdict' = "allow" /\ UNCHANGED textApp

\* AccessibilityScanner.scan: within the interval the last verdict is repeated.
ScanText ==
  \E due \in Elapsed(Older(walkAge, WalkInterval + 1), WalkInterval) :
    IF due
      THEN textVerdict' = FocusedText /\ textApp' = front /\ walkAge' = 0
      ELSE /\ walkAge' = Older(walkAge, WalkInterval + 1)
           /\ UNCHANGED <<textVerdict, textApp>>

NoImageScan ==
  /\ startAge' = Older(startAge, ImageInterval + 1)
  /\ UNCHANGED <<inFlight, imageVerdict>>
NoTextScan ==
  /\ walkAge' = Older(walkAge, WalkInterval + 1)
  /\ UNCHANGED <<textVerdict, textApp>>

-----------------------------------------------------------------------------
(* AgentRenderLoop.scanTick *)

\* Seeded fault: a verdict only ever grows worse.
ScanLoopTickSticky(imageDue, ocrDue) ==
  /\ IF imageDue THEN ScanImage ELSE NoImageScan
  /\ imageAge' = IF imageDue THEN 0 ELSE Older(imageAge, ImageInterval)
  /\ IF ocrDue THEN ScanText ELSE NoTextScan
  /\ ocrAge' = IF ocrDue THEN 0 ELSE Older(ocrAge, OcrMax)
  /\ lastVerdict' = Worst({lastVerdict} \cup (IF imageDue THEN {imageVerdict'} ELSE {})
                             \cup (IF ocrDue THEN {textVerdict'} ELSE {}))

\* ScanLoop.tick; what the tick leaves is the worst verdict of this tick alone.
ScanLoopTick(imageDue, ocrDue) ==
  /\ IF imageDue THEN ScanImage ELSE NoImageScan
  /\ imageAge' = IF imageDue THEN 0 ELSE Older(imageAge, ImageInterval)
  /\ IF ocrDue THEN ScanText ELSE NoTextScan
  /\ ocrAge' = IF ocrDue THEN 0 ELSE Older(ocrAge, OcrMax)
  /\ LET verdicts == (IF imageDue THEN {imageVerdict'} ELSE {})
                        \cup (IF ocrDue THEN {textVerdict'} ELSE {})
     IN lastVerdict' = IF verdicts = {} THEN lastVerdict ELSE Worst(verdicts)

\* SuppressionDecision.command; nobody to hide without a walked application
Hides(verdict, target) ==
  /\ verdict = "block"
  /\ target \in Apps \ Protected
  /\ Older(hiddenAge[target], Cooldown) = Cooldown

\* Seeded fault: the cooldown of a hidden application never runs down.
SuppressOnce(verdict, target) ==
  IF target \in Apps /\ Hides(verdict, target) /\ hiddenAge[target] = Cooldown
    THEN /\ command' = target
         /\ hiddenAge' = [hiddenAge EXCEPT ![target] = 0]
         /\ front' \in {front} \cup (IF front = target THEN Apps \cup {NoApp} ELSE {})
    ELSE command' = NoApp /\ UNCHANGED <<front, hiddenAge>>

\* WindowSuppressor.apply: the application may refuse, which starts no cooldown,
\* or accept and go, or accept and stay.
Suppress(verdict, target) ==
  LET older == [a \in Apps |-> Older(hiddenAge[a], Cooldown)]
  IN IF Hides(verdict, target)
       THEN /\ command' = target
            /\ \/ hiddenAge' = older /\ UNCHANGED front
               \/ /\ hiddenAge' = [older EXCEPT ![target] = 0]
                  /\ front' \in {front} \cup (IF front = target
                                               THEN (Apps \ {target}) \cup {NoApp}
                                               ELSE {})
       ELSE command' = NoApp /\ hiddenAge' = older /\ UNCHANGED front

ScanTick ==
  /\ \E changed \in Changed :
       LET older == Older(ocrAge, OcrMax)
       IN ScanLoopTick(frame # NoFrame /\ Older(imageAge, ImageInterval) = ImageInterval,
                       older = OcrMax \/ (older >= OcrMin /\ changed))
  /\ Reconcile(Intent(lastVerdict'))
  /\ Suppress(lastVerdict', textApp')
  /\ UNCHANGED <<text, screens, streaming, frame>>

-----------------------------------------------------------------------------
(* What happens between ticks *)

\* The work dispatched by ImageScanner.scan ends: State.finish.
Finish ==
  /\ inFlight # NoFrame
  /\ imageVerdict' = inFlight
  /\ inFlight' = NoFrame
  /\ UNCHANGED <<desktop, screens, streaming, frame, loop, startAge, textScanner, effects>>

\* stream(_:didOutputSampleBuffer:of:) with a complete frame; any other delivery
\* keeps the last one.
Deliver ==
  /\ streaming
  /\ frame' \in ImageActions \ {frame}
  /\ UNCHANGED <<desktop, screens, streaming, loop, imageScanner, textScanner, effects>>

\* Screen Recording is revoked: no further frame, and the last one is kept.
Revoke ==
  /\ streaming
  /\ streaming' = FALSE
  /\ UNCHANGED <<desktop, screens, frame, loop, imageScanner, textScanner, effects>>

\* The user turns to another application, or to none.
Focus ==
  /\ front' \in (Apps \cup {NoApp}) \ {front}
  /\ UNCHANGED <<text, screens, streaming, frame, loop, imageScanner, textScanner, effects>>

\* The application in front shows other text.
Browse ==
  /\ front # NoApp
  /\ \E t \in TextActions \ {text[front]} : text' = [text EXCEPT ![front] = t]
  /\ UNCHANGED <<front, screens, streaming, frame, loop, imageScanner, textScanner, effects>>

\* A display is connected or disconnected, and the controller is told:
\* didChangeScreenParametersNotification.
ScreensChange ==
  /\ screens' \in SUBSET Screens \ {screens}
  /\ UNCHANGED <<desktop, streaming, frame, loop, imageScanner, textScanner, effects>>

ScreensNotified ==
  /\ Reconcile(Intent(lastVerdict))
  /\ UNCHANGED <<desktop, screens, streaming, frame, loop, imageScanner, textScanner, hiddenAge,
                 command>>

Next ==
  \/ ScanTick \/ Finish \/ Deliver \/ Revoke \/ Focus \/ Browse
  \/ ScreensChange \/ ScreensNotified

\* The timer repeats and the classification queue runs.
Fairness == WF_vars(ScanTick) /\ WF_vars(Finish)

Spec == Init /\ [][Next]_vars /\ Fairness

-----------------------------------------------------------------------------
(* Properties *)

Covered == screens \subseteq windows

\* A verdict on screen is at any time the word of one of the two scanners, or
\* an image verdict that was replaced since the last image scan, which the next
\* one due will take back (worst of the tick, in-flight ticks repeating the last
\* verdict, the walk gate repeating the text verdict).
CoverIsBacked ==
  \/ lastVerdict \in {NoVerdict, "allow", textVerdict, imageVerdict}
  \/ frame # NoFrame /\ imageAge < ImageInterval

\* While the text in front calls for it, of whichever application, a cover comes, and
\* comes again if it went, whatever the image scanner says and without any Screen
\* Recording grant. It stays where the last frame, if there is one, is not allowed on
\* its own; what CoverStays says of the others does not hold.
TextIsCovered ==
  /\ (FocusedText = "block") ~> (Covered \/ FocusedText # "block")
  /\ \A s \in SUBSET Screens :
       <>[](FocusedText = "block" /\ frame # "allow" /\ screens = s) => <>[](windows = s)

\* What AccessibilityScanner.swift:186-189 repeats the text verdict for: the interstitial
\* is not torn down over content that never stopped being blocked. It does not hold: in
\* a tick that asks the image scanner alone, ScanLoop keeps the verdict of that one.
StillBlocked == FocusedText = "block" /\ textVerdict = "block" /\ screens # {}
CoverStays == [][(windows # {} /\ StillBlocked /\ StillBlocked') => windows' # {}]_vars

\* The cover goes once neither the text in front nor the last frame calls for
\* it, whatever verdicts and classifications are still under way.
CoverIsLifted ==
  (frame # "block" /\ FocusedText = "allow")
    ~> (windows = {} \/ frame = "block" \/ FocusedText # "allow")

\* An application that keeps showing blocked text is asked to hide, however
\* often it refused and whatever cooldown an earlier hide has left.
OffenderIsAsked ==
  \A a \in Apps \ Protected :
    (front = a /\ text[a] = "block") ~> (command = a \/ front # a \/ text[a] # "block")

=============================================================================
