------------------------------ MODULE ScreenGuard ------------------------------
(***************************************************************************)
(* ScreenGuardService of the mobile app with what it drives: ScanGate,       *)
(* SettingsGuard, RescanSchedule, CustomAppEnforcement and OverlayController *)
(* (policy/ and the service of src/apps/mobile). Everything runs on the main *)
(* thread; what interleaves are accessibility events, the deferred re-look,  *)
(* the enforcement re-check, posted list changes, and the user.              *)
(*                                                                          *)
(* The screen has a focused window and, in split screen, a second one. While *)
(* it is still being drawn its node trees may be missing. Time is abstracted *)
(* to what the handlers compare: a back-out is fresh (BACK_OUT_REFIRE), then *)
(* recent (BACK_OUT_RESET), then old; whether the debounce of a scan is over *)
(* is left open. The global HOME action and its rate limit are left out: the user may *)
(* change the screen at any time, and so may the system.                     *)
(***************************************************************************)
EXTENDS Integers, FiniteSets

CONSTANTS
  Packages,       (* packages with windows *)
  Watched,        (* SettingsProfile.settingsPackages and uninstallerPackages *)
  Listable,       (* custom apps that are not protected and not rated NEVER *)
  Self,           (* our own package *)
  NoPackage,      (* no window; no root; no package yet *)
  Surfaces,       (* guarded surfaces of the profile *)
  NoSurface,      (* a settings page that matches none *)
  Texts,          (* what a window may show *)
  NoText,         (* TextAssembler finds nothing usable, if among Texts *)
  Blocked,        (* texts the policy blocks or blurs *)
  Warned,         (* texts the policy warns of *)
  MaxBackOuts,    (* MAX_CONSECUTIVE_BACK_OUTS *)
  MaxLooks        (* length of RescanSchedule's offsets *)

ASSUME PackageAssumption ==
  /\ Watched \subseteq Packages /\ Listable \subseteq Packages \ Watched
  /\ Self \notin Watched \cup Listable /\ NoPackage \notin Packages \cup {Self}
ASSUME SurfaceAssumption == NoSurface \notin Surfaces
ASSUME TextAssumption ==
  Blocked \cup Warned \subseteq Texts \ {NoText} /\ Blocked \cap Warned = {}
ASSUME BoundAssumption == MaxBackOuts \in Nat \ {0} /\ MaxLooks \in Nat \ {0}

VARIABLES
  front,         (* the package of the focused window *)
  back,          (* the package of the other pane in split screen, or NoPackage *)
  page,          (* the surface the settings app shows *)
  text,          (* the text of the focused window *)
  drawn,         (* the windows have finished drawing: their trees can be read *)
  owed,          (* packages whose window event is still to be delivered *)
  guardOn,       (* ProtectionState.guardActive *)
  drawable,      (* the window manager accepts an overlay *)
  connected,     (* onServiceConnected ran and teardown did not *)
  listedApps,    (* ScreenGuardService.listedApps *)
  customCoverUp, (* ScreenGuardService.customCoverUp *)
  enforcePosted, (* enforceTask is in the queue *)
  guard,         (* SettingsGuard: active, surface, count, age *)
  rescan,        (* rescanTask in the queue, RescanSchedule.nextIndex *)
  gate,          (* ScanGate: package, text *)
  overlay,       (* OverlayController: shown (shownState), view *)
  due            (* the guarded page in front still has to be acted on *)

screen == <<front, back, page, text, drawn>>
settings == <<guardOn, drawable>>
service == <<connected, listedApps, customCoverUp, enforcePosted, guard, rescan,
             gate, overlay>>
vars == <<screen, owed, settings, service, due>>

Shown == {"COVER", "WARN", "CLEAR"}

TypeOK ==
  /\ front \in Packages /\ back \in Packages \cup {NoPackage}
  /\ page \in Surfaces \cup {NoSurface}
  /\ text \in Texts
  /\ owed \subseteq Packages
  /\ listedApps \subseteq Listable
  /\ {drawn, guardOn, drawable, connected, customCoverUp, enforcePosted, due} \subseteq BOOLEAN
  /\ guard \in [active : BOOLEAN, surface : Surfaces \cup {NoSurface},
                count : 0..(MaxBackOuts + 1), age : {"fresh", "recent", "old"}]
  /\ rescan \in [posted : BOOLEAN, next : 0..MaxLooks]
  /\ gate \in [package : Packages \cup {NoPackage}, text : Texts \cup {NoText}]
  /\ overlay \in [shown : Shown, view : {"COVER", "WARN", "NONE"}]

NewGuard == [active |-> FALSE, surface |-> NoSurface, count |-> 0, age |-> "old"]
NewRescan == [posted |-> FALSE, next |-> 0]
NewGate == [package |-> NoPackage, text |-> NoText]
NewOverlay == [shown |-> "CLEAR", view |-> "NONE"]

Visible == {front, back} \ {NoPackage}

Init ==
  /\ front \in Packages \ Watched /\ back = NoPackage
  /\ page = NoSurface /\ text \in Texts
  /\ drawn = TRUE /\ owed = {}
  /\ guardOn \in BOOLEAN /\ drawable = TRUE
  /\ connected = FALSE
  /\ listedApps = {} /\ customCoverUp = FALSE /\ enforcePosted = FALSE
  /\ guard = NewGuard /\ rescan = NewRescan /\ gate = NewGate /\ overlay = NewOverlay
  /\ due = FALSE

-----------------------------------------------------------------------------
(* What the handlers call *)

\* OverlayController.apply: show() takes the old window away before it adds one.
Apply(state, o) ==
  CASE state = o.shown -> o
    [] state # o.shown /\ state = "CLEAR" -> NewOverlay
    [] state # o.shown /\ state # "CLEAR" /\ drawable -> [shown |-> state, view |-> state]
    [] OTHER -> [o EXCEPT !.view = "NONE"]

\* What the window list shows: while the screen is drawn the roots may be null.
Sights == IF drawn THEN {Visible} ELSE {Visible, {}}

\* foregroundPackage()
Foreground(seen) == IF front \in seen THEN front ELSE NoPackage

\* SettingsGuard.match over watchedWindows
Matched(seen) == IF drawn /\ seen \cap Watched # {} THEN page ELSE NoSurface

\* SettingsGuard.resetBound, setGuardActive
ResetBound(g) == [g EXCEPT !.surface = NoSurface, !.count = 0, !.age = "old"]
SetGuardActive(g) == IF g.active = guardOn THEN g ELSE ResetBound([g EXCEPT !.active = guardOn])

\* SettingsGuard.evaluate
BackOutCount(g, s) == IF s = g.surface /\ g.age # "old" THEN g.count + 1 ELSE 1

Evaluate(g, s, focused) ==
  CASE ~g.active -> [decision |-> "Ignore", guard |-> g]
    [] g.active /\ s = NoSurface -> [decision |-> "Ignore", guard |-> ResetBound(g)]
    [] g.active /\ s # NoSurface /\ ~focused -> [decision |-> "CoverOnly", guard |-> g]
    [] g.active /\ s # NoSurface /\ focused /\ s = g.surface /\ g.age = "fresh" ->
         [decision |-> "Ignore", guard |-> g]
    [] OTHER ->
         LET count == BackOutCount(g, s)
         IN [decision |-> IF count > MaxBackOuts THEN "CoverOnly" ELSE "BackOut",
             guard |-> [g EXCEPT !.surface = s, !.age = "fresh",
                                 !.count = IF count > MaxBackOuts THEN MaxBackOuts + 1
                                                                  ELSE count]]

\* applyDecision: back out with the cover lifted, or cover.
Decided(decision, o) ==
  CASE decision = "BackOut" -> Apply("CLEAR", o)
    [] decision = "CoverOnly" -> Apply("COVER", o)
    [] OTHER -> o

\* RescanSchedule.advance with the posting of rescanTask. What the index is
\* while nothing is posted does not matter: the next event starts it again.
Advance(next) == IF next < MaxLooks THEN [posted |-> TRUE, next |-> next + 1] ELSE NewRescan

\* ScanGate.coverFor
CoverFor(t) == IF t \in Blocked THEN "COVER" ELSE IF t \in Warned THEN "WARN" ELSE "CLEAR"

\* ScanGate.onScreenText
Harvested(p, seen) == p # Self /\ front \in seen /\ text # NoText
Duplicate(p) == p = gate.package /\ text = gate.text
Scans(p, seen) == Harvested(p, seen) /\ ~Duplicate(p)

-----------------------------------------------------------------------------
(* enforceCustomApps *)

Enforced(packages) == guardOn /\ packages \cap listedApps # {}

\* Seeded fault: a cover that is thought to be up is not applied again.
CoverCustomOnce ==
  /\ overlay' = IF customCoverUp THEN overlay ELSE Apply("COVER", overlay)
  /\ customCoverUp' = TRUE /\ enforcePosted' = TRUE

\* Seeded fault: no re-check is posted.
CoverCustomUnwatched ==
  /\ overlay' = Apply("COVER", overlay)
  /\ customCoverUp' = TRUE /\ enforcePosted' = FALSE

\* The cover goes up and a re-check is posted; or it goes, if it was ours.
CoverCustom ==
  /\ overlay' = Apply("COVER", overlay)
  /\ customCoverUp' = TRUE /\ enforcePosted' = TRUE
Uncustomed == IF customCoverUp THEN Apply("CLEAR", overlay) ELSE overlay
LiftCustom == customCoverUp' = FALSE /\ enforcePosted' = FALSE

\* enforceTask
EnforceTask ==
  /\ connected /\ enforcePosted
  /\ \E seen \in Sights :
       \/ Enforced(seen) /\ CoverCustom
       \/ ~Enforced(seen) /\ LiftCustom /\ overlay' = Uncustomed
  /\ UNCHANGED <<screen, owed, settings, connected, listedApps, guard, rescan, gate,
                 due>>

\* CustomAppStore changed some time ago: the runnable of changeListener runs.
\* Nothing makes the guard look at a page beside an app that is listed no more.
ListChanged ==
  /\ connected
  /\ listedApps' \in SUBSET Listable \ {listedApps}
  /\ due' = (due /\ Visible \cap (listedApps \ listedApps') = {})
  /\ \E seen \in Sights :
       LET hit == guardOn /\ seen \cap listedApps' # {}
       IN \/ hit /\ CoverCustom
          \/ ~hit /\ LiftCustom /\ overlay' = Uncustomed
  /\ UNCHANGED <<screen, owed, settings, connected, guard, rescan, gate>>

-----------------------------------------------------------------------------
(* onAccessibilityEvent *)

\* The scan at the end of the handler. A skipped one leaves the overlay alone:
\* nothing to read, a duplicate, or the same package within the debounce.
Scan(p, seen, o) ==
  \/ /\ Scans(p, seen)
     /\ gate' = [package |-> p, text |-> text]
     /\ overlay' = Apply(CoverFor(text), o)
  \/ /\ Scans(p, seen) => p = gate.package
     /\ overlay' = o
     /\ UNCHANGED gate

EventListed(p, seen) ==
  /\ Enforced(seen \cup {p})
  /\ CoverCustom
  /\ UNCHANGED <<guard, rescan, gate, due>>

\* guardSettingsScreen for a watched package; a miss arms the re-look.
EventWatched(p, seen) ==
  /\ ~Enforced(seen \cup {p}) /\ p \in Watched
  /\ LiftCustom
  /\ LET result == Evaluate(SetGuardActive(guard), Matched(seen), front \in Watched)
     IN /\ guard' = result.guard
        /\ IF result.decision = "Ignore"
             THEN /\ rescan' = Advance(0)
                  /\ Scan(p, seen, Uncustomed)
                  /\ UNCHANGED due
             ELSE /\ rescan' = NewRescan
                  /\ overlay' = Decided(result.decision, Uncustomed)
                  /\ due' = FALSE
                  /\ UNCHANGED gate

\* Seeded fault: a foreground that cannot be read counts as having left.
EventUnwatchedCancels(p, seen) ==
  /\ ~Enforced(seen \cup {p}) /\ p \notin Watched
  /\ LiftCustom
  /\ \/ seen \cap Watched # {} /\ UNCHANGED <<guard, rescan>>
     \/ seen \cap Watched = {} /\ guard' = ResetBound(guard) /\ rescan' = NewRescan
  /\ Scan(p, seen, Uncustomed)
  /\ UNCHANGED due

\* classifyUnwatchedEvent: still watched, unknown, or left
EventUnwatched(p, seen) ==
  /\ ~Enforced(seen \cup {p}) /\ p \notin Watched
  /\ LiftCustom
  /\ \/ seen \cap Watched # {} /\ UNCHANGED <<guard, rescan>>
     \/ /\ seen \cap Watched = {}
        /\ guard' = ResetBound(guard)
        /\ rescan' = IF Foreground(seen) = NoPackage THEN rescan ELSE NewRescan
  /\ Scan(p, seen, Uncustomed)
  /\ UNCHANGED due

Event(p) ==
  /\ connected
  /\ owed' = owed \ {p}
  /\ \E seen \in Sights : EventListed(p, seen) \/ EventWatched(p, seen) \/ EventUnwatched(p, seen)
  /\ UNCHANGED <<screen, settings, connected, listedApps>>

\* rescanTask: evaluateCurrentScreen, and the next look if it did not act. The
\* last look comes 2 s after its event: the screen of that event has long been
\* drawn, and a back-out before it is older than the refire window.
Look ==
  /\ connected /\ rescan.posted
  /\ rescan.next = MaxLooks =>
       /\ guard.age # "fresh"
       /\ front \in Watched /\ owed \cap Watched = {} => drawn
  /\ \E seen \in Sights :
       LET unwatched == Foreground(seen) \notin Watched
           result == Evaluate(SetGuardActive(guard), Matched(seen), front \in Watched)
       IN \/ /\ unwatched
             /\ guard' = IF Foreground(seen) = NoPackage THEN guard ELSE ResetBound(guard)
             /\ rescan' = Advance(rescan.next)
             /\ UNCHANGED <<overlay, due>>
          \/ /\ ~unwatched
             /\ guard' = result.guard
             /\ overlay' = Decided(result.decision, overlay)
             /\ IF result.decision = "Ignore"
                  THEN rescan' = Advance(rescan.next) /\ UNCHANGED due
                  ELSE rescan' = NewRescan /\ due' = FALSE
  /\ UNCHANGED <<screen, owed, settings, connected, listedApps, customCoverUp,
                 enforcePosted, gate>>

-----------------------------------------------------------------------------
(* The life of the service *)

\* onServiceConnected of a new instance
Connect ==
  /\ ~connected
  /\ connected' = TRUE
  /\ listedApps' \in SUBSET Listable
  /\ UNCHANGED <<screen, owed, settings, customCoverUp, enforcePosted, guard, rescan, gate,
                 overlay, due>>

\* teardown, from onUnbind and onDestroy: the fields of the instance are gone.
Teardown ==
  /\ connected
  /\ connected' = FALSE
  /\ listedApps' = {} /\ customCoverUp' = FALSE /\ enforcePosted' = FALSE
  /\ guard' = NewGuard /\ rescan' = NewRescan /\ gate' = NewGate /\ overlay' = NewOverlay
  /\ due' = FALSE
  /\ UNCHANGED <<screen, owed, settings>>

\* onInterrupt
Interrupt ==
  /\ connected
  /\ overlay' = Apply("CLEAR", overlay)
  /\ UNCHANGED <<screen, owed, settings, connected, listedApps, customCoverUp,
                 enforcePosted, guard, rescan, gate, due>>

\* The refire and the reset window of the last back-out run out.
AgeBackOut ==
  /\ guard.age # "old"
  /\ guard' = [guard EXCEPT !.age = IF guard.age = "fresh" THEN "recent" ELSE "old"]
  /\ UNCHANGED <<screen, owed, settings, connected, listedApps, customCoverUp,
                 enforcePosted, rescan, gate, overlay, due>>

-----------------------------------------------------------------------------
(* The user and the system *)

\* Another window, pane, page or text comes to the screen: an event follows.
Navigate ==
  LET now == {front', back'} \ {NoPackage}
      changed == front' # front \/ page' # page
  IN /\ front' \in Packages /\ back' \in (Packages \ {front'}) \cup {NoPackage}
     /\ page' \in (IF now \cap Watched = {} THEN {} ELSE Surfaces) \cup {NoSurface}
     /\ text' \in Texts
     /\ changed \/ back' # back \/ text' # text
     /\ drawn' = (drawn /\ ~changed)
     /\ owed' = (owed \cap now) \cup {front'} \cup (now \ Visible)
                  \cup (IF changed THEN now \cap Watched ELSE {})
     /\ due' = IF changed THEN connected /\ guardOn /\ front' \in Watched /\ page' # NoSurface
                         ELSE due
     /\ UNCHANGED <<settings, service>>

\* The windows have been drawn, which an ordinary application tells in an event
\* and a list in the settings does not (RescanSchedule).
Drawn ==
  /\ ~drawn
  /\ drawn' = TRUE
  /\ owed' = owed \cup (Visible \ Watched)
  /\ UNCHANGED <<front, back, page, text, settings, service, due>>

\* Protection is armed or disarmed, by the user or by time: nothing wakes the
\* guard, which sees it on its next event.
Protect ==
  /\ guardOn' = ~guardOn
  /\ due' = FALSE
  /\ UNCHANGED <<screen, owed, drawable, service>>

\* The window manager begins to refuse overlays, or to accept them again.
Refuse ==
  /\ drawable' = ~drawable
  /\ UNCHANGED <<screen, owed, guardOn, service, due>>

User == Navigate \/ Protect \/ Refuse
Next ==
  \/ \E p \in Packages \cup {Self} : Event(p)
  \/ EnforceTask \/ ListChanged \/ Look
  \/ Connect \/ Teardown \/ Interrupt \/ AgeBackOut
  \/ User \/ Drawn

\* The main looper runs what is posted, an event that is owed arrives, time
\* passes and a window gets drawn.
Fairness ==
  /\ \A p \in Packages : WF_vars(p \in owed /\ Event(p))
  /\ WF_vars(EnforceTask) /\ WF_vars(Look)
  /\ WF_vars(AgeBackOut) /\ WF_vars(Drawn)

Spec == Init /\ [][Next]_vars /\ Fairness

-----------------------------------------------------------------------------
(* Properties *)

\* A guarded page in front is backed out of or covered, or a listed app beside
\* it is, although its one event may find no tree, may fall into the refire
\* window of the last back-out, and other windows send events in between: the
\* bounded re-look makes up for it (RescanSchedule). It may not for a user who
\* never stops turning pages.
GuardedIsHandled == []<><<Navigate>>_vars \/ (due ~> (~due \/ customCoverUp))

ListedVisible == connected /\ guardOn /\ Visible \cap listedApps # {}

CoverAsked ==
  ListedVisible /\ drawable /\ (enforcePosted \/ owed \cap Visible \cap listedApps # {})
CoverSettled == overlay.view = "COVER" \/ ~ListedVisible \/ ~drawable

\* The controller has no window and takes the cover for shown: that of before a refusal.
Drifted == overlay = [shown |-> "COVER", view |-> "NONE"]

\* A listed app that has told of itself, or that a re-check is posted for, gets
\* covered, though a back-out of a settings page beside it, a scan or a window
\* being drawn lifts the cover in between - unless the controller has drifted: what
\* RefusalHeals says of it does not hold.
ListedIsCovered == (CoverAsked /\ ~Drifted) ~> CoverSettled

\* What OverlayController.kt:59-63 promises: a window that was refused costs a redundant
\* attempt and heals, once windows are accepted again. It does not hold where a refused
\* window took the place of another: apply() goes on taking the old one for shown, so the
\* retries of a listed app's cover return early.
RefusalHeals == CoverAsked ~> CoverSettled

\* The cover of a listed app does not outlive it, whatever the window manager refused on
\* the way: the re-check lifts it, and a window that is up by then is the doing of another
\* guard, and recorded.
CustomCoverGoes ==
  (customCoverUp /\ ~ListedVisible)
    ~> (ListedVisible \/ (~customCoverUp /\ overlay.view \in {"NONE", overlay.shown}))

=============================================================================
