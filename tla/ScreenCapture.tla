------------------------------ MODULE ScreenCapture ------------------------------
(***************************************************************************)
(* The screen capture of the Android app: ScreenCaptureService, the frames   *)
(* it takes and FrameGate. The main thread runs the start commands, begin    *)
(* and the service's end; each session has a thread of its own, on which     *)
(* its frames arrive and on which it hears that its projection was stopped.  *)
(* begin and teardown are taken apart where the other thread can come in     *)
(* between: the fields of the service are shared and not locked.             *)
(*                                                                           *)
(* One service object is modelled, from its first start command to its end,  *)
(* with up to MaxSessions consents. A pixel is its luma, and a hash the set  *)
(* of its bits that are one.                                                 *)
(***************************************************************************)
EXTENDS Integers, Sequences, SequencesExt, FiniteSetsExt

CONSTANTS
  MaxSessions,    (* bound on the consents given *)
  MaxInbox,       (* bound on the commands waiting for the main thread *)
  Planes,         (* the planes Android delivers: lumas, row after row *)
  Width, Height, RowStride,   (* of a plane: a row may be longer than the picture is wide *)
  GridWidth, GridHeight,      (* HASH_GRID_WIDTH and HASH_GRID_HEIGHT *)
  ChangeThreshold (* changeThresholdBits *)

ASSUME PlanesAssumption ==
  /\ {Width, Height, GridWidth, GridHeight, ChangeThreshold} \subseteq Nat \ {0}
  /\ RowStride \in Nat /\ RowStride >= Width
  /\ Planes \subseteq [1..(RowStride * Height) -> Nat]
ASSUME BoundsAssumption == MaxSessions \in Nat \ {0} /\ MaxInbox \in Nat \ {0}

Sessions == 1..MaxSessions
None == 0
Main == 0
Threads == {Main} \cup Sessions

-----------------------------------------------------------------------------
(* ScreenCapture: what a frame is reduced to *)

\* The k-th of so many blocks of an edge: never empty while the edge is not.
Block(k, blocks, size) ==
  LET first == (k * size) \div blocks
      end == Min({size, Max({first + 1, ((k + 1) * size) \div blocks})})
  IN first..(end - 1)

\* Mean luma of each block of the picture; what pads the rows is never read.
LumaGrid(plane) ==
  [c \in (0..(GridHeight - 1)) \X (0..(GridWidth - 1)) |->
     LET cell == Block(c[1], GridHeight, Height) \X Block(c[2], GridWidth, Width)
     IN IF cell = {} THEN 0
        ELSE MapThenSumSet(LAMBDA p : plane[(p[1] * RowStride) + p[2] + 1], cell)
               \div Cardinality(cell)]

\* One bit for each pair of neighbours in a row: which of them is the brighter.
DHash(grid) ==
  {(c[1] * (GridWidth - 1)) + c[2] :
     c \in {d \in DOMAIN grid : d[2] < GridWidth - 1 /\ grid[d] > grid[<<d[1], d[2] + 1>>]}}

Hashes == SUBSET (0..((GridHeight * (GridWidth - 1)) - 1))

\* No hash: -1 is the number of no bit.
NoFrame == {-1}

HammingDistance(a, b) == Cardinality(SymDiff(a, b))
-----------------------------------------------------------------------------

VARIABLES
  isRunning,      (* the flag the screen of the app reads *)
  guardActive,    (* the mode *)
  up, inbox,      (* whether the service object lives; commands for the main thread *)
  consents,       (* how many the user gave; each is the token of one session *)
  projection, display, reader, frameThread,   (* fields of the service: a session or None *)
  media,          (* what Android says of each session's projection *)
  registered,     (* sessions whose callback Android will call *)
  stopped,        (* sessions whose onStop waits on their thread *)
  looping,        (* sessions whose thread takes frames *)
  at, mine,       (* where each thread is, and the projection its teardown read *)
  started, ended, (* tamper log: how many sessions it says started, and ended *)
  baseline, elapsed,  (* the gate: last analysed hash, and whether its interval is over *)
  shot,           (* the frame each thread has in hand *)
  accepted        (* history: the last frame the sink took *)

fields == <<projection, display, reader, frameThread>>
android == <<media, registered, stopped, looping>>
log == <<started, ended>>
gate == <<baseline, elapsed, shot, accepted>>
control == <<at, mine, inbox, up>>
vars == <<isRunning, guardActive, consents, fields, android, log, gate, control>>

Steps == {"idle", "register", "reader", "display", "check", "running", "started",
          "clear", "unset", "close", "quit", "log", "gate", "handed"}

TypeOK ==
  /\ isRunning \in BOOLEAN /\ guardActive \in BOOLEAN /\ up \in BOOLEAN
  /\ inbox \in Seq([kind : {"start", "stop", "destroy"}, token : Sessions \cup {None}])
  /\ consents \in 0..MaxSessions
  /\ {projection, display, reader, frameThread} \subseteq Sessions \cup {None}
  /\ media \in [Sessions -> {"unused", "live", "ended"}]
  /\ registered \subseteq Sessions /\ stopped \subseteq Sessions /\ looping \subseteq Sessions
  /\ at \in [Threads -> Steps] /\ mine \in [Threads -> Sessions \cup {None}]
  /\ started \in Nat /\ ended \in Nat
  /\ baseline \in Hashes \cup {NoFrame} /\ accepted \in Hashes \cup {NoFrame}
  /\ elapsed \in BOOLEAN /\ shot \in [Sessions -> Hashes \cup {NoFrame}]

Init ==
  /\ isRunning = FALSE /\ guardActive = TRUE /\ up = TRUE /\ inbox = <<>>
  /\ consents = 0
  /\ projection = None /\ display = None /\ reader = None /\ frameThread = None
  /\ media = [s \in Sessions |-> "unused"]
  /\ registered = {} /\ stopped = {} /\ looping = {}
  /\ at = [t \in Threads |-> "idle"] /\ mine = [t \in Threads |-> None]
  /\ started = 0 /\ ended = 0
  /\ baseline = NoFrame /\ elapsed = FALSE
  /\ shot = [s \in Sessions |-> NoFrame] /\ accepted = NoFrame

-----------------------------------------------------------------------------
(* The activity, on the main thread between two commands *)

Command(kind, token) == [kind |-> kind, token |-> token]
Waits(kind) == \E i \in 1..Len(inbox) : inbox[i].kind = kind

ShouldRun == guardActive

\* The dialog is offered while the flag is clear; two taps give two, with results that
\* arrive together. Answering one takes a person longer than a stop the activity has
\* sent takes to be handled. The flag is set before the command is sent, and cleared if
\* Android refuses it.
Consent(sent) ==
  /\ at[Main] = "idle" /\ up
  /\ ~isRunning \/ Waits("start")
  /\ ~Waits("stop")
  /\ consents < MaxSessions /\ Len(inbox) < MaxInbox
  /\ consents' = consents + 1
  /\ isRunning' = sent
  /\ inbox' = IF sent THEN Append(inbox, Command("start", consents + 1)) ELSE inbox
  /\ UNCHANGED <<guardActive, fields, android, log, gate, at, mine, up>>

\* refreshScreenCapture can stop a capture and never starts one.
Stopping(running) ==
  IF running /\ ~ShouldRun' /\ Len(inbox) < MaxInbox
    THEN Append(inbox, Command("stop", None)) ELSE inbox

\* Every tap that changes the mode ends in refresh.
Disarm ==
  /\ at[Main] = "idle" /\ up /\ guardActive
  /\ guardActive' = FALSE
  /\ inbox' = Stopping(isRunning)
  /\ UNCHANGED <<isRunning, consents, fields, android, log, gate, at, mine, up>>

Arm ==
  /\ at[Main] = "idle" /\ up /\ ~guardActive
  /\ guardActive' = TRUE
  /\ UNCHANGED <<isRunning, consents, fields, android, log, gate, control>>

\* The activity is resumed.
Refresh ==
  /\ at[Main] = "idle" /\ up /\ ~Waits("stop")
  /\ guardActive' = guardActive
  /\ inbox' = Stopping(isRunning)
  /\ UNCHANGED <<isRunning, consents, fields, android, log, gate, at, mine, up>>

-----------------------------------------------------------------------------
(* onStartCommand and begin *)

Go(t, step) == at' = [at EXCEPT ![t] = step]

\* stopSelf asks Android, which sends the service its end.
WithDestroy(box) == IF Waits("destroy") THEN box ELSE Append(box, Command("destroy", None))

Handles(kind) == at[Main] = "idle" /\ up /\ inbox # <<>> /\ Head(inbox).kind = kind
Token == Head(inbox).token

\* Return with the flag cleared and the service asked to stop.
Refuse ==
  /\ isRunning' = FALSE
  /\ inbox' = WithDestroy(Tail(inbox))
  /\ Go(Main, "idle")

StartRefused ==
  /\ Handles("start")
  /\ ~ShouldRun
  /\ Refuse
  /\ UNCHANGED <<guardActive, consents, fields, android, log, gate, mine, up>>

AlreadyCapturing ==
  /\ Handles("start")
  /\ ShouldRun /\ projection # None
  /\ inbox' = Tail(inbox)
  /\ UNCHANGED <<isRunning, guardActive, consents, fields, android, log, gate, at, mine, up>>

\* getMediaProjection throws or gives nothing.
NoProjection ==
  /\ Handles("start")
  /\ ShouldRun /\ projection = None
  /\ Refuse
  /\ UNCHANGED <<guardActive, consents, fields, android, log, gate, mine, up>>

Begin ==
  /\ Handles("start")
  /\ ShouldRun /\ projection = None
  /\ projection' = Token
  /\ media' = [media EXCEPT ![Token] = "live"]
  /\ Go(Main, "register")
  /\ UNCHANGED <<isRunning, guardActive, consents, display, reader, frameThread, registered,
                 stopped, looping, log, gate, mine, inbox, up>>

Register ==
  /\ at[Main] = "register"
  /\ frameThread' = Token
  /\ looping' = looping \cup {Token}
  /\ registered' = IF media[Token] = "live" THEN registered \cup {Token} ELSE registered
  /\ Go(Main, "reader")
  /\ UNCHANGED <<isRunning, guardActive, consents, projection, display, reader, media, stopped,
                 log, gate, mine, inbox, up>>

MakeReader ==
  /\ at[Main] = "reader"
  /\ reader' = Token
  /\ Go(Main, "display")
  /\ UNCHANGED <<isRunning, guardActive, consents, projection, display, frameThread, android,
                 log, gate, mine, inbox, up>>

\* createVirtualDisplay may fail, and fails on a projection that was stopped.
MakeDisplay ==
  /\ at[Main] = "display"
  /\ display' \in {None} \cup (IF media[Token] = "live" THEN {Token} ELSE {})
  /\ Go(Main, "check")
  /\ UNCHANGED <<isRunning, guardActive, consents, projection, reader, frameThread, android,
                 log, gate, mine, inbox, up>>

\* Seeded fault: begin gives up and nothing ends the service.
CheckDisplayOnly ==
  /\ at[Main] = "check"
  /\ IF display = None THEN isRunning' = FALSE /\ inbox' = Tail(inbox) /\ Go(Main, "idle")
     ELSE Go(Main, "running") /\ UNCHANGED <<isRunning, inbox>>
  /\ UNCHANGED <<guardActive, consents, fields, android, log, gate, mine, up>>

\* begin gives up with its projection still in the field: the service's end finds it there.
CheckDisplay ==
  /\ at[Main] = "check"
  /\ IF display = None THEN Refuse
     ELSE Go(Main, "running") /\ UNCHANGED <<isRunning, inbox>>
  /\ UNCHANGED <<guardActive, consents, fields, android, log, gate, mine, up>>

SetRunning ==
  /\ at[Main] = "running"
  /\ isRunning' = TRUE
  /\ Go(Main, "started")
  /\ UNCHANGED <<guardActive, consents, fields, android, log, gate, mine, inbox, up>>

RecordStarted ==
  /\ at[Main] = "started"
  /\ started' = started + 1
  /\ inbox' = Tail(inbox)
  /\ Go(Main, "idle")
  /\ UNCHANGED <<isRunning, guardActive, consents, fields, android, ended, gate, mine, up>>

-----------------------------------------------------------------------------
(* teardown: on the main thread for a stop or the service's end, on a session's thread *)
(* when its projection was stopped. No projection in the field, and it returns.        *)

\* What the thread does when its teardown has returned.
Return(t) ==
  IF t = Main
    THEN /\ up' = (Head(inbox).kind # "destroy")
         /\ inbox' = IF Head(inbox).kind = "stop" THEN WithDestroy(Tail(inbox)) ELSE Tail(inbox)
    ELSE inbox' = (IF up THEN WithDestroy(inbox) ELSE inbox) /\ UNCHANGED up

Teardown(t) ==
  /\ mine' = [mine EXCEPT ![t] = projection]
  /\ IF projection = None THEN Return(t) /\ UNCHANGED at
     ELSE Go(t, "clear") /\ UNCHANGED <<inbox, up>>

StopOrDestroy ==
  /\ Handles("stop") \/ Handles("destroy")
  /\ Teardown(Main)
  /\ UNCHANGED <<isRunning, guardActive, consents, fields, android, log, gate>>

OnStop(s) ==
  /\ s \in stopped /\ at[s] = "idle"
  /\ stopped' = stopped \ {s}
  /\ Teardown(s)
  /\ UNCHANGED <<isRunning, guardActive, consents, fields, media, registered, looping, log, gate>>

ClearProjection(t) ==
  /\ at[t] = "clear"
  /\ projection' = None
  /\ Go(t, "unset")
  /\ UNCHANGED <<isRunning, guardActive, consents, display, reader, frameThread, android, log,
                 gate, mine, inbox, up>>

ClearRunning(t) ==
  /\ at[t] = "unset"
  /\ isRunning' = FALSE
  /\ Go(t, "close")
  /\ UNCHANGED <<guardActive, consents, fields, android, log, gate, mine, inbox, up>>

\* Seeded fault: the display and the reader are released, the projection is not stopped.
CloseDisplayOnly(t) ==
  /\ at[t] = "close"
  /\ display' = None /\ reader' = None
  /\ registered' = registered \ {mine[t]}
  /\ Go(t, "quit")
  /\ UNCHANGED <<isRunning, guardActive, consents, projection, frameThread, media, stopped,
                 looping, log, gate, mine, inbox, up>>

\* The fields' display and reader, the callback, and the projection that was read.
Close(t) ==
  /\ at[t] = "close"
  /\ display' = None /\ reader' = None
  /\ registered' = registered \ {mine[t]}
  /\ media' = [media EXCEPT ![mine[t]] = "ended"]
  /\ Go(t, "quit")
  /\ UNCHANGED <<isRunning, guardActive, consents, projection, frameThread, stopped, looping,
                 log, gate, mine, inbox, up>>

\* quitSafely lets an onStop that waits already through. The gate forgets.
Quit(t) ==
  /\ at[t] = "quit"
  /\ looping' = looping \ {frameThread}
  /\ frameThread' = None
  /\ baseline' = NoFrame /\ elapsed' = FALSE
  /\ Go(t, "log")
  /\ UNCHANGED <<isRunning, guardActive, consents, projection, display, reader, media, registered,
                 stopped, log, shot, accepted, mine, inbox, up>>

RecordEnded(t) ==
  /\ at[t] = "log"
  /\ ended' = ended + 1
  /\ mine' = [mine EXCEPT ![t] = None]
  /\ Go(t, "idle") /\ Return(t)
  /\ UNCHANGED <<isRunning, guardActive, consents, fields, android, started, gate>>

TeardownStep(t) ==
  ClearProjection(t) \/ ClearRunning(t) \/ Close(t) \/ Quit(t) \/ RecordEnded(t)

\* The user ends the cast, or the system does.
Revoke(s) ==
  /\ media[s] = "live"
  /\ media' = [media EXCEPT ![s] = "ended"]
  /\ stopped' = IF s \in registered THEN stopped \cup {s} ELSE stopped
  /\ UNCHANGED <<isRunning, guardActive, consents, fields, registered, looping, log, gate, control>>

-----------------------------------------------------------------------------
(* Frames *)

\* acquireLatestImage and the reduction. A reader that is closed gives nothing.
Frame(s, plane) ==
  /\ s \in looping /\ at[s] = "idle"
  /\ media[s] = "live" /\ display = s /\ reader = s
  /\ shot' = [shot EXCEPT ![s] = DHash(LumaGrid(plane))]
  /\ Go(s, "gate")
  /\ UNCHANGED <<isRunning, guardActive, consents, fields, android, log, baseline, elapsed,
                 accepted, mine, inbox, up>>

Analyses(hash) ==
  baseline = NoFrame \/ (elapsed /\ HammingDistance(hash, baseline) >= ChangeThreshold)

\* The image is closed.
Drop(s) == shot' = [shot EXCEPT ![s] = NoFrame] /\ Go(s, "idle")

\* Seeded fault: each frame is compared with the one before it.
GateFrameMoves(s) ==
  /\ at[s] = "gate"
  /\ baseline' = shot[s]
  /\ elapsed' = (elapsed /\ ~Analyses(shot[s]))
  /\ IF Analyses(shot[s]) THEN Go(s, "handed") /\ UNCHANGED shot ELSE Drop(s)
  /\ UNCHANGED <<isRunning, guardActive, consents, fields, android, log, accepted, mine, inbox,
                 up>>

\* A frame that is dropped never becomes the baseline.
GateFrame(s) ==
  /\ at[s] = "gate"
  /\ IF Analyses(shot[s])
       THEN baseline' = shot[s] /\ elapsed' = FALSE /\ Go(s, "handed") /\ UNCHANGED shot
       ELSE Drop(s) /\ UNCHANGED <<baseline, elapsed>>
  /\ UNCHANGED <<isRunning, guardActive, consents, fields, android, log, accepted, mine, inbox,
                 up>>

\* packRgba fails if teardown has taken the buffer away; the frame is then dropped.
HandOn(s) ==
  /\ at[s] = "handed"
  /\ accepted' = IF s \in looping THEN shot[s] ELSE accepted
  /\ Drop(s)
  /\ UNCHANGED <<isRunning, guardActive, consents, fields, android, log, baseline, elapsed, mine,
                 inbox, up>>

\* The gate's interval is over.
Tick ==
  /\ ~elapsed /\ baseline # NoFrame
  /\ elapsed' = TRUE
  /\ UNCHANGED <<isRunning, guardActive, consents, fields, android, log, baseline, shot, accepted,
                 control>>

-----------------------------------------------------------------------------

MainStep ==
  \/ StartRefused \/ AlreadyCapturing \/ NoProjection \/ Begin
  \/ Register \/ MakeReader \/ MakeDisplay \/ CheckDisplay \/ SetRunning \/ RecordStarted
  \/ StopOrDestroy \/ TeardownStep(Main)

SessionStep(s) == OnStop(s) \/ TeardownStep(s) \/ GateFrame(s) \/ HandOn(s)

Next ==
  \/ \E sent \in BOOLEAN : Consent(sent)
  \/ Disarm \/ Arm \/ Refresh
  \/ MainStep
  \/ \E s \in Sessions : SessionStep(s) \/ Revoke(s) \/ \E plane \in Planes : Frame(s, plane)
  \/ Tick

\* Both kinds of thread run on, and a thread takes its messages in order.
Spec ==
  /\ Init /\ [][Next]_vars
  /\ WF_vars(MainStep)
  /\ \A s \in Sessions : WF_vars(SessionStep(s)) /\ SF_vars(OnStop(s))

-----------------------------------------------------------------------------
(* Properties *)

Quiet == ~up /\ stopped = {} /\ \A t \in Threads : at[t] = "idle"

\* When the service is gone, whichever thread ended which session, no projection is left
\* running behind it and every session on record as started has an end on record
\* (teardown, onDestroy).
EndsWithService ==
  Quiet => /\ \A s \in Sessions : media[s] # "live"
           /\ ended >= started

\* A disarm is a release: a capture that is under way, or only being begun, ends unless
\* the guard is armed again (refreshScreenCapture, shouldRun).
DisarmReleases ==
  \A s \in Sessions : ~guardActive /\ media[s] = "live" ~> guardActive \/ media[s] # "live"

\* While the first session lasts, drift adds up: a frame that is dropped, with the interval
\* over, is near the last one that was analysed (FrameGate.onFrame).
DriftIsSeen ==
  [][at[1] = "gate" /\ at'[1] = "idle" /\ elapsed /\ consents = 1
       => HammingDistance(shot[1], accepted) < ChangeThreshold]_vars

=============================================================================
