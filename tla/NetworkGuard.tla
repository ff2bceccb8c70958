----------------------------- MODULE NetworkGuard -----------------------------
(***************************************************************************)
(* NetworkGuardService: the VPN of the Android app that answers DNS        *)
(* queries for blocked names itself and forwards the others. Handlers run  *)
(* on the main thread, onRevoke on a binder thread, packets on a reader    *)
(* thread, queries to the resolvers on a pool; they share the fields of    *)
(* the service object and no lock.                                         *)
(*                                                                         *)
(* A session is what establish() sets up: a descriptor, a native DnsGuard, *)
(* a pool and a reader, all named by the same number, which is used again  *)
(* once nothing refers to it. The fields belong to the service object: the *)
(* threads of one that is destroyed find them null (`home` has the others).*)
(***************************************************************************)
EXTENDS Naturals, Sequences

CONSTANTS
  MaxSessions,   (* bound on the sessions that leave threads behind *)
  MaxQueue       (* bound on the intents that wait for the main thread *)

ASSUME BoundsAssumption == MaxSessions \in Nat \ {0} /\ MaxQueue \in Nat \ {0}

Sessions == 1..MaxSessions
Null == 0
Fields == Sessions \cup {Null}
Threads == {"main", "binder"}
Idle == [at |-> "idle", job |-> "none", s |-> Null]

VARIABLES
  mode,          (* the phase of ProtectionStore: OFF, armed, or the open window *)
  consent,       (* whether the VPN grant is ours: VpnService.prepare(this) == null *)
  routed,        (* the session whose interface the system sends queries to *)
  queue,         (* intents and destroys posted to the main thread *)
  at,            (* where the two threads that run handlers are *)
  tun, guard, pool,   (* fields of the service; pool also stands for readerThread and tunOutput *)
  home,          (* sessions of the service object that is alive *)
  open, shut,    (* descriptors that are open, native guards that are closed *)
  interrupted,   (* readers whose interrupt flag is set *)
  reader, source, engine,   (* each reader's step, its descriptor, the guard it picked up *)
  task, asker,   (* the query each pool works on, the guard it was begun with *)
  ended          (* sessions whose end is in the tamper log *)

mine == <<mode, consent>>
fields == <<tun, guard, pool, home>>
readers == <<reader, source, engine>>
tasks == <<task, asker>>
vars == <<mine, routed, queue, at, fields, open, shut, interrupted, readers, tasks, ended>>

TypeOK ==
  /\ mode \in {"off", "armed", "window"} /\ consent \in BOOLEAN
  /\ routed \in Fields
  /\ queue \in Seq({"start", "stop", "destroy"}) /\ Len(queue) <= MaxQueue + 1
  /\ at \in [Threads -> [at : {"idle", "establish", "taken", "cut"},
                         job : {"none", "start", "stop", "destroy", "revoke"}, s : Fields]]
  /\ tun \in Fields /\ guard \in Fields /\ pool \in Fields
  /\ home \subseteq Sessions /\ open \subseteq Sessions /\ shut \subseteq Sessions
  /\ interrupted \subseteq Sessions /\ ended \subseteq Sessions
  /\ reader \in [Sessions -> {"none", "fresh", "loop", "reading", "packet", "judging"}]
  /\ source \in [Sessions -> Fields] /\ engine \in [Sessions -> Fields]
  /\ task \in [Sessions -> {"none", "queued", "asking"}]
  /\ asker \in [Sessions -> Fields]

Nobody == [s \in Sessions |-> "none"]
Nothing == [s \in Sessions |-> Null]

Init ==
  /\ mode = "off" /\ consent = FALSE
  /\ routed = Null /\ queue = <<>>
  /\ at = [t \in Threads |-> Idle]
  /\ tun = Null /\ guard = Null /\ pool = Null /\ home = {}
  /\ open = {} /\ shut = {} /\ interrupted = {}
  /\ reader = Nobody /\ source = Nothing /\ engine = Nothing
  /\ task = Nobody /\ asker = Nothing
  /\ ended = Sessions

GuardActive == mode = "armed"
ShouldRun == consent /\ GuardActive

-----------------------------------------------------------------------------
(* The main thread and the binder thread: onStartCommand, onRevoke,        *)
(* onDestroy, establish, teardown.                                         *)

\* stopSelf() destroys the service whatever has been posted to it since.
StopSelf(q) ==
  IF \E i \in DOMAIN q : q[i] = "destroy" THEN q ELSE Append(q, "destroy")

\* Nothing holds on to session s any more.
Unused(s) ==
  /\ s \notin {tun, guard, pool} \cup {at[t].s : t \in Threads}
  /\ reader[s] = "none" /\ task[s] = "none"
  /\ \A r \in Sessions :
       /\ reader[r] # "none" => s \notin {source[r], engine[r]}
       /\ task[r] # "none" => s # asker[r]

\* The fields of a service object that is created for the next intent are null.
Discard ==
  /\ tun' = Null /\ guard' = Null /\ pool' = Null /\ home' = {}

\* teardown(reason), first line: a session to take down, or return.
TakeDown(job) ==
  IF tun # Null
    THEN /\ at' = [at EXCEPT !["main"] = [at |-> "taken", job |-> job, s |-> tun]]
         /\ queue' = Tail(queue)
         /\ UNCHANGED fields
    ELSE /\ UNCHANGED at
         /\ IF job = "destroy"
              THEN queue' = Tail(queue) /\ Discard
              ELSE queue' = StopSelf(Tail(queue)) /\ UNCHANGED fields

\* The main thread takes a stop, a destroy, or a start that is not to run.
HandleStop ==
  /\ at["main"] = Idle /\ queue # <<>>
  /\ Head(queue) = "start" => (consent /\ ~GuardActive)
  /\ TakeDown(IF Head(queue) = "destroy" THEN "destroy" ELSE "stop")
  /\ UNCHANGED <<mine, routed, open, shut, interrupted, readers, tasks, ended>>

\* Seeded fault: a start that finds a session ends the service like one without consent.
HandleIdleStops ==
  /\ at["main"] = Idle /\ queue # <<>> /\ Head(queue) = "start"
  /\ ~consent \/ ShouldRun
  /\ queue' = StopSelf(Tail(queue))
  /\ UNCHANGED <<mine, routed, at, fields, open, shut, interrupted, readers, tasks, ended>>

\* A start without consent, one that finds a session, one whose builder fails.
HandleIdle ==
  /\ at["main"] = Idle /\ queue # <<>> /\ Head(queue) = "start"
  /\ \/ ~consent /\ queue' = StopSelf(Tail(queue))
     \/ ShouldRun /\ queue' = Tail(queue)
  /\ UNCHANGED <<mine, routed, at, fields, open, shut, interrupted, readers, tasks, ended>>

\* establish() up to tunOutput: the system routes queries to the new interface.
Establish ==
  /\ at["main"] = Idle /\ queue # <<>> /\ Head(queue) = "start"
  /\ ShouldRun /\ tun = Null
  /\ \E s \in {x \in Sessions : Unused(x)} :
       /\ tun' = s /\ routed' = s
       /\ at' = [at EXCEPT !["main"] = [at |-> "establish", job |-> "start", s |-> s]]
       /\ open' = open \cup {s}
       /\ home' = home \cup {s}
       /\ shut' = shut \ {s} /\ interrupted' = interrupted \ {s} /\ ended' = ended \ {s}
  /\ queue' = Tail(queue)
  /\ UNCHANGED <<mine, guard, pool, readers, tasks>>

\* establish() from the blocklist to the tamper log: the reader starts.
Loaded ==
  /\ at["main"].at = "establish"
  /\ LET s == at["main"].s
     IN /\ guard' = s /\ pool' = s
        /\ reader' = [reader EXCEPT ![s] = "fresh"]
  /\ at' = [at EXCEPT !["main"] = Idle]
  /\ UNCHANGED <<mine, routed, queue, tun, home, open, shut, interrupted, source, engine, tasks, ended>>

\* onRevoke on the binder thread: the grant is gone and the interface is down.
Revoke ==
  /\ consent /\ at["binder"] = Idle
  /\ consent' = FALSE
  /\ routed' = Null
  /\ at' = IF tun = Null THEN at
           ELSE [at EXCEPT !["binder"] = [at |-> "taken", job |-> "revoke", s |-> tun]]
  /\ queue' = IF tun = Null /\ routed # Null THEN StopSelf(queue) ELSE queue
  /\ UNCHANGED <<mode, fields, open, shut, interrupted, readers, tasks, ended>>

\* Whose fields thread t works on: a service that is alive, or one that is gone.
AtHome(t) == at[t].s \in home

\* Seeded fault: the reader thread is not interrupted.
CutNoInterrupt(t) ==
  /\ at[t].at = "taken"
  /\ open' = open \ {at[t].s}
  /\ routed' = IF routed = at[t].s THEN Null ELSE routed
  /\ IF AtHome(t)
       THEN /\ tun' = Null /\ pool' = Null
            /\ task' = [p \in Sessions |-> IF p = pool /\ task[p] = "queued" THEN "none" ELSE task[p]]
       ELSE UNCHANGED <<tun, pool, task>>
  /\ at' = [at EXCEPT ![t].at = "cut"]
  /\ UNCHANGED <<mine, queue, guard, home, interrupted, shut, readers, asker, ended>>

\* Seeded fault: the descriptor is left to the reader, which blocks on it.
CutKeepsOpen(t) ==
  /\ at[t].at = "taken"
  /\ IF AtHome(t)
       THEN /\ tun' = Null /\ pool' = Null
            /\ interrupted' = interrupted \cup {r \in {pool} : r # Null /\ reader[r] # "none"}
            /\ task' = [p \in Sessions |-> IF p = pool /\ task[p] = "queued" THEN "none" ELSE task[p]]
       ELSE UNCHANGED <<tun, pool, interrupted, task>>
  /\ at' = [at EXCEPT ![t].at = "cut"]
  /\ UNCHANGED <<mine, routed, queue, guard, home, open, shut, readers, asker, ended>>

\* teardown() from `tun = null` to the pool: what waits is dropped, what runs goes on.
Cut(t) ==
  /\ at[t].at = "taken"
  /\ open' = open \ {at[t].s}
  /\ routed' = IF routed = at[t].s THEN Null ELSE routed
  /\ IF AtHome(t)
       THEN /\ tun' = Null /\ pool' = Null
            /\ interrupted' = interrupted \cup {r \in {pool} : r # Null /\ reader[r] # "none"}
            /\ task' = [p \in Sessions |-> IF p = pool /\ task[p] = "queued" THEN "none" ELSE task[p]]
       ELSE UNCHANGED <<tun, pool, interrupted, task>>
  /\ at' = [at EXCEPT ![t].at = "cut"]
  /\ UNCHANGED <<mine, queue, guard, home, shut, readers, asker, ended>>

\* Seeded fault: a teardown that finds no native guard returns before it records.
ClosedQuietly(t) ==
  /\ at[t].at = "cut"
  /\ shut' = IF AtHome(t) THEN shut \cup ({guard} \ {Null}) ELSE shut
  /\ ended' = IF AtHome(t) /\ guard = Null THEN ended ELSE ended \cup {at[t].s}
  /\ at' = [at EXCEPT ![t] = Idle]
  /\ IF at[t].job = "destroy"
       THEN Discard /\ UNCHANGED queue
       ELSE /\ guard' = IF AtHome(t) THEN Null ELSE guard
            /\ queue' = IF AtHome(t) THEN StopSelf(queue) ELSE queue
            /\ UNCHANGED <<tun, pool, home>>
  /\ UNCHANGED <<mine, routed, open, interrupted, readers, tasks>>

\* teardown() from the guard to the record, and the stopSelf() behind it.
Closed(t) ==
  /\ at[t].at = "cut"
  /\ shut' = IF AtHome(t) THEN shut \cup ({guard} \ {Null}) ELSE shut
  /\ ended' = ended \cup {at[t].s}
  /\ at' = [at EXCEPT ![t] = Idle]
  /\ IF at[t].job = "destroy"
       THEN Discard /\ UNCHANGED queue
       ELSE /\ guard' = IF AtHome(t) THEN Null ELSE guard
            /\ queue' = IF AtHome(t) THEN StopSelf(queue) ELSE queue
            /\ UNCHANGED <<tun, pool, home>>
  /\ UNCHANGED <<mine, routed, open, interrupted, readers, tasks>>

-----------------------------------------------------------------------------
(* The reader thread: readLoop.                                            *)

\* What a thread of session s finds in a field of its service.
Seen(s, field) == IF s \in home THEN field ELSE Null

\* A thread that is over has no locals, and nobody asks for its interrupt flag.
ReaderQuits(s) ==
  /\ reader' = [reader EXCEPT ![s] = "none"]
  /\ source' = [source EXCEPT ![s] = Null]
  /\ interrupted' = interrupted \ {s}

\* `val descriptor = tun ?: return`
ReaderBegins(s) ==
  /\ reader[s] = "fresh"
  /\ IF Seen(s, tun) = Null
       THEN ReaderQuits(s)
       ELSE /\ reader' = [reader EXCEPT ![s] = "loop"]
            /\ source' = [source EXCEPT ![s] = tun]
            /\ UNCHANGED interrupted
  /\ UNCHANGED <<mine, routed, queue, at, fields, open, shut, engine, tasks, ended>>

\* `while (!Thread.currentThread().isInterrupted)`
ReaderLoops(s) ==
  /\ reader[s] = "loop"
  /\ IF s \in interrupted
       THEN ReaderQuits(s)
       ELSE /\ reader' = [reader EXCEPT ![s] = "reading"]
            /\ UNCHANGED <<source, interrupted>>
  /\ UNCHANGED <<mine, routed, queue, at, fields, open, shut, engine, tasks, ended>>

\* The read fails once its descriptor is closed; an interrupt does not end it.
ReadFails(s) ==
  /\ reader[s] = "reading" /\ source[s] \notin open
  /\ ReaderQuits(s)
  /\ UNCHANGED <<mine, routed, queue, at, fields, open, shut, engine, tasks, ended>>

Packet(s) ==
  /\ reader[s] = "reading"
  /\ source[s] \in open /\ routed = source[s]
  /\ reader' = [reader EXCEPT ![s] = "packet"]
  /\ UNCHANGED <<mine, routed, queue, at, fields, open, shut, interrupted, source, engine, tasks, ended>>

\* `val engine = guard ?: return`
PickEngine(s) ==
  /\ reader[s] = "packet"
  /\ IF Seen(s, guard) = Null
       THEN ReaderQuits(s) /\ UNCHANGED engine
       ELSE /\ reader' = [reader EXCEPT ![s] = "judging"]
            /\ engine' = [engine EXCEPT ![s] = guard]
            /\ UNCHANGED <<source, interrupted>>
  /\ UNCHANGED <<mine, routed, queue, at, fields, open, shut, tasks, ended>>

\* inspect() by a guard that is open: the packet is ignored, answered, or given
\* to the pool the field names by now.
Inspect(s) ==
  /\ reader[s] = "judging" /\ engine[s] \notin shut
  /\ reader' = [reader EXCEPT ![s] = "loop"]
  /\ engine' = [engine EXCEPT ![s] = Null]
  /\ LET p == Seen(s, pool)
     IN \/ UNCHANGED task
        \/ p # Null /\ task[p] = "none" /\ task' = [task EXCEPT ![p] = "queued"]
  /\ UNCHANGED <<mine, routed, queue, at, fields, open, shut, interrupted, source, asker, ended>>

ReaderStep(s) == ReaderBegins(s) \/ ReaderLoops(s) \/ ReadFails(s) \/ PickEngine(s) \/ Inspect(s)

-----------------------------------------------------------------------------
(* The pool: forward, ask, receiveMatching.                                *)

\* A query is dropped when there is no guard any more, or no resolver.
Forward(p) ==
  /\ task[p] = "queued"
  /\ \/ task' = [task EXCEPT ![p] = "none"] /\ UNCHANGED asker
     \/ /\ Seen(p, guard) # Null
        /\ task' = [task EXCEPT ![p] = "asking"]
        /\ asker' = [asker EXCEPT ![p] = guard]
  /\ UNCHANGED <<mine, routed, queue, at, fields, open, shut, interrupted, readers, ended>>

\* No resolver answers before its deadline, or one does and wrapResponse frames
\* the answer, which the guard must be open for.
Answer(p) ==
  /\ task[p] = "asking"
  /\ task' = [task EXCEPT ![p] = "none"]
  /\ asker' = [asker EXCEPT ![p] = Null]
  /\ UNCHANGED <<mine, routed, queue, at, fields, open, shut, interrupted, readers, ended>>

TaskStep(p) == Forward(p) \/ Answer(p)

-----------------------------------------------------------------------------
(* The process, the activity, the boot receiver and the user.              *)

\* The process is gone and its descriptors with it; intents q start a new one.
ProcessGone(q) ==
  /\ queue' = q
  /\ routed' = Null
  /\ at' = [t \in Threads |-> Idle]
  /\ Discard
  /\ open' = {} /\ shut' = {} /\ interrupted' = {}
  /\ reader' = Nobody /\ source' = Nothing /\ engine' = Nothing
  /\ task' = Nobody /\ asker' = Nothing
  /\ ended' = Sessions

\* A call into a native guard that is closed throws, and nobody catches it.
Throws(s) ==
  /\ \/ reader[s] = "judging" /\ engine[s] \in shut
     \/ task[s] = "asking" /\ asker[s] \in shut
  /\ \E q \in {<<>>, <<"start">>} : ProcessGone(q)
  /\ UNCHANGED mine

Kill ==
  /\ \E q \in {<<>>, <<"start">>} : ProcessGone(q)
  /\ UNCHANGED mine

\* A window does not survive the boot; BootReceiver starts what should run.
Reboot ==
  /\ mode' = IF mode = "window" THEN "armed" ELSE mode
  /\ ProcessGone(IF consent /\ mode' = "armed" THEN <<"start">> ELSE <<>>)
  /\ UNCHANGED consent

\* MainActivity.refreshNetworkGuard with the mode and the grant it reads.
Sync ==
  /\ at["main"] = Idle /\ Len(queue) < MaxQueue
  /\ queue' = Append(queue, IF consent' /\ mode' = "armed" THEN "start" ELSE "stop")
  /\ UNCHANGED <<routed, at, fields, open, shut, interrupted, readers, tasks, ended>>

Refresh == UNCHANGED mine /\ Sync
Arm == mode # "armed" /\ mode' = "armed" /\ UNCHANGED consent /\ Sync
ConfirmDisarm == mode = "armed" /\ mode' = "window" /\ UNCHANGED consent /\ Sync

\* The consent dialog takes a person longer than a thread takes to be scheduled.
Settled == at["binder"] = Idle /\ \A s \in Sessions : reader[s] # "fresh"
GrantConsent == Settled /\ ~consent /\ consent' = TRUE /\ UNCHANGED mode /\ Sync

\* The window of a disarm closes: the mode reads armed and nothing runs.
WindowCloses ==
  /\ mode = "window" /\ mode' = "armed"
  /\ UNCHANGED <<consent, routed, queue, at, fields, open, shut, interrupted, readers, tasks, ended>>

MainStep == HandleStop \/ HandleIdle \/ Establish \/ Loaded \/ Cut("main") \/ Closed("main")
BinderStep == Cut("binder") \/ Closed("binder")

Next ==
  \/ HandleStop \/ HandleIdle \/ Establish \/ Loaded \/ Revoke
  \/ \E t \in Threads : Cut(t) \/ Closed(t)
  \/ \E s \in Sessions : Packet(s) \/ ReaderStep(s) \/ TaskStep(s) \/ Throws(s)
  \/ Kill \/ Reboot
  \/ Refresh \/ Arm \/ ConfirmDisarm \/ GrantConsent \/ WindowCloses

\* Threads run; a builder that is asked again and again does not always fail.
Fairness ==
  /\ WF_vars(MainStep) /\ WF_vars(BinderStep) /\ SF_vars(Establish)
  /\ \A s \in Sessions : WF_vars(ReaderStep(s) \/ Throws(s)) /\ WF_vars(TaskStep(s))
  /\ WF_vars(WindowCloses)

Spec == Init /\ [][Next]_vars /\ Fairness

-----------------------------------------------------------------------------
(* Properties *)

\* Whoever takes a session down records its end, also when a revoke on the
\* binder thread and a stop on the main thread take the same one down at once,
\* or the service is destroyed under them.
EndIsRecorded ==
  \A s \in Sessions :
    (s # tun /\ \A t \in Threads : at[t].s # s) => s \in ended

\* Two readers never share a descriptor: one that was started before a stop and
\* runs after the start behind it leaves the new session alone.
OneReader ==
  \A r, s \in Sessions :
    (/\ r # s /\ {r, s} \cap interrupted = {}
     /\ {reader[r], reader[s]} \cap {"none", "fresh"} = {}) => source[r] # source[s]

\* The reader and the queries of a session that was taken down come to an end.
ThreadsEnd ==
  \A s \in Sessions :
    (s # tun) ~> (s = tun \/ (reader[s] = "none" /\ task[s] = "none"))

\* While protection is on and the VPN is granted, a user who comes back to the
\* app again and again has a network guard that stays up.
ArmedIsFiltered ==
  (<>[]ShouldRun /\ []<><<Refresh>>_vars /\ <>[][~Kill /\ ~Reboot]_vars) => <>[](routed # Null)

=============================================================================
