--------------------------- MODULE NetworkGuard_proofs ---------------------------
(***************************************************************************)
(* Theorems about the blocklist's two ends.  NetworkGuard, the phone's VPN    *)
(* that applies it, for any number of sessions and any length of the main      *)
(* thread's queue: the end of every session is in the tamper log, and no two   *)
(* readers that are not told to stop share a descriptor.  Build, the pipeline  *)
(* that makes it, for any names, documents, limits and numbers of builds: what *)
(* a cold start loads is what the sources say, within the gates' bounds.       *)
(***************************************************************************)
EXTENDS NetworkGuard, Build, SequenceTheorems, FiniteSetTheorems, WellFoundedInduction,
        TLAPS

USE BoundsAssumption

-----------------------------------------------------------------------------
(* The inductive invariant. What two threads may do to one session without *)
(* a lock is bounded by the grant: onRevoke takes it away first, nothing   *)
(* is established without it, and it does not come back while the binder   *)
(* thread is in teardown or a reader has not made its first step.          *)

Intents == {"start", "stop", "destroy"}

\* One more intent than the bound can wait, and then the service is to be destroyed.
Fits(q) ==
  /\ q \in Seq(Intents)
  /\ Len(q) <= MaxQueue \/ (Len(q) = MaxQueue + 1 /\ \E i \in DOMAIN q : q[i] = "destroy")

Typed ==
  /\ TypeOK
  /\ Fits(queue)

\* Where the main thread and the binder thread are, and whose session that is.
Hands ==
  /\ \A t \in Threads : at[t] = Idle \/ (at[t].at \in {"establish", "taken", "cut"} /\ at[t].s \in Sessions)
  /\ at["main"] # Idle => at["main"].s \in home /\ at["main"].job # "revoke"
  /\ at["binder"] # Idle => ~consent /\ at["binder"].job = "revoke" /\ at["binder"].at # "establish"

\* A teardown is of the session that is up, or of one that somebody took down already.
TakesItsOwn ==
  /\ tun \in home \cup {Null}
  /\ \A t \in Threads :
       /\ at[t].at = "taken" => tun \in {Null, at[t].s}
       /\ at[t].at = "cut" => tun = Null
  /\ at["main"].at = "establish" =>
       /\ tun = at["main"].s \/ (tun = Null /\ ~consent)
       /\ at["main"].s \in {tun, at["binder"].s} \cup ended

\* A reader that has not looked up its descriptor will find its own, or none.
FindsItsOwn ==
  \A s \in Sessions :
    (reader[s] = "fresh" /\ s \notin interrupted /\ s \in home) =>
      (tun = s /\ pool = s) \/ (tun = Null /\ ~consent)

\* One that nobody interrupted reads its own.
ReadsItsOwn ==
  \A s \in Sessions :
    (reader[s] \notin {"none", "fresh"} /\ s \notin interrupted) => source[s] = s

Inv == Typed /\ Hands /\ TakesItsOwn /\ FindsItsOwn /\ ReadsItsOwn /\ EndIsRecorded

-----------------------------------------------------------------------------
(* What waits for the main thread *)

LEMMA TailFits ==
  ASSUME NEW q, Fits(q), q # <<>>
  PROVE  Fits(Tail(q)) /\ Head(q) \in Intents
  <1>1. q \in Seq(Intents) /\ Len(q) \in Nat /\ Len(q) <= MaxQueue + 1
    BY DEF Fits
  <1>2. Tail(q) \in Seq(Intents) /\ Len(Tail(q)) = Len(q) - 1 /\ Head(q) \in Intents
    BY <1>1, HeadTailProperties
  <1>3. Len(Tail(q)) <= MaxQueue
    BY <1>1, <1>2
  <1> QED
    BY <1>2, <1>3 DEF Fits

LEMMA StopSelfFits ==
  ASSUME NEW q, Fits(q)
  PROVE  Fits(StopSelf(q))
  <1>1. CASE \E i \in DOMAIN q : q[i] = "destroy"
    BY <1>1 DEF StopSelf
  <1>2. CASE ~ \E i \in DOMAIN q : q[i] = "destroy"
    <2>1. q \in Seq(Intents) /\ Len(q) \in Nat /\ Len(q) <= MaxQueue
      BY <1>2 DEF Fits
    <2>2. /\ Append(q, "destroy") \in Seq(Intents)
          /\ Len(Append(q, "destroy")) = Len(q) + 1
          /\ Append(q, "destroy")[Len(q) + 1] = "destroy"
      BY <2>1, AppendProperties DEF Intents
    <2>3. Len(q) + 1 \in DOMAIN Append(q, "destroy")
      BY <2>1, <2>2
    <2>4. Fits(Append(q, "destroy"))
      BY <2>1, <2>2, <2>3 DEF Fits
    <2> QED
      BY <1>2, <2>4 DEF StopSelf
  <1> QED
    BY <1>1, <1>2

LEMMA AppendFits ==
  ASSUME NEW q, Fits(q), Len(q) < MaxQueue, NEW i \in Intents
  PROVE  Fits(Append(q, i))
  <1>1. q \in Seq(Intents) /\ Len(q) \in Nat
    BY DEF Fits
  <1>2. Append(q, i) \in Seq(Intents) /\ Len(Append(q, i)) = Len(q) + 1
    BY <1>1, AppendProperties
  <1> QED
    BY <1>1, <1>2 DEF Fits

LEMMA FewFit == Fits(<<>>) /\ Fits(<<"start">>)
  BY DEF Fits, Intents

\* Whatever fits is no longer than the type says.
LEMMA FittingIsTyped ==
  ASSUME NEW q, Fits(q)
  PROVE  q \in Seq({"start", "stop", "destroy"}) /\ Len(q) <= MaxQueue + 1
  BY DEF Fits, Intents

-----------------------------------------------------------------------------
(* The threads of a session touch neither the fields nor the log.          *)

LEMMA InitInv == Init => Inv
  <1> SUFFICES ASSUME Init PROVE Inv
    OBVIOUS
  <1>1. Typed
    BY FewFit, FittingIsTyped
       DEF Init, Typed, TypeOK, Fields, Sessions, Threads, Idle, Null, Nobody, Nothing
  <1>2. Hands /\ TakesItsOwn /\ EndIsRecorded
    BY DEF Init, Hands, TakesItsOwn, EndIsRecorded, Threads, Idle, Null
  <1>3. FindsItsOwn /\ ReadsItsOwn
    BY DEF Init, FindsItsOwn, ReadsItsOwn, Nobody
  <1> QED
    BY <1>1, <1>2, <1>3 DEF Inv

\* A step that leaves the handlers, the fields and the log alone.
LEMMA Aside ==
  ASSUME Inv, UNCHANGED <<consent, at, fields, ended>>
  PROVE  Hands' /\ TakesItsOwn' /\ EndIsRecorded'
  <1>1. Hands'
    BY DEF Inv, Hands, fields
  <1>2. TakesItsOwn'
    BY DEF Inv, TakesItsOwn, fields
  <1>3. EndIsRecorded'
    BY DEF Inv, EndIsRecorded, fields
  <1> QED
    BY <1>1, <1>2, <1>3

LEMMA ReaderInv ==
  ASSUME Inv, NEW s \in Sessions, Packet(s) \/ ReaderStep(s)
  PROVE  Inv'
  <1>0. /\ UNCHANGED <<mine, routed, queue, at, fields, open, shut, ended>>
        /\ UNCHANGED asker
    BY DEF Packet, ReaderStep, ReaderBegins, ReaderLoops, ReadFails, PickEngine, Inspect, tasks
  <1>1. TypeOK'
    <2>1. reader' \in [Sessions -> {"none", "fresh", "loop", "reading", "packet", "judging"}]
      BY DEF Inv, Typed, TypeOK, Packet, ReaderStep, ReaderBegins, ReaderLoops, ReadFails,
             PickEngine, Inspect, ReaderQuits
    <2>2. source' \in [Sessions -> Fields] /\ engine' \in [Sessions -> Fields]
      BY DEF Inv, Typed, TypeOK, Packet, ReaderStep, ReaderBegins, ReaderLoops, ReadFails,
             PickEngine, Inspect, ReaderQuits, Fields, readers
    <2>3. interrupted' \subseteq Sessions
      BY DEF Inv, Typed, TypeOK, Packet, ReaderStep, ReaderBegins, ReaderLoops, ReadFails,
             PickEngine, Inspect, ReaderQuits
    <2>4. task' \in [Sessions -> {"none", "queued", "asking"}]
      BY DEF Inv, Typed, TypeOK, Packet, ReaderStep, ReaderBegins, ReaderLoops, ReadFails,
             PickEngine, Inspect, tasks
    <2> QED
      BY <1>0, <2>1, <2>2, <2>3, <2>4 DEF Inv, Typed, TypeOK, mine, fields
  <1>2. Typed'
    BY <1>0, <1>1 DEF Inv, Typed, Fits
  <1>3. Hands' /\ TakesItsOwn' /\ EndIsRecorded'
    BY <1>0, Aside DEF mine
  <1>4. \A r \in Sessions \ {s} :
          /\ reader'[r] = reader[r] /\ source'[r] = source[r]
          /\ r \in interrupted' <=> r \in interrupted
    BY DEF Inv, Typed, TypeOK, Packet, ReaderStep, ReaderBegins, ReaderLoops, ReadFails,
           PickEngine, Inspect, ReaderQuits
  <1>5. reader'[s] # "fresh"
    BY DEF Inv, Typed, TypeOK, Packet, ReaderStep, ReaderBegins, ReaderLoops, ReadFails,
           PickEngine, Inspect, ReaderQuits
  <1>6. FindsItsOwn'
    BY <1>0, <1>4, <1>5 DEF Inv, FindsItsOwn, mine, fields
  <1>7. ReadsItsOwn'
    <2>1. SUFFICES ASSUME reader'[s] # "none", s \notin interrupted' PROVE source'[s] = s
      BY <1>4 DEF Inv, ReadsItsOwn
    <2>2. s \notin interrupted
      BY <2>1 DEF Inv, Typed, TypeOK, Packet, ReaderStep, ReaderBegins, ReaderLoops, ReadFails,
             PickEngine, Inspect, ReaderQuits
    <2>3. CASE ReaderBegins(s)
      <3>1. Seen(s, tun) # Null /\ source'[s] = tun /\ reader[s] = "fresh"
        BY <2>1, <2>3 DEF ReaderBegins, ReaderQuits, Inv, Typed, TypeOK
      <3>2. s \in home /\ tun # Null
        BY <3>1 DEF Seen
      <3> QED
        BY <2>2, <3>1, <3>2 DEF Inv, FindsItsOwn
    <2>4. CASE ~ReaderBegins(s)
      BY <2>1, <2>2, <2>4
         DEF Packet, ReaderStep, ReaderLoops, ReadFails, PickEngine, Inspect, ReaderQuits, readers,
             Inv, Typed, TypeOK, ReadsItsOwn
    <2> QED
      BY <2>3, <2>4
  <1> QED
    BY <1>2, <1>3, <1>6, <1>7 DEF Inv

LEMMA TaskInv ==
  ASSUME Inv, NEW p \in Sessions, TaskStep(p)
  PROVE  Inv'
  <1>0. UNCHANGED <<mine, routed, queue, at, fields, open, shut, interrupted, readers, ended>>
    BY DEF TaskStep, Forward, Answer
  <1>1. /\ task' \in [Sessions -> {"none", "queued", "asking"}]
        /\ asker' \in [Sessions -> Fields]
    BY DEF Inv, Typed, TypeOK, TaskStep, Forward, Answer, Fields
  <1>2. Typed'
    BY <1>0, <1>1 DEF Inv, Typed, TypeOK, Fits, mine, fields, readers
  <1>3. Hands' /\ TakesItsOwn' /\ EndIsRecorded'
    BY <1>0, Aside DEF mine
  <1>4. FindsItsOwn' /\ ReadsItsOwn'
    BY <1>0 DEF Inv, FindsItsOwn, ReadsItsOwn, mine, fields, readers
  <1> QED
    BY <1>2, <1>3, <1>4 DEF Inv

-----------------------------------------------------------------------------
(* The process, and what is posted to the main thread *)

LEMMA GoneInv ==
  ASSUME Inv, NEW q, Fits(q), ProcessGone(q),
         mode' \in {"off", "armed", "window"}, consent' \in BOOLEAN
  PROVE  Inv'
  <1>1. Typed'
    BY FittingIsTyped
       DEF ProcessGone, Discard, Typed, TypeOK, Fields, Sessions, Threads, Idle, Null, Nobody, Nothing
  <1>2. Hands' /\ TakesItsOwn' /\ EndIsRecorded'
    BY DEF ProcessGone, Discard, Hands, TakesItsOwn, EndIsRecorded, Threads, Idle, Null
  <1>3. FindsItsOwn' /\ ReadsItsOwn'
    BY DEF ProcessGone, FindsItsOwn, ReadsItsOwn, Nobody
  <1> QED
    BY <1>1, <1>2, <1>3 DEF Inv

LEMMA EndInv ==
  ASSUME Inv, (\E s \in Sessions : Throws(s)) \/ Kill \/ Reboot
  PROVE  Inv'
  <1>1. mode \in {"off", "armed", "window"} /\ consent \in BOOLEAN
    BY DEF Inv, Typed, TypeOK
  <1>2. CASE Reboot
    <2>1. mode' \in {"off", "armed", "window"} /\ consent' \in BOOLEAN
      BY <1>1, <1>2 DEF Reboot
    <2>2. \E q \in {<<>>, <<"start">>} : ProcessGone(q)
      BY <1>2 DEF Reboot
    <2> QED
      BY <2>1, <2>2, FewFit, GoneInv
  <1>3. CASE (\E s \in Sessions : Throws(s)) \/ Kill
    <2>1. UNCHANGED mine /\ \E q \in {<<>>, <<"start">>} : ProcessGone(q)
      BY <1>3 DEF Throws, Kill
    <2> QED
      BY <1>1, <2>1, FewFit, GoneInv DEF mine
  <1> QED
    BY <1>2, <1>3

\* The grant comes back when no teardown is under way and every reader has begun.
LEMMA SyncInv ==
  ASSUME Inv, Refresh \/ Arm \/ ConfirmDisarm \/ GrantConsent
  PROVE  Inv'
  <1>0. /\ Sync
        /\ mode' \in {"off", "armed", "window"} /\ consent' \in BOOLEAN
        /\ consent' # consent => Settled
    BY DEF Inv, Typed, TypeOK, Refresh, Arm, ConfirmDisarm, GrantConsent, mine
  <1>1. UNCHANGED <<routed, at, fields, open, shut, interrupted, readers, tasks, ended>>
    BY <1>0 DEF Sync
  <1>2. Fits(queue')
    <2>1. PICK i \in Intents : queue' = Append(queue, i)
      BY <1>0 DEF Sync, Intents
    <2> QED
      BY <1>0, <2>1, AppendFits DEF Sync, Inv, Typed
  <1>3. Typed'
    BY <1>0, <1>1, <1>2, FittingIsTyped DEF Inv, Typed, TypeOK, fields, readers, tasks
  <1>4. Hands' /\ TakesItsOwn' /\ EndIsRecorded'
    <2>1. CASE consent' = consent
      BY <1>1, <2>1, Aside
    <2>2. CASE consent' # consent
      <3>1. at["main"] = Idle /\ at["binder"] = Idle
        BY <1>0, <2>2 DEF Sync, Settled
      <3> QED
        BY <1>1, <3>1 DEF Inv, Hands, TakesItsOwn, EndIsRecorded, Idle, fields
    <2> QED
      BY <2>1, <2>2
  <1>5. FindsItsOwn' /\ ReadsItsOwn'
    BY <1>0, <1>1 DEF Inv, FindsItsOwn, ReadsItsOwn, Settled, fields, readers
  <1> QED
    BY <1>3, <1>4, <1>5 DEF Inv

LEMMA WindowInv ==
  ASSUME Inv, WindowCloses
  PROVE  Inv'
  <1>0. mode' = "armed" /\ UNCHANGED <<consent, routed, queue, at, fields, open, shut, interrupted, readers, tasks, ended>>
    BY DEF WindowCloses
  <1>1. Typed'
    BY <1>0 DEF Inv, Typed, TypeOK, Fits, fields, readers, tasks
  <1>2. Hands' /\ TakesItsOwn' /\ EndIsRecorded'
    BY <1>0, Aside
  <1>3. FindsItsOwn' /\ ReadsItsOwn'
    BY <1>0 DEF Inv, FindsItsOwn, ReadsItsOwn, fields, readers
  <1> QED
    BY <1>1, <1>2, <1>3 DEF Inv

-----------------------------------------------------------------------------
(* The handlers *)

\* A handler that leaves the readers alone leaves them their descriptors.
LEMMA ReadersAside ==
  ASSUME Inv, UNCHANGED <<interrupted, readers>>
  PROVE  ReadsItsOwn'
  BY DEF Inv, ReadsItsOwn, readers

LEMMA IdleInv ==
  ASSUME Inv, HandleIdle
  PROVE  Inv'
  <1>0. UNCHANGED <<mine, routed, at, fields, open, shut, interrupted, readers, tasks, ended>>
    BY DEF HandleIdle
  <1>1. Fits(queue')
    BY TailFits, StopSelfFits DEF HandleIdle, Inv, Typed
  <1>2. Typed'
    BY <1>0, <1>1, FittingIsTyped DEF Inv, Typed, TypeOK, mine, fields, readers, tasks
  <1>3. Hands' /\ TakesItsOwn' /\ EndIsRecorded'
    BY <1>0, Aside DEF mine
  <1>4. FindsItsOwn' /\ ReadsItsOwn'
    BY <1>0 DEF Inv, FindsItsOwn, ReadsItsOwn, mine, fields, readers
  <1> QED
    BY <1>2, <1>3, <1>4 DEF Inv

\* The main thread takes up a session, or ends a service that has none.
LEMMA StopInv ==
  ASSUME Inv, HandleStop
  PROVE  Inv'
  <1>0. /\ at["main"] = Idle /\ queue # <<>>
        /\ UNCHANGED <<mine, routed, open, shut, interrupted, readers, tasks, ended>>
    BY DEF HandleStop
  <1>1. PICK job \in {"stop", "destroy"} : TakeDown(job)
    BY DEF HandleStop
  <1>2. Fits(Tail(queue)) /\ Fits(StopSelf(Tail(queue)))
    BY <1>0, TailFits, StopSelfFits DEF Inv, Typed
  <1>3. CASE tun # Null
    <2>0. /\ at' = [at EXCEPT !["main"] = [at |-> "taken", job |-> job, s |-> tun]]
          /\ queue' = Tail(queue)
          /\ UNCHANGED fields
      BY <1>1, <1>3 DEF TakeDown
    <2>1. at'["main"] = [at |-> "taken", job |-> job, s |-> tun] /\ at'["binder"] = at["binder"]
      BY <2>0 DEF Inv, Typed, TypeOK, Threads
    <2>2. Typed'
      BY <1>0, <1>2, <2>0, FittingIsTyped DEF Inv, Typed, TypeOK, Threads, mine, fields, readers, tasks
    <2>3. tun \in Sessions /\ tun \in home
      BY <1>3 DEF Inv, Typed, TypeOK, Fields, TakesItsOwn
    <2>4. Hands'
      BY <1>0, <2>0, <2>1, <2>3 DEF Inv, Hands, Threads, Idle, mine, fields
    <2>5. TakesItsOwn'
      BY <1>0, <2>0, <2>1 DEF Inv, TakesItsOwn, Threads, mine, fields
    <2>6. EndIsRecorded'
      <3> SUFFICES ASSUME NEW s \in Sessions, s # tun, at'["binder"].s # s
                   PROVE  s \in ended
        BY <1>0, <2>0 DEF EndIsRecorded, Threads, fields
      <3>1. at["main"].s # s
        BY <1>0 DEF Idle, Null, Sessions
      <3> QED
        BY <2>1, <3>1 DEF Inv, EndIsRecorded, Threads
    <2>7. FindsItsOwn' /\ ReadsItsOwn'
      BY <1>0, <2>0 DEF Inv, FindsItsOwn, ReadsItsOwn, mine, fields, readers
    <2> QED
      BY <2>2, <2>4, <2>5, <2>6, <2>7 DEF Inv
  <1>4. CASE tun = Null
    <2>0. /\ at' = at /\ queue' \in {Tail(queue), StopSelf(Tail(queue))}
          /\ UNCHANGED fields \/ Discard
      BY <1>1, <1>4 DEF TakeDown
    <2>1. tun' = Null /\ home' \in {home, {}} /\ guard' \in {guard, Null} /\ pool' \in {pool, Null}
      BY <1>4, <2>0 DEF Discard, fields
    <2>2. Typed'
      BY <1>0, <1>2, <2>0, <2>1, FittingIsTyped
         DEF Inv, Typed, TypeOK, Fields, Null, mine, readers, tasks
    <2>3. Hands' /\ TakesItsOwn'
      BY <1>0, <1>4, <2>0, <2>1 DEF Inv, Hands, TakesItsOwn, Idle, Threads, mine
    <2>4. EndIsRecorded'
      BY <1>0, <1>4, <2>0, <2>1 DEF Inv, EndIsRecorded
    <2>5. FindsItsOwn' /\ ReadsItsOwn'
      BY <1>0, <1>4, <2>0, <2>1 DEF Inv, FindsItsOwn, ReadsItsOwn, mine, readers, Sessions, Null
    <2> QED
      BY <2>2, <2>3, <2>4, <2>5 DEF Inv
  <1> QED
    BY <1>3, <1>4

\* A session begins with the grant: nobody on the binder thread is in its way.
LEMMA EstablishInv ==
  ASSUME Inv, Establish
  PROVE  Inv'
  <1>0. /\ at["main"] = Idle /\ queue # <<>> /\ consent /\ tun = Null
        /\ queue' = Tail(queue)
        /\ UNCHANGED <<mine, guard, pool, readers, tasks>>
    BY DEF Establish, ShouldRun
  <1>1. PICK s \in Sessions :
          /\ Unused(s)
          /\ tun' = s /\ routed' = s
          /\ at' = [at EXCEPT !["main"] = [at |-> "establish", job |-> "start", s |-> s]]
          /\ open' = open \cup {s}
          /\ home' = home \cup {s}
          /\ shut' = shut \ {s} /\ interrupted' = interrupted \ {s} /\ ended' = ended \ {s}
    BY DEF Establish
  <1>2. at'["main"] = [at |-> "establish", job |-> "start", s |-> s] /\ at'["binder"] = Idle
    BY <1>0, <1>1 DEF Inv, Typed, TypeOK, Threads, Hands
  <1>3. reader[s] = "none"
    BY <1>1 DEF Unused
  <1>4. Typed'
    <2>1. at' \in [Threads -> [at : {"idle", "establish", "taken", "cut"},
                               job : {"none", "start", "stop", "destroy", "revoke"}, s : Fields]]
      BY <1>1 DEF Inv, Typed, TypeOK, Threads, Fields
    <2>2. Fits(queue')
      BY <1>0, TailFits DEF Inv, Typed
    <2> QED
      BY <1>0, <1>1, <2>1, <2>2, FittingIsTyped DEF Inv, Typed, TypeOK, Fields, mine, readers, tasks
  <1>5. Hands'
    BY <1>0, <1>1, <1>2 DEF Hands, Threads, Idle, mine
  <1>6. TakesItsOwn'
    BY <1>0, <1>1, <1>2 DEF TakesItsOwn, Threads, Idle, mine
  <1>7. EndIsRecorded'
    BY <1>0, <1>1, <1>2 DEF Inv, EndIsRecorded, Threads, Idle, Hands, Sessions, Null
  <1>8. FindsItsOwn'
    <2> SUFFICES ASSUME NEW r \in Sessions, reader[r] = "fresh", r \notin interrupted', r \in home'
                 PROVE  FALSE
      BY <1>0 DEF FindsItsOwn, readers
    <2> QED
      BY <1>0, <1>1, <1>3 DEF Inv, FindsItsOwn, Sessions, Null
  <1>9. ReadsItsOwn'
    BY <1>0, <1>1, <1>3 DEF Inv, ReadsItsOwn, readers
  <1> QED
    BY <1>4, <1>5, <1>6, <1>7, <1>8, <1>9 DEF Inv

\* The reader starts: its session is up, or was taken down with the grant.
LEMMA LoadedInv ==
  ASSUME Inv, Loaded
  PROVE  Inv'
  <1> DEFINE s == at["main"].s
  <1>0. /\ at["main"].at = "establish"
        /\ guard' = s /\ pool' = s
        /\ reader' = [reader EXCEPT ![s] = "fresh"]
        /\ at' = [at EXCEPT !["main"] = Idle]
        /\ UNCHANGED <<mine, routed, queue, tun, home, open, shut, interrupted, source, engine, tasks, ended>>
    BY DEF Loaded
  <1>1. s \in Sessions
    BY <1>0 DEF Inv, Hands, Threads, Idle
  <1>2. at'["main"] = Idle /\ at'["binder"] = at["binder"]
    BY <1>0 DEF Inv, Typed, TypeOK, Threads
  <1>3. tun = s \/ (tun = Null /\ ~consent)
    BY <1>0 DEF Inv, TakesItsOwn
  <1>4. Typed'
    <2>1. at' \in [Threads -> [at : {"idle", "establish", "taken", "cut"},
                               job : {"none", "start", "stop", "destroy", "revoke"}, s : Fields]]
      BY <1>0 DEF Inv, Typed, TypeOK, Threads, Fields, Idle
    <2>2. reader' \in [Sessions -> {"none", "fresh", "loop", "reading", "packet", "judging"}]
      BY <1>0 DEF Inv, Typed, TypeOK
    <2> QED
      BY <1>0, <1>1, <2>1, <2>2 DEF Inv, Typed, TypeOK, Fields, Fits, mine, tasks
  <1>5. Hands' /\ TakesItsOwn'
    BY <1>0, <1>2 DEF Inv, Hands, TakesItsOwn, Threads, Idle, mine
  <1>6. EndIsRecorded'
    <2> SUFFICES ASSUME NEW r \in Sessions, r # tun, at["binder"].s # r
                 PROVE  r \in ended
      BY <1>0, <1>2 DEF EndIsRecorded, Threads
    <2> QED
      BY <1>0 DEF Inv, EndIsRecorded, TakesItsOwn, Threads
  <1>7. FindsItsOwn'
    <2> SUFFICES ASSUME NEW r \in Sessions, reader'[r] = "fresh", r \notin interrupted, r \in home
                 PROVE  (tun = r /\ pool' = r) \/ (tun = Null /\ ~consent)
      BY <1>0 DEF FindsItsOwn, mine
    <2>1. CASE r = s
      BY <1>0, <1>3, <2>1
    <2>2. CASE r # s
      <3>1. reader[r] = "fresh"
        BY <1>0, <2>2 DEF Inv, Typed, TypeOK
      <3> QED
        BY <1>3, <2>2, <3>1 DEF Inv, FindsItsOwn, Sessions, Null
    <2> QED
      BY <2>1, <2>2
  <1>8. ReadsItsOwn'
    BY <1>0, <1>1 DEF Inv, Typed, TypeOK, ReadsItsOwn
  <1> QED
    BY <1>4, <1>5, <1>6, <1>7, <1>8 DEF Inv

\* The grant is taken away before the binder thread does anything else.
LEMMA RevokeInv ==
  ASSUME Inv, Revoke
  PROVE  Inv'
  <1>0. /\ consent /\ at["binder"] = Idle /\ consent' = FALSE /\ routed' = Null
        /\ at' = IF tun = Null THEN at
                 ELSE [at EXCEPT !["binder"] = [at |-> "taken", job |-> "revoke", s |-> tun]]
        /\ queue' \in {queue, StopSelf(queue)}
        /\ UNCHANGED <<mode, fields, open, shut, interrupted, readers, tasks, ended>>
    BY DEF Revoke
  <1>1. /\ at'["main"] = at["main"]
        /\ at'["binder"] = IF tun = Null THEN Idle ELSE [at |-> "taken", job |-> "revoke", s |-> tun]
    BY <1>0 DEF Inv, Typed, TypeOK, Threads
  <1>2. Typed'
    <2>1. at' \in [Threads -> [at : {"idle", "establish", "taken", "cut"},
                               job : {"none", "start", "stop", "destroy", "revoke"}, s : Fields]]
      BY <1>0 DEF Inv, Typed, TypeOK, Threads
    <2>2. Fits(queue')
      BY <1>0, StopSelfFits DEF Inv, Typed
    <2> QED
      BY <1>0, <2>1, <2>2, FittingIsTyped DEF Inv, Typed, TypeOK, Fields, fields, readers, tasks
  <1>3. Hands'
    BY <1>0, <1>1 DEF Inv, Typed, TypeOK, Fields, Hands, Threads, Idle, fields
  <1>4. TakesItsOwn'
    BY <1>0, <1>1 DEF Inv, TakesItsOwn, Threads, Idle, Null, fields
  <1>5. EndIsRecorded'
    <2> SUFFICES ASSUME NEW s \in Sessions, s # tun, at["main"].s # s
                 PROVE  s \in ended
      BY <1>0, <1>1 DEF EndIsRecorded, Threads, fields
    <2>1. at["binder"].s # s
      BY <1>0 DEF Idle, Null, Sessions
    <2> QED
      BY <2>1 DEF Inv, EndIsRecorded, Threads
  <1>6. FindsItsOwn' /\ ReadsItsOwn'
    BY <1>0 DEF Inv, FindsItsOwn, ReadsItsOwn, fields, readers
  <1> QED
    BY <1>2, <1>3, <1>4, <1>5, <1>6 DEF Inv

\* After a cut nothing is up: the session of a teardown is the one that was.
LEMMA CutInv ==
  ASSUME Inv, NEW t \in Threads, Cut(t)
  PROVE  Inv'
  <1>0. /\ at[t].at = "taken"
        /\ at' = [at EXCEPT ![t].at = "cut"]
        /\ UNCHANGED <<mine, queue, guard, home, shut, readers, asker, ended>>
    BY DEF Cut
  <1>1. \A u \in Threads :
          /\ at'[u].s = at[u].s /\ at'[u].job = at[u].job
          /\ at'[u].at = IF u = t THEN "cut" ELSE at[u].at
    BY <1>0 DEF Inv, Typed, TypeOK
  <1>2. at[t].s \in Sessions /\ (t = "main" => AtHome(t))
    BY <1>0 DEF Inv, Hands, Idle, AtHome
  <1>3. tun \in {Null, at[t].s} /\ (tun # Null => AtHome(t))
    BY <1>0 DEF Inv, TakesItsOwn, AtHome
  <1>4. tun' = Null /\ pool' \in {pool, Null}
    BY <1>3 DEF Cut
  <1>5. interrupted \subseteq interrupted' /\ interrupted' \subseteq Sessions
    BY DEF Cut, Inv, Typed, TypeOK, Fields
  <1>6. Typed'
    <2>1. at' \in [Threads -> [at : {"idle", "establish", "taken", "cut"},
                               job : {"none", "start", "stop", "destroy", "revoke"}, s : Fields]]
      BY <1>0 DEF Inv, Typed, TypeOK
    <2>2. task' \in [Sessions -> {"none", "queued", "asking"}]
      BY DEF Cut, Inv, Typed, TypeOK
    <2>3. open' \subseteq Sessions /\ routed' \in Fields /\ tun' \in Fields /\ pool' \in Fields
      BY <1>4 DEF Cut, Inv, Typed, TypeOK, Fields
    <2> QED
      BY <1>0, <1>5, <2>1, <2>2, <2>3 DEF Inv, Typed, TypeOK, Fits, mine, readers
  <1>7. Hands'
    <2>1. \A u \in Threads : at[u] = Idle => at'[u] = Idle
      BY <1>0 DEF Inv, Typed, TypeOK, Idle
    <2>2. \A u \in Threads : at'[u] # Idle => at'[u].at \in {"establish", "taken", "cut"} /\ at'[u].s \in Sessions
      BY <1>1, <2>1 DEF Inv, Hands
    <2> QED
      BY <1>0, <1>1, <2>1, <2>2 DEF Inv, Hands, Threads, mine
  <1>8. TakesItsOwn'
    <2>1. ASSUME at'["main"].at = "establish"
          PROVE  ~consent /\ at["main"].s \in {at["binder"].s} \cup ended
      <3>1. t = "binder" /\ at["main"].at = "establish"
        BY <1>1, <2>1 DEF Threads
      <3>2. at["main"].s # Null /\ at["binder"] # Idle
        BY <1>0, <3>1 DEF Inv, Hands, Threads, Idle, Sessions, Null
      <3> QED
        BY <1>3, <3>1, <3>2 DEF Inv, Hands, TakesItsOwn
    <2> QED
      BY <1>0, <1>1, <1>4, <2>1 DEF TakesItsOwn, mine, Threads
  <1>9. EndIsRecorded'
    <2> SUFFICES ASSUME NEW s \in Sessions, \A u \in Threads : at'[u].s # s
                 PROVE  s \in ended
      BY <1>0 DEF EndIsRecorded
    <2>1. \A u \in Threads : at[u].s # s
      BY <1>1
    <2>2. s # tun
      BY <1>3, <2>1 DEF Sessions, Null
    <2> QED
      BY <2>1, <2>2 DEF Inv, EndIsRecorded
  <1>10. FindsItsOwn'
    <2> SUFFICES ASSUME NEW s \in Sessions, reader[s] = "fresh", s \notin interrupted', s \in home
                 PROVE  ~consent
      BY <1>0, <1>4 DEF FindsItsOwn, mine, readers
    <2>1. (tun = s /\ pool = s) \/ (tun = Null /\ ~consent)
      BY <1>5 DEF Inv, FindsItsOwn
    <2>2. ASSUME tun = s, pool = s PROVE FALSE
      <3>1. AtHome(t) /\ s # Null
        BY <1>3, <2>2 DEF Sessions, Null
      <3>2. s \in interrupted'
        BY <2>2, <3>1 DEF Cut
      <3> QED
        BY <3>2
    <2> QED
      BY <2>1, <2>2
  <1>11. ReadsItsOwn'
    BY <1>0, <1>5 DEF Inv, ReadsItsOwn, readers
  <1> QED
    BY <1>6, <1>7, <1>8, <1>9, <1>10, <1>11 DEF Inv

\* The end of a teardown is in the log, whoever comes to it and however often.
LEMMA ClosedInv ==
  ASSUME Inv, NEW t \in Threads, Closed(t)
  PROVE  Inv'
  <1>0. /\ at[t].at = "cut"
        /\ at' = [at EXCEPT ![t] = Idle]
        /\ ended' = ended \cup {at[t].s}
        /\ UNCHANGED <<mine, routed, open, interrupted, readers, tasks>>
    BY DEF Closed
  <1>1. /\ at'[t] = Idle
        /\ \A u \in Threads \ {t} : at'[u] = at[u]
    BY <1>0 DEF Inv, Typed, TypeOK
  <1>2. at[t].s \in Sessions /\ tun = Null
    BY <1>0 DEF Inv, Hands, TakesItsOwn, Idle
  <1>3. /\ tun' = Null /\ guard' \in {guard, Null} /\ pool' \in {pool, Null}
        /\ home' = home \/ (home' = {} /\ t = "main")
        /\ queue' \in {queue, StopSelf(queue)}
    <2>1. at[t].job = "destroy" => t = "main"
      BY <1>0 DEF Inv, Hands, Threads, Idle
    <2> QED
      BY <1>2, <2>1 DEF Closed, Discard
  <1>4. Typed'
    <2>1. at' \in [Threads -> [at : {"idle", "establish", "taken", "cut"},
                               job : {"none", "start", "stop", "destroy", "revoke"}, s : Fields]]
      BY <1>0 DEF Inv, Typed, TypeOK, Idle, Fields
    <2>2. Fits(queue')
      BY <1>3, StopSelfFits DEF Inv, Typed
    <2>3. shut' \subseteq Sessions
      BY DEF Closed, Inv, Typed, TypeOK, Fields
    <2>4. home' \subseteq Sessions
      BY <1>3 DEF Inv, Typed, TypeOK
    <2> QED
      BY <1>0, <1>2, <1>3, <2>1, <2>2, <2>3, <2>4, FittingIsTyped
         DEF Inv, Typed, TypeOK, Fields, mine, readers, tasks
  <1>5. Hands'
    BY <1>0, <1>1, <1>3 DEF Inv, Hands, Threads, mine
  <1>6. TakesItsOwn'
    <2>1. \A u \in Threads : at'[u].at # "taken" \/ at[u].at = "taken"
      BY <1>1 DEF Idle
    <2>2. ASSUME at'["main"].at = "establish"
          PROVE  ~consent /\ at'["main"].s \in ended'
      <3>1. t = "binder" /\ at["main"].at = "establish" /\ at'["main"] = at["main"]
        BY <1>1, <2>2 DEF Threads, Idle
      <3>2. at["main"].s # Null
        BY <3>1 DEF Inv, Hands, Threads, Idle, Sessions, Null
      <3> QED
        BY <1>0, <1>2, <3>1, <3>2 DEF Inv, TakesItsOwn, Hands
    <2> QED
      BY <1>0, <1>3, <2>2 DEF TakesItsOwn, mine
  <1>7. EndIsRecorded'
    BY <1>0, <1>1, <1>2, <1>3 DEF Inv, EndIsRecorded
  <1>8. FindsItsOwn' /\ ReadsItsOwn'
    BY <1>0, <1>2, <1>3 DEF Inv, FindsItsOwn, ReadsItsOwn, Sessions, Null, mine, readers
  <1> QED
    BY <1>4, <1>5, <1>6, <1>7, <1>8 DEF Inv

-----------------------------------------------------------------------------
(* The theorems *)

LEMMA StutterInv ==
  ASSUME Inv, UNCHANGED vars
  PROVE  Inv'
  BY DEF vars, mine, fields, readers, tasks, Inv, Typed, TypeOK, Fits, Hands, TakesItsOwn, FindsItsOwn,
         ReadsItsOwn, EndIsRecorded

LEMMA NextInv == Inv /\ [Next]_vars => Inv'
  <1> SUFFICES ASSUME Inv, [Next]_vars PROVE Inv'
    OBVIOUS
  <1>1. CASE HandleStop
    BY <1>1, StopInv
  <1>2. CASE HandleIdle
    BY <1>2, IdleInv
  <1>3. CASE Establish
    BY <1>3, EstablishInv
  <1>4. CASE Loaded
    BY <1>4, LoadedInv
  <1>5. CASE Revoke
    BY <1>5, RevokeInv
  <1>6. CASE \E t \in Threads : Cut(t) \/ Closed(t)
    BY <1>6, CutInv, ClosedInv
  <1>7. CASE \E s \in Sessions : Packet(s) \/ ReaderStep(s)
    BY <1>7, ReaderInv
  <1>8. CASE \E s \in Sessions : TaskStep(s)
    BY <1>8, TaskInv
  <1>9. CASE (\E s \in Sessions : Throws(s)) \/ Kill \/ Reboot
    BY <1>9, EndInv
  <1>10. CASE Refresh \/ Arm \/ ConfirmDisarm \/ GrantConsent
    BY <1>10, SyncInv
  <1>11. CASE WindowCloses
    BY <1>11, WindowInv
  <1>12. CASE UNCHANGED vars
    BY <1>12, StutterInv
  <1> QED
    BY <1>1, <1>2, <1>3, <1>4, <1>5, <1>6, <1>7, <1>8, <1>9, <1>10, <1>11, <1>12, Zenon DEF Next

LEMMA InvAlways == Spec => []Inv
  BY InitInv, NextInv, PTL DEF Spec

\* Fields, threads and sets name sessions there are; no more intents wait than
\* the bound, one for the destroy of stopSelf() apart.
THEOREM TypeCorrect == Spec => []TypeOK
  <1>1. Inv => TypeOK
    BY DEF Inv, Typed
  <1> QED
    BY <1>1, InvAlways, PTL

\* Whoever takes a session down records its end: onRevoke on the binder thread,
\* a stop or a destroy on the main thread, in whatever order they interleave.
THEOREM EveryEndIsRecorded == Spec => []EndIsRecorded
  <1>1. Inv => EndIsRecorded
    BY DEF Inv
  <1> QED
    BY <1>1, InvAlways, PTL

\* Two readers that go on reading never have one descriptor between them.
THEOREM OneReaderEach == Spec => []OneReader
  <1>1. Inv => OneReader
    <2> SUFFICES ASSUME Inv, NEW r \in Sessions, NEW s \in Sessions, r # s,
                        {r, s} \cap interrupted = {},
                        {reader[r], reader[s]} \cap {"none", "fresh"} = {}
                 PROVE  source[r] # source[s]
      BY DEF OneReader
    <2>1. source[r] = r /\ source[s] = s
      BY DEF Inv, ReadsItsOwn
    <2> QED
      BY <2>1
  <1> QED
    BY <1>1, InvAlways, PTL

-----------------------------------------------------------------------------
(* A list on its way from the documents to a device. What a list holds is      *)
(* what merging its documents gave; what it does not hold was pruned, or cut   *)
(* off by --sample. The gates looked at the very list that is published, for   *)
(* nothing touches list, documents or predecessor while the files move.        *)

\* The list comes from these documents, and whole but for what was pruned or cut.
Made(list, docs, gone, cut) ==
  /\ list \subseteq Merge(docs)
  /\ cut = 0 => NamesOf(Merge(docs)) \subseteq NamesOf(list) \cup gone

InTheMaking ==
  stage # "idle" => Made(entries, pinned, sweptOut, sample) /\ (stage = "merged" => sweptOut = {})
Whole ==
  \A n \in DOMAIN lists :
    Made(lists[n].entries, lists[n].docs, lists[n].sweptOut, lists[n].sample)

\* What the false-positive gate counts, of any list.
Unreviewed(list) ==
  {e \in list : e.name \in ControlSet \ Exclusions /\ Cardinality(e.sources) < 2}
WithinRate(list) == 100 * Cardinality(Unreviewed(list)) <= MaxFpPct * Cardinality(ControlSet)
Reviews == \A n \in DOMAIN lists : WithinRate(lists[n].entries)

\* The gates have passed what is being published.
Gated == stage = "publish" => Shrinkage /\ Growth /\ FalsePositives

\* A build was compared with one before it.
Compared == \A n \in DOMAIN lists : lists[n].base \in (1..(n - 1)) \cup {None}

BuildInv ==
  BuildTypeOK /\ InTheMaking /\ Whole /\ Reviews /\ Gated /\ Compared /\ LossIsBounded

-----------------------------------------------------------------------------
(* What is fetched is what is pinned, whatever the retries met *)

\* A set of places has a first one.
LEMMA FirstExists ==
  ASSUME NEW n \in Nat, NEW M \in SUBSET (1..n), M # {}
  PROVE  \E m \in M : \A k \in M : m <= k
  <1> DEFINE below(k) == {j \in M : j < k}
             T == {below(k) : k \in M}
  <1>1. IsFiniteSet(M)
    <2>1. IsFiniteSet(1..n)
      BY FS_Interval
    <2> QED
      BY <2>1, FS_Subset
  <1>2. T \subseteq FiniteSubsetsOf(M) /\ T # {}
    <2>1. \A k \in M : below(k) \in SUBSET M
      OBVIOUS
    <2>2. \A k \in M : IsFiniteSet(below(k))
      BY <1>1, <2>1, FS_Subset
    <2>3. PICK k \in M : TRUE
      OBVIOUS
    <2> HIDE DEF below
    <2>4. \A j \in M : below(j) \in FiniteSubsetsOf(M)
      BY <2>1, <2>2 DEF FiniteSubsetsOf
    <2>5. below(k) \in T
      OBVIOUS
    <2>6. \A t \in T : t \in FiniteSubsetsOf(M)
      BY <2>4, Zenon
    <2> QED
      BY <2>5, <2>6, Zenon
  <1>3. PICK s \in T : \A u \in T : <<u, s>> \notin StrictSubsetOrdering(M)
    <2> HIDE DEF T
    <2> QED
      BY <1>2, WFMin, FS_StrictSubsetOrderingWellFounded
  <1>4. PICK m \in M : s = below(m)
    OBVIOUS
  <1>5. ASSUME NEW k \in M, k < m PROVE FALSE
    <2>1. k \in below(m) /\ k \notin below(k)
      BY <1>5
    <2>2. below(k) \subseteq below(m)
      <3> SUFFICES ASSUME NEW j \in M, j < k PROVE j < m
        OBVIOUS
      <3>1. j \in Int /\ k \in Int /\ m \in Int
        OBVIOUS
      <3> QED
        BY <1>5, <3>1
    <2>3. <<below(k), s>> \in StrictSubsetOrdering(M)
      BY <1>4, <2>1, <2>2 DEF StrictSubsetOrdering
    <2> QED
      BY <1>3, <2>3
  <1> QED
    BY <1>5

\* A request with its retries comes back with one of the replies.
LEMMA RequestedIsReply ==
  ASSUME NEW replies, NEW retried
  PROVE  \E n \in 1..Attempts : Requested(replies, retried) = replies[n]
  <1> DEFINE final == {n \in 1..Attempts : replies[n].kind \notin retried}
  <1>1. CASE final = {}
    <2>1. Attempts \in 1..Attempts
      BY AttemptsAssumption
    <2> QED
      BY <1>1, <2>1 DEF Requested
  <1>2. CASE final # {}
    <2>1. \E m \in final : \A k \in final : m <= k
      <3> HIDE DEF final
      <3>1. final \in SUBSET (1..Attempts)
        BY DEF final
      <3> QED
        BY <1>2, <3>1, FirstExists, AttemptsAssumption
    <2>2. (CHOOSE n \in final : \A k \in final : n <= k) \in final
      BY <2>1
    <2> QED
      BY <1>2, <2>2 DEF Requested
  <1> QED
    BY <1>1, <1>2

\* It holds what the address held.
LEMMA ReceivedHolds ==
  ASSUME NEW held, NEW retried, NEW r \in Received(held, retried)
  PROVE  r.held \in held
  <1>1. PICK replies \in [1..Attempts -> Replies(held)] : r = Requested(replies, retried)
    BY DEF Received
  <1>2. PICK n \in 1..Attempts : r = replies[n]
    BY <1>1, RequestedIsReply
  <1>3. r \in Replies(held)
    BY <1>1, <1>2
  <1> QED
    BY <1>3 DEF Replies

\* What fetch_source accepts has the content the pin names.
LEMMA AcceptedIsPinned ==
  ASSUME NEW job, NEW content, NEW fetched \in Accepted(job, content)
  PROVE  fetched.bytes = content
  <1>1. fetched.revision = Pin(job, content)
    BY DEF Accepted
  <1>2. CASE SourceOf[job] = "Ut1"
    <2>1. PICK tarball \in Received(Tarballs(job), Ut1Retried),
               page \in Received(Licences, Ut1Retried) :
            fetched = [revision |-> tarball.held, licence |-> page.held,
                       bytes |-> tarball.held.lines]
      BY <1>2 DEF Accepted, Ut1Fetch
    <2>2. tarball.held = [by |-> "etag", lines |-> content]
      BY <1>1, <1>2, <2>1 DEF Pin
    <2> QED
      BY <2>1, <2>2
  <1>3. CASE SourceOf[job] # "Ut1"
    <2>1. \E raw \in Received({content}, GithubRetried) : fetched.bytes = raw.held
      BY <1>3 DEF Accepted, GithubFetch
    <2> QED
      BY <2>1, ReceivedHolds
  <1> QED
    BY <1>2, <1>3

\* The lines the parsers are given are those of the pinned documents.
LEMMA FetchedIsPinned ==
  ASSUME NEW pins \in SUBSET MayList, NEW docs \in FetchAll(pins)
  PROVE  docs = pins
  <1>1. docs \subseteq MayList
    BY DEF FetchAll
  <1>2. ASSUME NEW job \in Jobs PROVE Part(docs, job) = Part(pins, job)
    <2>1. PICK f \in FetchedAt :
            f.job = job /\ f.pin = Part(pins, job) /\ Part(docs, job) \in f.bytes
      BY DEF FetchAll
    <2>2. PICK fetched \in Accepted(job, Part(pins, job)) : Part(docs, job) = fetched.bytes
      BY <2>1 DEF FetchedAt
    <2> QED
      BY <2>2, AcceptedIsPinned
  <1>3. \A l \in MayList : l.job \in Jobs
    BY JobsAssumption DEF Lines
  <1>4. ASSUME NEW l \in MayList PROVE l \in docs <=> l \in pins
    <2>1. l \in Part(docs, l.job) <=> l \in Part(pins, l.job)
      BY <1>2, <1>3
    <2> QED
      BY <2>1 DEF Part
  <1> QED
    BY <1>1, <1>4

-----------------------------------------------------------------------------
(* Merging *)

\* An entry stands for the lines of its name, and covers what is below it only as a
\* wildcard on a registrable domain.
LEMMA MergedEntry ==
  ASSUME NEW docs \in SUBSET MayList, NEW e \in Merge(docs)
  PROVE  /\ e \in ListEntries /\ e.name \in DomainNames /\ e.name \notin Denylist
         /\ e.sources = ProjectsNaming(docs, e.name)
         /\ \E l \in docs : l.name = e.name
         /\ e.scope = "Apex" =>
              e.name \in Registrable /\ \E l \in docs : l.name = e.name /\ l.hint = "wildcard"
  <1>1. PICK n \in {l.name : l \in docs} \ Denylist :
          e = [name |-> n,
               scope |-> IF \E l \in docs : l.name = n /\ ScopeOf(n, l.hint) = "Apex"
                         THEN "Apex" ELSE "ExactHost",
               sources |-> {SourceOf[l.job] : l \in {k \in docs : k.name = n}}]
    BY DEF Merge
  <1>2. /\ e.name = n /\ e.sources = {SourceOf[l.job] : l \in {k \in docs : k.name = n}}
        /\ e.scope = "Apex" => \E l \in docs : l.name = n /\ ScopeOf(n, l.hint) = "Apex"
        /\ e.scope \in {"Apex", "ExactHost"}
    BY <1>1
  <1>3. \A l \in docs : l.name \in DomainNames /\ l.job \in Jobs
    BY JobsAssumption DEF Lines
  <1>4. n \in DomainNames
    BY <1>3
  <1>5. \A l \in docs : SourceOf[l.job] \in Range(SourceOf)
    BY <1>3, JobsAssumption DEF Range
  <1>6. e.sources \subseteq Range(SourceOf)
    BY <1>2, <1>5
  <1>7. e \in ListEntries
    BY <1>1, <1>4, <1>6 DEF ListEntries
  <1>8. e.scope = "Apex" =>
          n \in Registrable /\ \E l \in docs : l.name = n /\ l.hint = "wildcard"
    BY <1>2 DEF ScopeOf
  <1> QED
    BY <1>1, <1>2, <1>4, <1>7, <1>8 DEF ProjectsNaming

\* There is one entry for each name that is listed and not denied.
LEMMA MergedNames ==
  ASSUME NEW docs
  PROVE  /\ \A l \in docs : l.name \notin Denylist => l.name \in NamesOf(Merge(docs))
         /\ \A e, f \in Merge(docs) : e.name = f.name => e = f
  <1> DEFINE entry(n) ==
               [name |-> n,
                scope |-> IF \E l \in docs : l.name = n /\ ScopeOf(n, l.hint) = "Apex"
                          THEN "Apex" ELSE "ExactHost",
                sources |-> {SourceOf[l.job] : l \in {k \in docs : k.name = n}}]
  <1>1. Merge(docs) = {entry(n) : n \in {l.name : l \in docs} \ Denylist}
    BY DEF Merge
  <1>2. \A n : entry(n).name = n
    OBVIOUS
  <1> HIDE DEF entry
  <1>3. ASSUME NEW l \in docs, l.name \notin Denylist PROVE l.name \in NamesOf(Merge(docs))
    <2>1. entry(l.name) \in Merge(docs)
      BY <1>1, <1>3
    <2> QED
      BY <1>2, <2>1 DEF NamesOf
  <1>4. ASSUME NEW e \in Merge(docs), NEW g \in Merge(docs), e.name = g.name PROVE e = g
    <2>1. e = entry(e.name) /\ g = entry(g.name)
      BY <1>1, <1>2
    <2> QED
      BY <1>4, <2>1
  <1> QED
    BY <1>3, <1>4

\* A list has as many entries as names.
LEMMA EntriesCount ==
  ASSUME NEW docs \in SUBSET MayList, NEW list \in SUBSET Merge(docs)
  PROVE  /\ IsFiniteSet(list) /\ IsFiniteSet(NamesOf(list))
         /\ Cardinality(list) = Cardinality(NamesOf(list)) /\ Cardinality(list) \in Nat
  <1> DEFINE f == [e \in list |-> e.name]
  <1>1. NamesOf(list) \in SUBSET DomainNames
    BY MergedEntry DEF NamesOf
  <1>2. IsFiniteSet(DomainNames)
    BY FS_Interval, NamesAssumption DEF DomainNames
  <1>3. IsFiniteSet(NamesOf(list))
    BY <1>1, <1>2, FS_Subset
  <1>4. f \in [list -> NamesOf(list)]
    BY DEF NamesOf
  <1>5. IsInjective(f)
    BY MergedNames DEF IsInjective
  <1>6. \A n \in NamesOf(list) : \E e \in list : f[e] = n
    BY DEF NamesOf
  <1> HIDE DEF f
  <1>7. f \in Injection(list, NamesOf(list)) /\ f \in Surjection(list, NamesOf(list))
    BY <1>4, <1>5, <1>6 DEF Injection, Surjection
  <1>8. IsFiniteSet(list) /\ Cardinality(list) = Cardinality(NamesOf(list))
    BY <1>3, <1>7, FS_Injection
  <1> QED
    BY <1>3, <1>8, FS_CardinalityType

-----------------------------------------------------------------------------
(* What the two gates say together *)

LEMMA DifferenceCount ==
  ASSUME NEW P, NEW E, IsFiniteSet(P), IsFiniteSet(E)
  PROVE  /\ Cardinality(P \ E) \in Nat /\ Cardinality(P \cap E) \in Nat
         /\ Cardinality(P) = Cardinality(P \ E) + Cardinality(P \cap E)
  <1>1. IsFiniteSet(P \ E) /\ IsFiniteSet(P \cap E)
    BY FS_Subset
  <1>2. Cardinality(P \ E) \in Nat /\ Cardinality(P \cap E) \in Nat
    BY <1>1, FS_CardinalityType
  <1> DEFINE A == P \ E  B == P \cap E
  <1>3. A \cap B = {} /\ A \cup B = P
    OBVIOUS
  <1>4. Cardinality(A \cup B) = Cardinality(A) + Cardinality(B) - Cardinality(A \cap B)
    BY <1>1, FS_Union
  <1>5. Cardinality(A) \in Nat /\ Cardinality(B) \in Nat
    BY <1>2
  <1> HIDE DEF A, B
  <1>6. Cardinality(A \cup B) = Cardinality(P) /\ Cardinality(A \cap B) = 0
    BY <1>3, FS_EmptySet
  <1>7. Cardinality(P) = Cardinality(A) + Cardinality(B)
    BY <1>4, <1>5, <1>6
  <1> QED
    BY <1>5, <1>7 DEF A, B

\* A list that is not much shorter and brings not much new has lost not much.
LEMMA GatesBoundLoss ==
  ASSUME NEW P, NEW E, IsFiniteSet(P), IsFiniteSet(E), NEW drop \in Nat, NEW grow \in Nat,
         100 * (Cardinality(P) - Cardinality(E)) <= drop * Cardinality(P),
         P # {} => 100 * Cardinality(E \ P) <= grow * Cardinality(P)
  PROVE  100 * Cardinality(P \ E) <= (drop + grow) * Cardinality(P)
  <1> DEFINE p == Cardinality(P)  e == Cardinality(E)
             lost == Cardinality(P \ E)  new == Cardinality(E \ P)  both == Cardinality(P \cap E)
  <1>1. p \in Nat /\ e \in Nat
    BY FS_CardinalityType
  <1>2. lost \in Nat /\ both \in Nat /\ p = lost + both
    BY DifferenceCount
  <1>3. new \in Nat /\ e = new + both
    <2>1. E \cap P = P \cap E
      OBVIOUS
    <2>2. /\ Cardinality(E \ P) \in Nat
          /\ Cardinality(E) = Cardinality(E \ P) + Cardinality(E \cap P)
      BY DifferenceCount
    <2> QED
      BY <2>1, <2>2
  <1>4. 100 * (p - e) <= drop * p /\ (P # {} => 100 * new <= grow * p)
    OBVIOUS
  <1>5. CASE P = {}
    <2>1. p = 0
      BY <1>5, FS_EmptySet
    <2>2. lost = 0
      BY <1>2, <2>1
    <2> HIDE DEF p, e, lost, new, both
    <2>3. (drop + grow) * p = 0
      BY <2>1
    <2> QED
      BY <2>2, <2>3 DEF lost, p
  <1>6. CASE P # {}
    <2> HIDE DEF p, e, lost, new, both
    <2>1. (drop + grow) * p = drop * p + grow * p
      BY <1>1
    <2>2. drop * p \in Nat /\ grow * p \in Nat
      BY <1>1
    <2>3. 100 * lost <= drop * p + grow * p
      <3> DEFINE d == drop * p  g == grow * p
      <3>1. d \in Nat /\ g \in Nat /\ 100 * (p - e) <= d /\ 100 * new <= g
        BY <1>4, <1>6, <2>2
      <3> HIDE DEF d, g
      <3>2. 100 * lost <= d + g
        BY <1>1, <1>2, <1>3, <3>1
      <3> QED
        BY <3>2 DEF d, g
    <2> QED
      BY <2>1, <2>3 DEF lost, p
  <1> QED
    BY <1>5, <1>6

-----------------------------------------------------------------------------
(* Steps *)

\* What is said of completed builds holds as long as none is completed.
LEMMA ListsStay ==
  ASSUME BuildInv, lists' = lists
  PROVE  Whole' /\ Reviews' /\ Compared' /\ LossIsBounded'
  BY DEF BuildInv, Whole, Reviews, Compared, LossIsBounded

LEMMA BuildInvInit ==
  ASSUME BuildInit
  PROVE  BuildInv
  <1>1. DOMAIN lists = {} /\ Len(lists) = 0 /\ lists \in Seq(BuildRecords)
    BY DEF BuildInit
  <1>2. BuildTypeOK
    BY <1>1, RunsAssumption DEF BuildInit, StoreInit, BuildTypeOK
  <1>3. InTheMaking /\ Gated
    BY DEF BuildInit, InTheMaking, Gated
  <1>4. Whole /\ Reviews /\ Compared /\ LossIsBounded
    BY <1>1 DEF Whole, Reviews, Compared, LossIsBounded
  <1> QED
    BY <1>2, <1>3, <1>4 DEF BuildInv

LEMMA MadeIsTyped ==
  ASSUME NEW docs \in SUBSET MayList, NEW list, NEW gone, NEW cut, Made(list, docs, gone, cut)
  PROVE  list \subseteq ListEntries /\ NamesOf(list) \subseteq DomainNames
  BY MergedEntry DEF Made, NamesOf

LEMMA FetchKeeps ==
  ASSUME BuildInv, FetchAndMerge
  PROVE  BuildInv'
  <1>1. PICK n \in Samples, docs \in FetchAll(pinned) :
          sample' = n /\ entries' = Truncated(Merge(docs), n)
    BY DEF FetchAndMerge
  <1>2. docs = pinned /\ pinned \in SUBSET MayList /\ pinned' = pinned
    BY FetchedIsPinned DEF BuildInv, BuildTypeOK, FetchAndMerge
  <1>3. Made(entries', pinned', sweptOut', sample') /\ sweptOut' = {}
    BY <1>1, <1>2 DEF FetchAndMerge, Made, Truncated
  <1>4. entries' \subseteq ListEntries
    BY <1>2, <1>3, MadeIsTyped
  <1>5. BuildTypeOK'
    BY <1>1, <1>2, <1>3, <1>4 DEF BuildInv, BuildTypeOK, FetchAndMerge, storeVars
  <1>6. InTheMaking' /\ Gated'
    BY <1>3 DEF FetchAndMerge, InTheMaking, Gated
  <1>7. lists' = lists
    BY DEF FetchAndMerge
  <1> QED
    BY <1>5, <1>6, <1>7, ListsStay DEF BuildInv

LEMMA LivenessKeeps ==
  ASSUME BuildInv, Liveness
  PROVE  BuildInv'
  <1>1. PICK gone \in SUBSET entries : entries' = entries \ gone /\ sweptOut' = NamesOf(gone)
    <2>1. \E gone \in {{}, {e \in entries : e.name \in dead}} :
            entries' = entries \ gone /\ sweptOut' = NamesOf(gone)
      BY DEF Liveness
    <2> QED
      BY <2>1
  <1>2. Made(entries, pinned, {}, sample) /\ pinned \in SUBSET MayList
    BY DEF BuildInv, BuildTypeOK, Liveness, InTheMaking
  <1>3. Made(entries', pinned, sweptOut', sample)
    <2>1. entries' \subseteq Merge(pinned)
      BY <1>1, <1>2 DEF Made
    <2>2. NamesOf(entries) \subseteq NamesOf(entries') \cup sweptOut'
      BY <1>1 DEF NamesOf
    <2> QED
      BY <1>2, <2>1, <2>2 DEF Made
  <1>4. entries' \subseteq ListEntries /\ sweptOut' \subseteq DomainNames
    <2>1. gone \subseteq ListEntries
      BY <1>1 DEF BuildInv, BuildTypeOK
    <2>2. NamesOf(gone) \subseteq DomainNames
      BY <2>1 DEF NamesOf, ListEntries
    <2> QED
      BY <1>1, <1>2, <1>3, <2>2, MadeIsTyped
  <1>5. BuildTypeOK'
    BY <1>4 DEF BuildInv, BuildTypeOK, Liveness, storeVars
  <1>6. InTheMaking' /\ Gated'
    BY <1>3 DEF Liveness, InTheMaking, Gated
  <1>7. lists' = lists
    BY DEF Liveness
  <1> QED
    BY <1>5, <1>6, <1>7, ListsStay DEF BuildInv

\* A run that ends leaves nothing in memory.
LEMMA EndsTyped ==
  ASSUME Ends
  PROVE  /\ stage' = "idle" /\ sample' \in Samples \cup {0} /\ entries' \subseteq ListEntries
         /\ sweptOut' \subseteq DomainNames /\ base' = None
         /\ InTheMaking' /\ Gated'
  BY DEF Ends, InTheMaking, Gated

LEMMA LoadKeeps ==
  ASSUME BuildInv, LoadBase
  PROVE  BuildInv'
  <1>1. lists' = lists
    BY DEF LoadBase
  <1>2. CASE slot = "damaged"
    <2>1. Ends
      BY <1>2 DEF LoadBase
    <2>2. BuildTypeOK'
      BY <2>1, EndsTyped DEF BuildInv, BuildTypeOK, LoadBase, storeVars
    <2> QED
      BY <1>1, <2>1, <2>2, EndsTyped, ListsStay DEF BuildInv
  <1>3. CASE slot # "damaged"
    <2>1. base' \in DOMAIN lists \cup {None}
      BY <1>3 DEF LoadBase, BuildInv, BuildTypeOK
    <2>2. BuildTypeOK'
      BY <1>3, <2>1 DEF BuildInv, BuildTypeOK, LoadBase, storeVars
    <2>3. InTheMaking' /\ Gated'
      BY <1>3 DEF BuildInv, LoadBase, InTheMaking, Gated
    <2> QED
      BY <1>1, <2>2, <2>3, ListsStay DEF BuildInv
  <1> QED
    BY <1>2, <1>3

LEMMA BeginKeeps ==
  ASSUME BuildInv, BeginPublish
  PROVE  BuildInv'
  <1>1. /\ lists' = lists /\ entries' = entries /\ base' = base /\ stage' = "publish"
        /\ Shrinkage /\ Growth /\ FalsePositives
    BY DEF BeginPublish, GatesPass, runVars
  <1>2. Shrinkage' /\ Growth' /\ FalsePositives'
    BY <1>1 DEF Shrinkage, Growth, FalsePositives, PreviousNames, ReviewQueue
  <1>3. BuildTypeOK'
    BY DEF BuildInv, BuildTypeOK, BeginPublish, storeVars, runVars
  <1>4. InTheMaking' /\ Gated'
    BY <1>2 DEF BuildInv, BeginPublish, runVars, InTheMaking, Gated
  <1> QED
    BY <1>1, <1>3, <1>4, ListsStay DEF BuildInv

LEMMA DeclineKeeps ==
  ASSUME BuildInv, DeclineBuild
  PROVE  BuildInv'
  <1>1. lists' = lists /\ Ends
    BY DEF DeclineBuild
  <1>2. BuildTypeOK'
    BY <1>1, EndsTyped DEF BuildInv, BuildTypeOK, DeclineBuild, storeVars
  <1> QED
    BY <1>1, <1>2, EndsTyped, ListsStay DEF BuildInv

LEMMA DieKeeps ==
  ASSUME BuildInv, Die
  PROVE  BuildInv'
  <1>1. lists' = lists /\ Ends
    BY DEF Die
  <1>2. slot' \in {"whole", "empty", "damaged"} /\ (slot' = "whole" => slot = "whole")
    BY DEF Die
  <1>3. failed' \in 0..MaxFailed
    BY RunsAssumption DEF Die, Abandon, BuildInv, BuildTypeOK
  <1>4. BuildTypeOK'
    BY <1>1, <1>2, <1>3, EndsTyped DEF BuildInv, BuildTypeOK, Die, Abandon
  <1> QED
    BY <1>1, <1>4, EndsTyped, ListsStay DEF BuildInv

LEMMA RotateKeeps ==
  ASSUME BuildInv, RotateSlots
  PROVE  BuildInv'
  <1>1. lists' = lists /\ entries' = entries /\ base' = base /\ stage' = stage
    BY DEF RotateSlots, runVars
  <1>2. Gated'
    BY <1>1 DEF BuildInv, Gated, Shrinkage, Growth, FalsePositives, PreviousNames, ReviewQueue
  <1>3. InTheMaking'
    BY DEF BuildInv, InTheMaking, RotateSlots, runVars
  <1>4. BuildTypeOK'
    BY DEF BuildInv, BuildTypeOK, RotateSlots, Rotate, runVars
  <1> QED
    BY <1>1, <1>2, <1>3, <1>4, ListsStay DEF BuildInv

LEMMA WorldKeeps ==
  ASSUME BuildInv, MovePin \/ NamesDie
  PROVE  BuildInv'
  <1>1. lists' = lists /\ stage = "idle" /\ stage' = "idle"
    BY DEF MovePin, NamesDie
  <1>2. pinned' \subseteq MayList /\ dead' \subseteq Mortal
    BY DEF BuildInv, BuildTypeOK, MovePin, NamesDie, SymDiff
  <1>3. BuildTypeOK'
    BY <1>1, <1>2 DEF BuildInv, BuildTypeOK, MovePin, NamesDie, storeVars, runVars
  <1>4. InTheMaking' /\ Gated'
    BY <1>1 DEF InTheMaking, Gated
  <1> QED
    BY <1>1, <1>3, <1>4, ListsStay DEF BuildInv

\* The build that is completed is the one the gates have passed.
LEMMA FinishKeeps ==
  ASSUME BuildInv, FinishPublish
  PROVE  BuildInv'
  <1> DEFINE build == [entries |-> entries, docs |-> pinned, sweptOut |-> sweptOut,
                       sample |-> sample, base |-> base]
  <1>1. /\ lists' = Append(lists, build) /\ Complete /\ Ends /\ slot' = "whole"
        /\ UNCHANGED <<pinned, dead>> /\ stage = "publish"
    BY DEF FinishPublish
  <1>2. /\ lists \in Seq(BuildRecords) /\ newest = Len(lists) /\ newest \in Nat
        /\ DOMAIN lists = 1..newest
    BY DEF BuildInv, BuildTypeOK
  <1>3. /\ entries \subseteq ListEntries /\ pinned \subseteq MayList /\ sweptOut \subseteq DomainNames
        /\ sample \in Samples \cup {0} /\ base \in DOMAIN lists \cup {None}
    BY DEF BuildInv, BuildTypeOK
  <1>4. build \in BuildRecords
    BY <1>2, <1>3 DEF BuildRecords
  <1>5. build.entries = entries /\ build.docs = pinned /\ build.sweptOut = sweptOut
        /\ build.sample = sample /\ build.base = base
    OBVIOUS
  <1> HIDE DEF build
  <1>6. /\ lists' \in Seq(BuildRecords) /\ Len(lists') = newest + 1
        /\ DOMAIN lists' = 1..(newest + 1) /\ lists'[newest + 1] = build
        /\ \A n \in 1..newest : lists'[n] = lists[n]
    BY <1>1, <1>2, <1>4, AppendProperties
  <1>7. BuildTypeOK'
    <2>1. /\ newest' = Len(lists') /\ kept' \subseteq DOMAIN lists'
          /\ served' \in kept' \cup {None} /\ failed' \in 0..MaxFailed
      BY <1>1, <1>2, <1>6 DEF Complete, BuildInv, BuildTypeOK
    <2>2. newest' > 0
      BY <1>1, <1>2 DEF Complete
    <2> QED
      BY <1>1, <1>6, <2>1, <2>2, EndsTyped DEF BuildInv, BuildTypeOK
  <1>8. Whole'
    <2>1. Made(entries, pinned, sweptOut, sample)
      BY <1>1 DEF BuildInv, InTheMaking
    <2>2. ASSUME NEW n \in 1..(newest + 1)
          PROVE  Made(lists'[n].entries, lists'[n].docs, lists'[n].sweptOut, lists'[n].sample)
      <3>1. CASE n \in 1..newest
        BY <1>2, <1>6, <3>1 DEF BuildInv, Whole
      <3>2. CASE n = newest + 1
        BY <1>5, <1>6, <2>1, <3>2
      <3> QED
        BY <1>2, <3>1, <3>2
    <2> QED
      BY <1>6, <2>2 DEF Whole
  <1>9. Reviews'
    <2>1. WithinRate(entries)
      BY <1>1 DEF BuildInv, Gated, FalsePositives, WithinRate, Unreviewed, ReviewQueue
    <2>2. ASSUME NEW n \in 1..(newest + 1) PROVE WithinRate(lists'[n].entries)
      <3>1. CASE n \in 1..newest
        BY <1>2, <1>6, <3>1 DEF BuildInv, Reviews
      <3>2. CASE n = newest + 1
        BY <1>5, <1>6, <2>1, <3>2
      <3> QED
        BY <1>2, <3>1, <3>2
    <2> QED
      BY <1>6, <2>2 DEF Reviews, WithinRate, Unreviewed
  <1>10. Compared'
    <2>1. ASSUME NEW n \in 1..(newest + 1) PROVE lists'[n].base \in (1..(n - 1)) \cup {None}
      <3>1. CASE n \in 1..newest
        BY <1>2, <1>6, <3>1 DEF BuildInv, Compared
      <3>2. CASE n = newest + 1
        BY <1>2, <1>3, <1>5, <1>6, <3>2
      <3> QED
        BY <1>2, <3>1, <3>2
    <2> QED
      BY <1>6, <2>1 DEF Compared
  <1>11. LossIsBounded'
    <2> DEFINE Bounded(old, list) ==
                 100 * Cardinality(NamesOf(old) \ NamesOf(list))
                   <= (MaxDropPct + MaxGrowPct) * Cardinality(NamesOf(old))
    <2>1. ASSUME NEW n \in 1..newest, lists'[n].base # None
          PROVE  Bounded(lists'[lists'[n].base].entries, lists'[n].entries)
      <3>1. lists'[n] = lists[n] /\ lists[n].base \in 1..(n - 1)
        BY <1>2, <1>6, <2>1 DEF BuildInv, Compared
      <3>2. lists[n].base \in 1..newest
        BY <1>2, <3>1
      <3>3. lists'[lists'[n].base] = lists[lists[n].base]
        BY <1>6, <3>1, <3>2
      <3>4. Bounded(lists[lists[n].base].entries, lists[n].entries)
        BY <1>2, <2>1, <3>1 DEF BuildInv, LossIsBounded
      <3> QED
        BY <3>1, <3>3, <3>4
    <2>2. ASSUME base # None
          PROVE  Bounded(lists'[base].entries, entries)
      <3>1. base \in 1..newest /\ lists'[base] = lists[base]
        BY <1>2, <1>3, <1>6, <2>2
      <3>2. lists[base].docs \in SUBSET MayList
        <4>1. lists[base] \in BuildRecords
          BY <1>2, <3>1
        <4> QED
          BY <4>1 DEF BuildRecords
      <3>3. lists[base].entries \in SUBSET Merge(lists[base].docs)
        BY <1>2, <3>1 DEF BuildInv, Whole, Made
      <3>4. entries \in SUBSET Merge(pinned)
        BY <1>1 DEF BuildInv, InTheMaking, Made
      <3>5. IsFiniteSet(PreviousNames)
        BY <3>2, <3>3, EntriesCount DEF PreviousNames
      <3>6. IsFiniteSet(NamesOf(entries)) /\ Cardinality(entries) = Cardinality(NamesOf(entries))
        BY <1>3, <3>4, EntriesCount
      <3>7. Shrinkage /\ Growth
        BY <1>1 DEF BuildInv, Gated
      <3>8. 100 * (Cardinality(PreviousNames) - Cardinality(NamesOf(entries)))
              <= MaxDropPct * Cardinality(PreviousNames)
        BY <2>2, <3>6, <3>7 DEF Shrinkage
      <3>9. PreviousNames # {} => 100 * Cardinality(NamesOf(entries) \ PreviousNames)
                                    <= MaxGrowPct * Cardinality(PreviousNames)
        BY <2>2, <3>7 DEF Growth
      <3>10. MaxDropPct \in Nat /\ MaxGrowPct \in Nat
        BY LimitsAssumption
      <3>11. 100 * Cardinality(PreviousNames \ NamesOf(entries))
               <= (MaxDropPct + MaxGrowPct) * Cardinality(PreviousNames)
        BY <3>5, <3>6, <3>8, <3>9, <3>10, GatesBoundLoss
      <3> QED
        BY <3>1, <3>11 DEF PreviousNames
    <2>3. ASSUME NEW n \in 1..(newest + 1), lists'[n].base # None
          PROVE  Bounded(lists'[lists'[n].base].entries, lists'[n].entries)
      <3>1. CASE n \in 1..newest
        BY <2>1, <2>3, <3>1
      <3>2. CASE n = newest + 1
        BY <1>5, <1>6, <2>2, <2>3, <3>2
      <3> QED
        BY <1>2, <3>1, <3>2
    <2> QED
      BY <1>6, <2>3 DEF LossIsBounded, NamesOf
  <1> QED
    BY <1>1, <1>7, <1>8, <1>9, <1>10, <1>11, EndsTyped DEF BuildInv

LEMMA BuildInvNext ==
  ASSUME BuildInv, [BuildNext]_buildVars
  PROVE  BuildInv'
  <1>1. CASE FetchAndMerge
    BY <1>1, FetchKeeps
  <1>2. CASE Liveness
    BY <1>2, LivenessKeeps
  <1>3. CASE LoadBase
    BY <1>3, LoadKeeps
  <1>4. CASE BeginPublish
    BY <1>4, BeginKeeps
  <1>5. CASE DeclineBuild
    BY <1>5, DeclineKeeps
  <1>6. CASE RotateSlots
    BY <1>6, RotateKeeps
  <1>7. CASE FinishPublish
    BY <1>7, FinishKeeps
  <1>8. CASE Die
    BY <1>8, DieKeeps
  <1>9. CASE MovePin \/ NamesDie
    BY <1>9, WorldKeeps
  <1>10. CASE UNCHANGED buildVars
    <2>1. lists' = lists
      BY <1>10 DEF buildVars
    <2>2. BuildTypeOK' /\ InTheMaking'
      BY <1>10 DEF BuildInv, BuildTypeOK, InTheMaking, buildVars, storeVars, runVars
    <2>3. Gated'
      BY <1>10 DEF BuildInv, Gated, Shrinkage, Growth, FalsePositives, PreviousNames,
         ReviewQueue, buildVars, runVars
    <2> QED
      BY <2>1, <2>2, <2>3, ListsStay DEF BuildInv
  <1> QED
    BY <1>1, <1>2, <1>3, <1>4, <1>5, <1>6, <1>7, <1>8, <1>9, <1>10 DEF BuildNext, Pipeline

\* The invariant of the pipeline holds in every reachable state, for any names, documents,
\* limits and numbers of builds.
THEOREM BuildInvAlways == BuildSpec => []BuildInv
  BY BuildInvInit, BuildInvNext, PTL DEF BuildSpec

-----------------------------------------------------------------------------
(* Theorems about the pipeline *)

\* Every variable of the pipeline keeps its type.
THEOREM BuildTypeCorrect == BuildSpec => []BuildTypeOK
  <1>1. BuildInv => BuildTypeOK
    BY DEF BuildInv
  <1> QED
    BY <1>1, BuildInvAlways, PTL

\* What a cold start loads was made from its documents and passed the gates.
LEMMA ServedIsWhole ==
  ASSUME BuildInv, served # None
  PROVE  /\ served \in DOMAIN lists /\ Served.docs \in SUBSET MayList
         /\ Made(Served.entries, Served.docs, Served.sweptOut, Served.sample)
         /\ WithinRate(Served.entries)
  <1>1. served \in DOMAIN lists /\ lists \in Seq(BuildRecords)
    BY DEF BuildInv, BuildTypeOK
  <1>2. lists[served] \in BuildRecords
    BY <1>1
  <1>3. Served.docs \in SUBSET MayList
    BY <1>2 DEF BuildRecords, Served
  <1> QED
    BY <1>1, <1>3 DEF BuildInv, Whole, Reviews, Served

\* The popular sites a device blocks on the word of one project, and that nobody reviewed,
\* stay within the rate: the gate counts names, and no wildcard reaches a registrable
\* domain from another.
THEOREM ControlAlwaysSafe == BuildSpec => []ControlIsSafe
  <1>1. ASSUME BuildInv, served # None
        PROVE  100 * Cardinality({c \in ControlSet \ Exclusions :
                        /\ Blocks(Served.entries, c)
                        /\ Cardinality(ProjectsNaming(Served.docs, c)) < 2})
                 <= MaxFpPct * Cardinality(ControlSet)
    <2> DEFINE hit == {c \in ControlSet \ Exclusions :
                         /\ Blocks(Served.entries, c)
                         /\ Cardinality(ProjectsNaming(Served.docs, c)) < 2}
               counted == Unreviewed(Served.entries)
    <2>1. /\ Served.docs \in SUBSET MayList /\ Served.entries \in SUBSET Merge(Served.docs)
          /\ WithinRate(Served.entries)
      BY <1>1, ServedIsWhole DEF Made
    <2>2. ASSUME NEW c \in hit PROVE c \in NamesOf(counted)
      <3>1. c \in Registrable /\ c \in DomainNames
        BY ControlAssumption
      <3>2. PICK e \in Served.entries :
              e.name = c \/ (e.scope = "Apex" /\ c \in Under[e.name])
        BY DEF Blocks
      <3>3. /\ e.scope = "Apex" => e.name \in Registrable
            /\ e.sources = ProjectsNaming(Served.docs, e.name)
        BY <2>1, <3>2, MergedEntry
      <3>4. e.name = c
        BY <3>1, <3>2, <3>3, UnderAssumption
      <3>5. e \in counted
        BY <3>2, <3>3, <3>4 DEF Unreviewed
      <3> QED
        BY <3>4, <3>5 DEF NamesOf
    <2>3. counted \in SUBSET Merge(Served.docs)
      BY <2>1 DEF Unreviewed
    <2>4. /\ IsFiniteSet(NamesOf(counted)) /\ Cardinality(counted) = Cardinality(NamesOf(counted))
          /\ Cardinality(counted) \in Nat
      BY <2>1, <2>3, EntriesCount
    <2> DEFINE h == Cardinality(hit)  r == MaxFpPct * Cardinality(ControlSet)
               k == Cardinality(counted)
    <2>5. h \in Nat /\ h <= k
      <3> HIDE DEF hit, counted
      <3>1. hit \in SUBSET NamesOf(counted)
        BY <2>2
      <3>2. IsFiniteSet(hit) /\ Cardinality(hit) <= Cardinality(NamesOf(counted))
        BY <2>4, <3>1, FS_Subset
      <3> QED
        BY <2>4, <3>2, FS_CardinalityType
    <2>6. r \in Nat
      <3>1. IsFiniteSet(ControlSet)
        <4>1. IsFiniteSet(DomainNames)
          BY FS_Interval, NamesAssumption DEF DomainNames
        <4> QED
          BY <4>1, ControlAssumption, FS_Subset
      <3>2. Cardinality(ControlSet) \in Nat
        BY <3>1, FS_CardinalityType
      <3> QED
        BY <3>2, LimitsAssumption
    <2>7. k \in Nat /\ 100 * k <= r
      BY <2>1, <2>4 DEF WithinRate
    <2> HIDE DEF h, r, k, hit, counted
    <2>8. 100 * h <= r
      BY <2>5, <2>6, <2>7
    <2> QED
      BY <2>8 DEF h, r, hit
  <1>2. BuildInv => ControlIsSafe
    BY <1>1 DEF ControlIsSafe
  <1> QED
    BY <1>2, BuildInvAlways, PTL

\* A published list blocks all its sources list but what was denied, pruned or cut off, and
\* nothing else but what their wildcards cover.
THEOREM SourcesAlwaysHonoured == BuildSpec => []SourcesAreHonoured
  <1>1. ASSUME BuildInv, served # None, NEW q \in DomainNames
        PROVE  /\ Blocks(Served.entries, q) =>
                    \/ \E l \in Served.docs : l.name = q
                    \/ \E l \in Served.docs :
                         l.hint = "wildcard" /\ l.name \in Registrable /\ q \in Under[l.name]
               /\ ((\E l \in Served.docs : l.name = q)
                     /\ q \notin Denylist \cup Served.sweptOut /\ Served.sample = 0) =>
                    Blocks(Served.entries, q)
    <2>1. /\ Served.docs \in SUBSET MayList
          /\ Made(Served.entries, Served.docs, Served.sweptOut, Served.sample)
      BY <1>1, ServedIsWhole
    <2>2. ASSUME Blocks(Served.entries, q)
          PROVE  \/ \E l \in Served.docs : l.name = q
                 \/ \E l \in Served.docs :
                      l.hint = "wildcard" /\ l.name \in Registrable /\ q \in Under[l.name]
      <3>1. PICK e \in Served.entries : e.name = q \/ (e.scope = "Apex" /\ q \in Under[e.name])
        BY <2>2 DEF Blocks
      <3>2. e \in Merge(Served.docs)
        BY <2>1 DEF Made
      <3> QED
        BY <2>1, <3>1, <3>2, MergedEntry
    <2>3. ASSUME NEW l \in Served.docs, l.name = q,
                 q \notin Denylist \cup Served.sweptOut, Served.sample = 0
          PROVE  Blocks(Served.entries, q)
      <3>1. q \in NamesOf(Merge(Served.docs))
        BY <2>3, MergedNames
      <3>2. q \in NamesOf(Served.entries)
        BY <2>1, <2>3, <3>1 DEF Made
      <3> QED
        BY <3>2 DEF NamesOf, Blocks
    <2> QED
      BY <2>2, <2>3
  <1>2. BuildInv => SourcesAreHonoured
    BY <1>1 DEF SourcesAreHonoured
  <1> QED
    BY <1>2, BuildInvAlways, PTL

\* From a build to the next that was compared with it, a list loses no more than both gates allow.
THEOREM LossAlwaysBounded == BuildSpec => []LossIsBounded
  <1>1. BuildInv => LossIsBounded
    BY DEF BuildInv
  <1> QED
    BY <1>1, BuildInvAlways, PTL

=============================================================================
