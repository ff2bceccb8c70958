----------------------------- MODULE DnsShield_proofs -----------------------------
(***************************************************************************)
(* Theorems about DnsShield and the look-up worker it runs on, Lookup, for    *)
(* any packets, rules, keywords and artifact, any number of threads and       *)
(* domains, any queue and any cache: every entry of the in-flight table has   *)
(* exactly one request behind it, answers are true and the two halves of the  *)
(* cache agree; every step of the shield is one of Lookup or leaves it alone, *)
(* so that this holds of the shield; and every verdict is the one the policy  *)
(* gives.                                                                   *)
(***************************************************************************)
EXTENDS DnsShield, FiniteSetTheorems, SequenceTheorems, WellFoundedInduction, TLAPS

USE ListedAssumption, SizeAssumption, FragileAssumption, NothingAssumption

True(d) == {Ruling(d), "Panicked"}

\* Who waits for what. A caller still sending is attached to its own entry only,
\* and one that is being answered waits for the domain the worker has in hand.
Attached ==
  /\ \A c \in Callers : pc[c] # "idle" => want[c] \in Domains
  /\ \A d \in Domains : \A c \in waiters[d] : want[c] = d /\ pc[c] \in {"send", "undo", "wait"}
  /\ at # "recv" => task \in Domains
  /\ \A c \in due : at = "answer" /\ want[c] = task /\ pc[c] = "wait"
  /\ \A c \in due : \A d \in Domains : c \notin waiters[d]
  /\ \A c \in Callers : reply[c] # Nothing =>
       pc[c] = "wait" /\ c \notin due /\ \A d \in Domains : c \notin waiters[d]

\* Every decision on its way to a caller belongs to the domain it travels under.
Truthful ==
  /\ at # "recv" => decision \in True(task)
  /\ \A d \in Domains : map[d] # Nothing => map[d] \in True(d)
  /\ \A c \in Callers : reply[c] # Nothing => reply[c] \in True(want[c])
  /\ AnswersTrue

IInv == TypeOK /\ Attached /\ OneRequest /\ Truthful

-----------------------------------------------------------------------------
(* The cache *)

Distinct(s) == \A i, j \in 1..Len(s) : s[i] = s[j] => i = j

\* Touching a key keeps the length of the order and, if no key is there twice, its keys.
LEMMA TouchedFacts ==
  ASSUME NEW s \in Seq(Domains), NEW k
  PROVE  /\ Touched(s, k) \in Seq(Domains)
         /\ Len(Touched(s, k)) = Len(s)
         /\ Distinct(s) => Ordered(Touched(s, k)) = Ordered(s) /\ Distinct(Touched(s, k))
<1>1. CASE k \notin Ordered(s)
  BY <1>1 DEF Touched
<1>2. CASE k \in Ordered(s)
  <2> DEFINE n == Len(s)
             p == CHOOSE i \in 1..n : s[i] = k
             t == [i \in 1..n |-> IF i = n THEN k ELSE IF i < p THEN s[i] ELSE s[i + 1]]
  <2>1. n \in Nat /\ p \in 1..n /\ s[p] = k
    BY <1>2 DEF Ordered
  <2>2. Touched(s, k) = t
    BY <1>2 DEF Touched
  <2>3. \A i \in 1..n : s[i] \in Domains
    OBVIOUS
  <2> HIDE DEF n, p
  <2>4. \A i \in 1..n : t[i] \in Domains
    BY <2>1, <2>3
  <2>5. t \in Seq(Domains) /\ Len(t) = n
    BY <2>1, <2>4
  <2>6. ASSUME Distinct(s) PROVE Ordered(t) = Ordered(s) /\ Distinct(t)
    <3>0. \A i, j \in 1..n : s[i] = s[j] => i = j
      BY <2>6 DEF Distinct, n
    <3>1. \A i \in 1..n : \E j \in 1..n : t[i] = s[j]
      <4> TAKE i \in 1..n
      <4>1. CASE i = n
        BY <4>1, <2>1
      <4>2. CASE i # n /\ i < p
        BY <4>2, <2>1
      <4>3. CASE i # n /\ ~(i < p)
        <5>1. i + 1 \in 1..n
          BY <4>3, <2>1
        <5> QED
          BY <5>1, <4>3
      <4> QED
        BY <4>1, <4>2, <4>3
    <3>2. \A j \in 1..n : \E i \in 1..n : t[i] = s[j]
      <4> TAKE j \in 1..n
      <4>1. CASE j < p
        BY <4>1, <2>1
      <4>2. CASE j = p
        <5>1. n \in 1..n /\ t[n] = k
          BY <2>1
        <5> QED
          BY <5>1, <4>2, <2>1
      <4>3. CASE j > p
        <5>1. j - 1 \in 1..n /\ j - 1 # n /\ ~(j - 1 < p) /\ (j - 1) + 1 = j
          BY <4>3, <2>1
        <5> QED
          BY <5>1
      <4> QED
        BY <4>1, <4>2, <4>3, <2>1
    <3>3. ASSUME NEW i \in 1..n, NEW j \in 1..n, t[i] = t[j] PROVE i = j
      <4> DEFINE from(x) == IF x = n THEN p ELSE IF x < p THEN x ELSE x + 1
      <4>1. \A x \in 1..n : from(x) \in 1..n /\ t[x] = s[from(x)]
        BY <2>1
      <4>2. from(i) = from(j)
        BY <4>1, <3>0, <3>3
      <4> QED
        BY <4>2, <2>1
    <3>4. Ordered(t) = {t[i] : i \in 1..n} /\ Ordered(s) = {s[i] : i \in 1..n}
      BY <2>5 DEF Ordered, n
    <3>5. Ordered(t) = Ordered(s)
      <4> HIDE DEF t
      <4> QED BY <3>1, <3>2, <3>4
    <3>6. Distinct(t)
      <4> HIDE DEF t
      <4> QED BY <3>3, <2>5 DEF Distinct
    <3> QED
      BY <3>5, <3>6
  <2> QED
    BY <2>2, <2>5, <2>6 DEF n
<1> QED
  BY <1>1, <1>2

\* What a cache step leaves of the decisions: get none the less, put one more and
\* maybe one fewer.
LEMMA GetFacts ==
  ASSUME TypeOK, NEW k \in Domains, Get(k)
  PROVE  map' = map /\ order' \in Seq(Domains)
BY TouchedFacts DEF TypeOK, Get

LEMMA PutFacts ==
  ASSUME TypeOK, NEW k \in Domains, NEW v \in Decisions, Put(k, v)
  PROVE  /\ map' \in [Domains -> Decisions \cup {Nothing}]
         /\ order' \in Seq(Domains)
         /\ map'[k] = v
         /\ \A d \in Domains : d # k => map'[d] \in {map[d], Nothing}
<1> DEFINE full == k \notin Cached /\ Cardinality(Cached) = CacheSize /\ order # <<>>
           kept == IF full THEN Tail(order) ELSE order
           left == IF full THEN [map EXCEPT ![Head(order)] = Nothing] ELSE map
           longer == IF k \in Cached THEN kept ELSE Append(kept, k)
<1>1. map' = [left EXCEPT ![k] = v] /\ order' = Touched(longer, k)
  BY DEF Put
<1>2. kept \in Seq(Domains)
  BY DEF TypeOK
<1>3. longer \in Seq(Domains)
  BY <1>2
<1>4. left \in [Domains -> Decisions \cup {Nothing}] /\ \A d \in Domains : left[d] \in {map[d], Nothing}
  BY DEF TypeOK
<1>5. order' \in Seq(Domains)
  BY <1>1, <1>3, TouchedFacts
<1> QED
  BY <1>1, <1>4, <1>5

\* What a return leaves of the caller.
LEMMA ReturnFacts ==
  ASSUME TypeOK, NEW c \in Callers, NEW d \in Domains, NEW by \in Decisions \cup {Nothing},
         NEW counted \in BOOLEAN, Return(c, d, by, counted)
  PROVE  /\ pc' \in [Callers -> Places]
         /\ want' \in [Callers -> Domains \cup {Nothing}]
         /\ reply' \in [Callers -> Decisions \cup {Nothing}]
         /\ result' \in Results \cup {Nothing}
         /\ pc'[c] = "idle" /\ reply'[c] = Nothing
         /\ \A b \in Callers \ {c} : pc'[b] = pc[b] /\ want'[b] = want[b] /\ reply'[b] = reply[b]
         /\ result' = [domain |-> d, by |-> by, counted |-> counted]
<1>1. pc' \in [Callers -> Places] /\ pc'[c] = "idle" /\ \A b \in Callers \ {c} : pc'[b] = pc[b]
  BY DEF Return, TypeOK, Places
<1>2. want' \in [Callers -> Domains \cup {Nothing}] /\ \A b \in Callers \ {c} : want'[b] = want[b]
  BY DEF Return, TypeOK
<1>3. /\ reply' \in [Callers -> Decisions \cup {Nothing}] /\ reply'[c] = Nothing
      /\ \A b \in Callers \ {c} : reply'[b] = reply[b]
  BY DEF Return, TypeOK
<1>4. result' \in Results /\ result' = [domain |-> d, by |-> by, counted |-> counted]
  BY DEF Return, Results
<1> QED
  BY <1>1, <1>2, <1>3, <1>4

-----------------------------------------------------------------------------
(* The inductive invariant *)

LEMMA InitInv == Init => IInv
<1> SUFFICES ASSUME Init PROVE IInv
  OBVIOUS
<1>1. TypeOK
  BY DEF Init, TypeOK, Places, Decisions
<1>2. Attached
  BY DEF Init, Attached
<1>3. OneRequest
  BY DEF Init, OneRequest, Queued, Asking, Holding
<1>4. Truthful
  BY DEF Init, Truthful, AnswersTrue
<1> QED
  BY <1>1, <1>2, <1>3, <1>4 DEF IInv

\* A waiting caller knows its domain, and so does the worker.
LEMMA InHand ==
  ASSUME IInv
  PROVE  /\ \A c \in Callers : pc[c] # "idle" => want[c] \in Domains
         /\ at # "recv" => task \in Domains /\ decision \in Decisions
         /\ \A d : Ruling(d) \in Decisions
<1>1. \A d : Ruling(d) \in Decisions /\ "Panicked" \in Decisions
  BY DEF Ruling, Decisions
<1> QED
  BY <1>1 DEF IInv, Attached, Truthful, True

LEMMA TypeNext == IInv /\ [Next]_vars => TypeOK'
<1> SUFFICES ASSUME IInv, [Next]_vars PROVE TypeOK'
  OBVIOUS
<1> USE InHand
<1>0. TypeOK
  BY DEF IInv
<1>1. ASSUME NEW c \in Callers, NEW d \in Domains, Call(c, d) PROVE TypeOK'
  <2>1. map' = map /\ order' \in Seq(Domains)
    BY <1>0, <1>1, GetFacts DEF Call
  <2>2. CASE d \in Cached
    <3>1. map[d] \in Decisions \cup {Nothing} /\ Return(c, d, map[d], FALSE)
      BY <1>0, <1>1, <2>2 DEF TypeOK, Call
    <3>2. /\ pc' \in [Callers -> Places] /\ want' \in [Callers -> Domains \cup {Nothing}]
          /\ reply' \in [Callers -> Decisions \cup {Nothing}] /\ result' \in Results \cup {Nothing}
      BY <1>0, <3>1, ReturnFacts
    <3> QED
      BY <1>0, <1>1, <2>1, <3>2 DEF TypeOK, Call, tableVars, workerVars
  <2>3. CASE d \notin Cached
    BY <1>0, <1>1, <2>1, <2>3 DEF TypeOK, Call, tableVars, workerVars, Quiet, Places
  <2> QED
    BY <2>2, <2>3
<1>2. ASSUME NEW c \in Callers, Attach(c), Quiet PROVE TypeOK'
  BY <1>0, <1>2 DEF TypeOK, Attach, Quiet, workerVars, cacheVars, Places
<1>3. ASSUME NEW c \in Callers, Send(c), Quiet PROVE TypeOK'
  <2>1. want[c] \in Domains
    BY <1>3 DEF Send
  <2>2. queue \in Seq(Domains) /\ Len(queue) \in Nat /\ Len(queue) <= Capacity
    BY <1>0 DEF TypeOK
  <2>3. \/ Len(queue) < Capacity /\ queue' = Append(queue, want[c])
        \/ queue' = queue
    BY <1>3 DEF Send
  <2>4. queue' \in Seq(Domains) /\ Len(queue') <= Capacity
    BY <2>1, <2>2, <2>3
  <2> QED
    BY <1>0, <1>3, <2>4 DEF TypeOK, Send, Quiet, tableVars, workerVars, cacheVars, Places
<1>4. ASSUME NEW c \in Callers, Undo(c) PROVE TypeOK'
  <2>1. want[c] \in Domains
    BY <1>4 DEF Undo
  <2>2. /\ pc' \in [Callers -> Places] /\ want' \in [Callers -> Domains \cup {Nothing}]
        /\ reply' \in [Callers -> Decisions \cup {Nothing}] /\ result' \in Results \cup {Nothing}
    BY <1>0, <1>4, <2>1, ReturnFacts DEF Undo
  <2> QED
    BY <1>0, <1>4, <2>2 DEF TypeOK, Undo, workerVars, cacheVars
<1>5. ASSUME NEW c \in Callers, TakeReply(c) PROVE TypeOK'
  <2>1. want[c] \in Domains /\ reply[c] \in Decisions \cup {Nothing}
    BY <1>0, <1>5 DEF TakeReply, TypeOK
  <2>2. /\ pc' \in [Callers -> Places] /\ want' \in [Callers -> Domains \cup {Nothing}]
        /\ reply' \in [Callers -> Decisions \cup {Nothing}] /\ result' \in Results \cup {Nothing}
    BY <1>0, <1>5, <2>1, ReturnFacts DEF TakeReply
  <2> QED
    BY <1>0, <1>5, <2>2 DEF TypeOK, TakeReply, tableVars, workerVars, cacheVars
<1>6. ASSUME NEW c \in Callers, Expire(c), Quiet PROVE TypeOK'
  BY <1>0, <1>6 DEF TypeOK, Expire, Quiet, cacheVars, Places
<1>7. ASSUME NEW c \in Callers, FallBack(c) PROVE TypeOK'
  <2>1. want[c] \in Domains /\ map[want[c]] \in Decisions \cup {Nothing}
    BY <1>0, <1>7 DEF FallBack, TypeOK
  <2>2. /\ pc' \in [Callers -> Places] /\ want' \in [Callers -> Domains \cup {Nothing}]
        /\ reply' \in [Callers -> Decisions \cup {Nothing}] /\ result' \in Results \cup {Nothing}
    BY <1>0, <1>7, <2>1, ReturnFacts DEF FallBack
  <2>3. map' = map /\ order' \in Seq(Domains)
    BY <1>0, <1>7, <2>1, GetFacts DEF FallBack
  <2> QED
    BY <1>0, <1>7, <2>2, <2>3 DEF TypeOK, FallBack, tableVars, workerVars
<1>8. ASSUME Receive, Quiet PROVE TypeOK'
  <2>1. Head(queue) \in Domains /\ queue' \in Seq(Domains) /\ Len(queue') <= Capacity
    BY <1>0, <1>8 DEF TypeOK, Receive
  <2>2. decision' \in Decisions
    BY <1>8 DEF Receive, Decisions, Ruling
  <2> QED
    BY <1>0, <1>8, <2>1, <2>2 DEF TypeOK, Receive, Quiet, callerVars, tableVars, cacheVars
<1>9. ASSUME Store, Quiet PROVE TypeOK'
  <2>1. map' \in [Domains -> Decisions \cup {Nothing}] /\ order' \in Seq(Domains)
    BY <1>0, <1>9, PutFacts DEF Store
  <2> QED
    BY <1>0, <1>9, <2>1 DEF TypeOK, Store, Quiet, callerVars, tableVars
<1>10. ASSUME Drain, Quiet PROVE TypeOK'
  BY <1>0, <1>10 DEF TypeOK, Drain, Quiet, callerVars, cacheVars
<1>11. ASSUME NEW c \in Callers, Answer(c), Quiet PROVE TypeOK'
  BY <1>0, <1>11 DEF TypeOK, Answer, Quiet, tableVars, cacheVars
<1>12. ASSUME NextRequest, Quiet PROVE TypeOK'
  BY <1>0, <1>12 DEF TypeOK, NextRequest, Quiet, callerVars, tableVars, cacheVars
<1>13. ASSUME UNCHANGED vars PROVE TypeOK'
  BY <1>0, <1>13 DEF TypeOK, vars, callerVars, tableVars, workerVars, cacheVars
<1> QED
  BY <1>1, <1>2, <1>3, <1>4, <1>5, <1>6, <1>7, <1>8, <1>9, <1>10, <1>11, <1>12, <1>13
     DEF Next, CallerStep, WorkerStep

\* Where a step leaves everybody.
LEMMA AttachedNext == IInv /\ [Next]_vars => Attached'
<1> SUFFICES ASSUME IInv, [Next]_vars PROVE Attached'
  OBVIOUS
<1>0. TypeOK /\ Attached /\ OneRequest
  BY DEF IInv
<1> USE InHand
<1>1. ASSUME NEW c \in Callers, NEW d \in Domains, Call(c, d) PROVE Attached'
  <2>1. CASE d \in Cached
    BY <1>0, <1>1, <2>1 DEF TypeOK, Attached, Call, Return, tableVars, workerVars
  <2>2. CASE d \notin Cached
    BY <1>0, <1>1, <2>2 DEF TypeOK, Attached, Call, tableVars, workerVars
  <2> QED
    BY <2>1, <2>2
<1>2. ASSUME NEW c \in Callers, Attach(c) PROVE Attached'
  BY <1>0, <1>2 DEF TypeOK, Attached, Attach, workerVars
<1>3. ASSUME NEW c \in Callers, Send(c) PROVE Attached'
  BY <1>0, <1>3 DEF TypeOK, Attached, Send, tableVars, workerVars
<1>4. ASSUME NEW c \in Callers, Undo(c) PROVE Attached'
  BY <1>0, <1>4 DEF TypeOK, Attached, Undo, Return, workerVars
<1>5. ASSUME NEW c \in Callers, TakeReply(c) PROVE Attached'
  BY <1>0, <1>5 DEF TypeOK, Attached, TakeReply, Return, tableVars, workerVars
<1>6. ASSUME NEW c \in Callers, Expire(c) PROVE Attached'
  BY <1>0, <1>6 DEF TypeOK, Attached, Expire
<1>7. ASSUME NEW c \in Callers, FallBack(c) PROVE Attached'
  BY <1>0, <1>7 DEF TypeOK, Attached, FallBack, Return, tableVars, workerVars
<1>8. ASSUME Receive PROVE Attached'
  <2>1. Head(queue) \in Domains
    BY <1>0, <1>8 DEF TypeOK, Receive
  <2> QED
    BY <1>0, <1>8, <2>1 DEF Attached, Receive, callerVars, tableVars
<1>9. ASSUME Store PROVE Attached'
  BY <1>0, <1>9 DEF Attached, Store, callerVars, tableVars
<1>10. ASSUME Drain PROVE Attached'
  <2>1. \A c \in waiters[task] : pc[c] = "wait"
    BY <1>0, <1>10 DEF TypeOK, Attached, Drain, OneRequest, Asking, Holding
  <2> QED
    BY <1>0, <1>10, <2>1 DEF TypeOK, Attached, Drain, callerVars
<1>11. ASSUME NEW c \in Callers, Answer(c) PROVE Attached'
  BY <1>0, <1>11 DEF TypeOK, Attached, Answer, tableVars
<1>12. ASSUME NextRequest PROVE Attached'
  BY <1>0, <1>12 DEF Attached, NextRequest, callerVars, tableVars
<1>13. ASSUME UNCHANGED vars PROVE Attached'
  BY <1>0, <1>13 DEF Attached, vars, callerVars, tableVars, workerVars
<1> QED
  BY <1>1, <1>2, <1>3, <1>4, <1>5, <1>6, <1>7, <1>8, <1>9, <1>10, <1>11, <1>12, <1>13
     DEF Next, CallerStep, WorkerStep

\* What an append and a tail do to the places of a domain on the queue.
LEMMA AppendQueued ==
  ASSUME queue \in Seq(Domains), NEW d \in Domains, queue' = Append(queue, d)
  PROVE  \A e \in Domains : Queued(e)' = IF e = d THEN Queued(e) \cup {Len(queue) + 1} ELSE Queued(e)
BY DEF Queued

LEMMA TailQueued ==
  ASSUME queue \in Seq(Domains), queue # <<>>, queue' = Tail(queue)
  PROVE  \A e \in Domains : \A i : i \in Queued(e)' <=> i \in Nat \ {0} /\ i + 1 \in Queued(e)
<1>1. Len(queue) \in Nat \ {0} /\ Len(queue') = Len(queue) - 1
  OBVIOUS
<1>2. \A i \in 1..Len(queue') : queue'[i] = queue[i + 1]
  OBVIOUS
<1> SUFFICES ASSUME NEW e \in Domains, NEW i
             PROVE  i \in Queued(e)' <=> i \in Nat \ {0} /\ i + 1 \in Queued(e)
  OBVIOUS
<1>3. i \in Queued(e)' <=> i \in 1..Len(queue') /\ queue'[i] = e
  BY DEF Queued
<1>4. i + 1 \in Queued(e) <=> i + 1 \in 1..Len(queue) /\ queue[i + 1] = e
  BY DEF Queued
<1> QED
  BY <1>1, <1>2, <1>3, <1>4

LEMMA OneRequestNext == IInv /\ [Next]_vars => OneRequest'
<1> SUFFICES ASSUME IInv, [Next]_vars PROVE OneRequest'
  OBVIOUS
<1>0. TypeOK /\ Attached /\ OneRequest
  BY DEF IInv
<1> USE InHand
<1>a. ASSUME UNCHANGED queue PROVE \A d \in Domains : Queued(d)' = Queued(d)
  BY <1>a DEF Queued
<1>b. ASSUME UNCHANGED <<pc, want>> PROVE \A d \in Domains : Asking(d)' = Asking(d)
  BY <1>b DEF Asking
<1>c. ASSUME UNCHANGED <<at, task>> PROVE \A d \in Domains : Holding(d)' = Holding(d)
  BY <1>c DEF Holding
\* A step that leaves the requests alone.
<1>d. ASSUME UNCHANGED inflight, \A d \in Domains : Queued(d)' = Queued(d),
             \A d \in Domains : Asking(d)' = Asking(d), \A d \in Domains : Holding(d)' = Holding(d)
      PROVE  OneRequest'
  BY <1>0, <1>d DEF OneRequest
\* A caller that returns, and was neither sending nor undoing.
<1>e. ASSUME NEW c \in Callers, NEW d, NEW by, NEW counted, Return(c, d, by, counted),
             pc[c] \notin {"send", "undo"}
      PROVE  \A e \in Domains : Asking(e)' = Asking(e)
  BY <1>0, <1>e DEF TypeOK, Return, Asking
<1>1. ASSUME NEW c \in Callers, NEW d \in Domains, Call(c, d) PROVE OneRequest'
  <2>1. \A e \in Domains : Asking(e)' = Asking(e)
    <3>1. CASE d \in Cached
      BY <1>1, <1>e, <3>1 DEF Call
    <3>2. CASE d \notin Cached
      BY <1>0, <1>1, <3>2 DEF TypeOK, Call, Asking
    <3> QED
      BY <3>1, <3>2
  <2> QED
    BY <1>1, <1>a, <1>c, <1>d, <2>1 DEF Call, tableVars, workerVars
<1>2. ASSUME NEW c \in Callers, Attach(c) PROVE OneRequest'
  <2>1. want[c] \in Domains /\ (\A d \in Domains : Queued(d)' = Queued(d) /\ Holding(d)' = Holding(d))
    BY <1>2, <1>a, <1>c DEF Attach, workerVars
  <2>2. CASE want[c] \in inflight
    <3>1. inflight' = inflight /\ \A d \in Domains : Asking(d)' = Asking(d)
      BY <1>0, <1>2, <2>2 DEF TypeOK, Attach, Asking
    <3> QED
      BY <1>d, <2>1, <3>1
  <2>3. CASE want[c] \notin inflight
    <3>1. inflight' = inflight \cup {want[c]}
      BY <1>2 DEF Attach
    <3>2. \A d \in Domains : Asking(d)' = IF d = want[c] THEN Asking(d) \cup {c} ELSE Asking(d)
      BY <1>0, <1>2, <2>3 DEF TypeOK, Attach, Asking
    <3>3. Queued(want[c]) = {} /\ Asking(want[c]) = {} /\ ~Holding(want[c])
      BY <1>0, <2>1, <2>3 DEF OneRequest
    <3> QED
      BY <1>0, <2>1, <3>1, <3>2, <3>3 DEF OneRequest
  <2> QED
    BY <2>2, <2>3
<1>3. ASSUME NEW c \in Callers, Send(c) PROVE OneRequest'
  <2>1. want[c] \in Domains /\ c \in Asking(want[c]) /\ inflight' = inflight
        /\ (\A d \in Domains : Holding(d)' = Holding(d))
    BY <1>3, <1>c DEF Send, Asking, tableVars, workerVars
  <2>2. CASE Len(queue) < Capacity
    <3>1. \A d \in Domains : Asking(d)' = IF d = want[c] THEN Asking(d) \ {c} ELSE Asking(d)
      BY <1>0, <1>3, <2>2 DEF TypeOK, Send, Asking
    <3>2. \A d \in Domains :
            Queued(d)' = IF d = want[c] THEN Queued(d) \cup {Len(queue) + 1} ELSE Queued(d)
      BY <1>0, <1>3, <2>1, <2>2, AppendQueued DEF TypeOK, Send
    <3>3. Queued(want[c]) = {} /\ Asking(want[c]) \ {c} = {} /\ ~Holding(want[c])
      BY <1>0, <2>1 DEF OneRequest
    <3> QED
      BY <1>0, <2>1, <3>1, <3>2, <3>3 DEF OneRequest
  <2>3. CASE ~(Len(queue) < Capacity)
    <3>1. \A d \in Domains : Asking(d)' = Asking(d)
      BY <1>0, <1>3, <2>3 DEF TypeOK, Send, Asking
    <3> QED
      BY <1>3, <1>a, <1>d, <2>1, <2>3, <3>1 DEF Send
  <2> QED
    BY <2>2, <2>3
<1>4. ASSUME NEW c \in Callers, Undo(c) PROVE OneRequest'
  <2>1. want[c] \in Domains /\ c \in Asking(want[c]) /\ inflight' = inflight \ {want[c]}
        /\ (\A d \in Domains : Queued(d)' = Queued(d) /\ Holding(d)' = Holding(d))
    BY <1>4, <1>a, <1>c DEF Undo, Asking, workerVars
  <2>2. \A d \in Domains : Asking(d)' = IF d = want[c] THEN Asking(d) \ {c} ELSE Asking(d)
    BY <1>0, <1>4 DEF TypeOK, Undo, Return, Asking
  <2>3. Queued(want[c]) = {} /\ Asking(want[c]) \ {c} = {} /\ ~Holding(want[c])
    BY <1>0, <2>1 DEF OneRequest
  <2> QED
    BY <1>0, <2>1, <2>2, <2>3 DEF OneRequest
<1>5. ASSUME NEW c \in Callers, TakeReply(c) PROVE OneRequest'
  BY <1>5, <1>a, <1>c, <1>d, <1>e DEF TakeReply, tableVars, workerVars
<1>6. ASSUME NEW c \in Callers, Expire(c) PROVE OneRequest'
  <2>1. \A d \in Domains : Asking(d)' = Asking(d)
    BY <1>0, <1>6 DEF TypeOK, Expire, Asking
  <2> QED
    BY <1>6, <1>a, <1>c, <1>d, <2>1 DEF Expire
<1>7. ASSUME NEW c \in Callers, FallBack(c) PROVE OneRequest'
  BY <1>7, <1>a, <1>c, <1>d, <1>e DEF FallBack, tableVars, workerVars
<1>8. ASSUME Receive PROVE OneRequest'
  <2>0. queue \in Seq(Domains) /\ queue # <<>> /\ Head(queue) \in Domains
    BY <1>0, <1>8 DEF TypeOK, Receive
  <2> PICK h \in Domains : h = Head(queue)
    BY <2>0
  <2>1. queue \in Seq(Domains) /\ queue # <<>> /\ h = queue[1] /\ 1 \in Queued(h)
    BY <2>0 DEF Queued
  <2>2. inflight' = inflight /\ \A d \in Domains : Asking(d)' = Asking(d)
    BY <1>8, <1>b DEF Receive, callerVars, tableVars
  <2>3. \A d \in Domains : ~Holding(d) /\ (Holding(d)' <=> d = h)
    BY <1>8 DEF Receive, Holding
  <2>4. \A d \in Domains : \A i : i \in Queued(d)' <=> i \in Nat \ {0} /\ i + 1 \in Queued(d)
    BY <1>8, <2>1, TailQueued DEF Receive
  <2>5. Queued(h)' = {}
    <3> SUFFICES ASSUME NEW i \in Queued(h)' PROVE FALSE
      OBVIOUS
    <3>1. i \in Nat \ {0} /\ i + 1 \in Queued(h)
      BY <2>1, <2>4
    <3>2. i + 1 = 1
      BY <1>0, <2>1, <3>1 DEF OneRequest
    <3> QED
      BY <3>1, <3>2
  <2>6. \A d \in Domains : d # h => (Queued(d)' # {} <=> Queued(d) # {})
    <3> TAKE d \in Domains
    <3> HAVE d # h
    <3>1. ASSUME NEW j \in Queued(d) PROVE Queued(d)' # {}
      <4>1. j \in Nat /\ j # 1 /\ j # 0
        BY <2>1 DEF Queued
      <4>2. j - 1 \in Nat \ {0} /\ (j - 1) + 1 = j
        BY <4>1
      <4> QED
        BY <2>4, <4>2
    <3> QED
      BY <2>4, <3>1
  <2>7. \A d \in Domains : \A i, j \in Queued(d)' : i = j
    <3> SUFFICES ASSUME NEW d \in Domains, NEW i \in Queued(d)', NEW j \in Queued(d)' PROVE i = j
      OBVIOUS
    <3>1. i \in Nat /\ j \in Nat /\ i + 1 \in Queued(d) /\ j + 1 \in Queued(d)
      BY <2>4
    <3>2. i + 1 = j + 1
      BY <1>0, <3>1 DEF OneRequest
    <3> QED
      BY <3>1, <3>2
  <2>8. h \in inflight /\ Asking(h) = {}
    BY <1>0, <2>1 DEF OneRequest
  <2> QED
    BY <1>0, <2>2, <2>3, <2>5, <2>6, <2>7, <2>8 DEF OneRequest
<1>9. ASSUME Store PROVE OneRequest'
  <2>1. \A d \in Domains : Holding(d)' = Holding(d)
    BY <1>9 DEF Store, Holding
  <2> QED
    BY <1>9, <1>a, <1>b, <1>d, <2>1 DEF Store, callerVars, tableVars
<1>10. ASSUME Drain PROVE OneRequest'
  <2>1. task \in Domains /\ Holding(task) /\ inflight' = inflight \ {task}
        /\ (\A d \in Domains : Queued(d)' = Queued(d) /\ Asking(d)' = Asking(d))
    BY <1>10, <1>a, <1>b DEF Drain, Holding, callerVars
  <2>2. \A d \in Domains : Holding(d)' = FALSE /\ (Holding(d) <=> d = task)
    BY <1>10 DEF Drain, Holding
  <2>3. Queued(task) = {} /\ Asking(task) = {}
    BY <1>0, <2>1 DEF OneRequest
  <2> QED
    BY <1>0, <2>1, <2>2, <2>3 DEF OneRequest
<1>11. ASSUME NEW c \in Callers, Answer(c) PROVE OneRequest'
  BY <1>11, <1>a, <1>b, <1>c, <1>d DEF Answer, tableVars
<1>12. ASSUME NextRequest PROVE OneRequest'
  <2>1. \A d \in Domains : Holding(d)' = Holding(d)
    BY <1>12 DEF NextRequest, Holding
  <2> QED
    BY <1>12, <1>a, <1>b, <1>d, <2>1 DEF NextRequest, callerVars, tableVars
<1>13. ASSUME UNCHANGED vars PROVE OneRequest'
  BY <1>13, <1>a, <1>b, <1>c, <1>d DEF vars, callerVars, tableVars, workerVars
<1> QED
  BY <1>1, <1>2, <1>3, <1>4, <1>5, <1>6, <1>7, <1>8, <1>9, <1>10, <1>11, <1>12, <1>13
     DEF Next, CallerStep, WorkerStep

LEMMA TruthfulNext == IInv /\ [Next]_vars => Truthful'
<1> SUFFICES ASSUME IInv, [Next]_vars PROVE Truthful'
  OBVIOUS
<1>0. TypeOK /\ Attached /\ Truthful
  BY DEF IInv
<1> USE InHand
<1>a. ASSUME Quiet PROVE AnswersTrue'
  BY <1>a DEF Quiet, AnswersTrue
\* A return by a true decision.
<1>b. ASSUME NEW c \in Callers, NEW d \in Domains, NEW by \in True(d), Return(c, d, by, FALSE),
             UNCHANGED <<at, task, decision, map>>
      PROVE  Truthful'
  <2>1. result'.domain = d /\ result'.by = by
    BY <1>b DEF Return
  <2>2. AnswersTrue'
    BY <2>1 DEF AnswersTrue, True, Ruling
  <2>3. \A b \in Callers : reply'[b] # Nothing => reply'[b] = reply[b] /\ want'[b] = want[b]
    BY <1>0, <1>b DEF TypeOK, Return
  <2> QED
    BY <1>0, <1>b, <2>2, <2>3 DEF Truthful, True, Ruling
\* A return that is counted, by a true decision or by default.
<1>c. ASSUME NEW c \in Callers, NEW d \in Domains, NEW by \in True(d) \cup {Nothing},
             Return(c, d, by, TRUE), UNCHANGED <<at, task, decision, map>>
      PROVE  Truthful'
  <2>1. result'.domain = d /\ result'.by = by /\ result'.counted
    BY <1>c DEF Return
  <2>2. AnswersTrue'
    BY <2>1 DEF AnswersTrue, True, Ruling
  <2>3. \A b \in Callers : reply'[b] # Nothing => reply'[b] = reply[b] /\ want'[b] = want[b]
    BY <1>0, <1>c DEF TypeOK, Return
  <2> QED
    BY <1>0, <1>c, <2>2, <2>3 DEF Truthful, True, Ruling
<1>1. ASSUME NEW c \in Callers, NEW d \in Domains, Call(c, d) PROVE Truthful'
  <2>1. map' = map
    BY <1>1 DEF Call, Get
  <2>2. CASE d \in Cached
    <3>1. map[d] \in Decisions /\ map[d] \in True(d)
      BY <1>0, <2>2 DEF TypeOK, Truthful, Cached
    <3>2. Return(c, d, map[d], FALSE) /\ UNCHANGED <<at, task, decision, map>>
      BY <1>1, <2>1, <2>2 DEF Call, workerVars
    <3> QED
      BY <1>b, <3>1, <3>2
  <2>3. CASE d \notin Cached
    <3>1. \A b \in Callers : reply'[b] # Nothing => reply'[b] = reply[b] /\ want'[b] = want[b]
      BY <1>0, <1>1, <2>3 DEF TypeOK, Attached, Call
    <3>2. AnswersTrue'
      BY <1>1, <1>a, <2>3 DEF Call
    <3> QED
      BY <1>0, <1>1, <2>1, <3>1, <3>2 DEF Truthful, True, Ruling, Call, workerVars
  <2> QED
    BY <2>2, <2>3
\* A caller's own step in which none returns.
<1>2. ASSUME Quiet, UNCHANGED <<want, reply, at, task, decision, map>> PROVE Truthful'
  BY <1>0, <1>2, <1>a DEF Truthful, True, Ruling
<1>3. ASSUME NEW c \in Callers, Attach(c) \/ Send(c) \/ Expire(c), Quiet PROVE Truthful'
  BY <1>2, <1>3 DEF Attach, Send, Expire, workerVars, cacheVars
<1>4. ASSUME NEW c \in Callers, Undo(c) PROVE Truthful'
  BY <1>4, <1>c DEF Undo, workerVars, cacheVars
<1>5. ASSUME NEW c \in Callers, TakeReply(c) PROVE Truthful'
  <2>1. want[c] \in Domains /\ reply[c] \in Decisions /\ reply[c] \in True(want[c])
    BY <1>0, <1>5 DEF TypeOK, Truthful, TakeReply
  <2>2. Return(c, want[c], reply[c], FALSE) /\ UNCHANGED <<at, task, decision, map>>
    BY <1>5 DEF TakeReply, workerVars, cacheVars
  <2> QED
    BY <1>b, <2>1, <2>2
<1>6. ASSUME NEW c \in Callers, FallBack(c) PROVE Truthful'
  <2>1. /\ want[c] \in Domains /\ map[want[c]] \in Decisions \cup {Nothing}
        /\ map[want[c]] # Nothing => map[want[c]] \in True(want[c])
    BY <1>0, <1>6 DEF TypeOK, Truthful, FallBack
  <2> QED
    BY <1>6, <1>c, <2>1 DEF FallBack, Get, workerVars
<1>7. ASSUME Receive, Quiet PROVE Truthful'
  <2>1. decision' \in True(task')
    BY <1>7 DEF Receive, True, Ruling
  <2> QED
    BY <1>0, <1>7, <1>a, <2>1 DEF Truthful, True, Ruling, Receive, callerVars, cacheVars
<1>8. ASSUME Store, Quiet PROVE Truthful'
  <2>1. task \in Domains /\ decision \in Decisions /\ decision \in True(task)
    BY <1>0, <1>8 DEF Truthful, Store
  <2>2. \A d \in Domains : map'[d] # Nothing => map'[d] \in True(d)
    BY <1>0, <1>8, <2>1, PutFacts DEF Truthful, Store
  <2> QED
    BY <1>0, <1>8, <1>a, <2>1, <2>2 DEF Truthful, True, Ruling, Store, callerVars
<1>9. ASSUME Drain, Quiet PROVE Truthful'
  BY <1>0, <1>9, <1>a DEF Truthful, True, Ruling, Drain, callerVars, cacheVars
<1>10. ASSUME NEW c \in Callers, Answer(c), Quiet PROVE Truthful'
  <2>1. \A b \in Callers : reply'[b] # Nothing => reply'[b] \in True(want[b])
    BY <1>0, <1>10 DEF TypeOK, Attached, Truthful, Answer
  <2> QED
    BY <1>0, <1>10, <1>a, <2>1 DEF Truthful, True, Ruling, Answer, cacheVars
<1>11. ASSUME NextRequest, Quiet PROVE Truthful'
  BY <1>0, <1>11, <1>a DEF Truthful, True, Ruling, NextRequest, callerVars, cacheVars
<1>12. ASSUME UNCHANGED vars PROVE Truthful'
  BY <1>0, <1>12 DEF Truthful, True, Ruling, AnswersTrue, vars, callerVars, workerVars, cacheVars
<1> QED
  BY <1>1, <1>3, <1>4, <1>5, <1>6, <1>7, <1>8, <1>9, <1>10, <1>11, <1>12
     DEF Next, CallerStep, WorkerStep

LEMMA Inductive == Spec => []IInv
<1>1. IInv /\ [Next]_vars => IInv'
  BY TypeNext, AttachedNext, OneRequestNext, TruthfulNext DEF IInv
<1> QED
  BY InitInv, <1>1, PTL DEF Spec

\* Types, and the bound of the queue: no more requests wait for the worker than the
\* channel holds (sync_channel, try_send).
THEOREM TypeCorrect == Spec => []TypeOK
<1>1. IInv => TypeOK
  BY DEF IInv
<1> QED
  BY <1>1, Inductive, PTL

\* However callers, time-outs and the worker interleave, an entry of the in-flight
\* table has exactly one request behind it (lookup, handle_lookup).
THEOREM EntriesHaveOneRequest == Spec => []OneRequest
<1>1. IInv => OneRequest
  BY DEF IInv
<1> QED
  BY <1>1, Inductive, PTL

\* Whatever is evicted, late or timed out, a lookup returns the ruling on its own
\* domain, a caught panic of that domain, or a default it has counted (lookup).
THEOREM AnswersAlwaysTrue == Spec => []AnswersTrue
<1>1. IInv => AnswersTrue
  BY DEF IInv, Truthful
<1> QED
  BY <1>1, Inductive, PTL

-----------------------------------------------------------------------------
(* The two halves of the cache *)

LEMMA KeysCounted ==
  ASSUME NEW s \in Seq(Domains), Distinct(s)
  PROVE  Cardinality(Ordered(s)) = Len(s)
<1>1. IsFiniteSet(1..Len(s)) /\ Cardinality(1..Len(s)) = Len(s)
  BY FS_Interval
<1> DEFINE f == [i \in 1..Len(s) |-> s[i]]
<1>2. f \in Bijection(1..Len(s), Ordered(s))
  BY DEF Bijection, Injection, Surjection, IsInjective, Ordered, Distinct
<1>3. ExistsBijection(1..Len(s), Ordered(s))
  BY <1>2 DEF ExistsBijection
<1> QED
  BY <1>1, <1>3, FS_Bijection

LEMMA TailKeys ==
  ASSUME NEW s \in Seq(Domains), Distinct(s), s # <<>>
  PROVE  /\ Ordered(Tail(s)) = Ordered(s) \ {Head(s)}
         /\ Distinct(Tail(s)) /\ Len(Tail(s)) = Len(s) - 1 /\ Len(s) > 0
<1>1. Len(Tail(s)) = Len(s) - 1 /\ Len(s) \in Nat \ {0} /\ Head(s) = s[1]
  OBVIOUS
<1>2. \A i \in 1..Len(Tail(s)) : Tail(s)[i] = s[i + 1]
  OBVIOUS
<1>3. \A i \in 1..Len(s) : i # 1 => i - 1 \in 1..Len(Tail(s)) /\ Tail(s)[i - 1] = s[i]
  BY <1>1, <1>2
<1> DEFINE t == Tail(s)
<1> HIDE DEF t
<1>4. Distinct(t)
  BY <1>1, <1>2 DEF Distinct, t
<1>5. Ordered(t) \subseteq Ordered(s) \ {Head(s)}
  BY <1>1, <1>2 DEF Distinct, Ordered, t
<1>6. Ordered(s) \ {Head(s)} \subseteq Ordered(t)
  BY <1>1, <1>3 DEF Ordered, t
<1> QED
  BY <1>1, <1>4, <1>5, <1>6 DEF t

LEMMA AppendKeys ==
  ASSUME NEW s \in Seq(Domains), Distinct(s), NEW k \in Domains, k \notin Ordered(s)
  PROVE  /\ Ordered(Append(s, k)) = Ordered(s) \cup {k}
         /\ Distinct(Append(s, k)) /\ Len(Append(s, k)) = Len(s) + 1
BY DEF Distinct, Ordered

\* Putting a decision keeps the halves together and the size within bounds.
LEMMA PutAgrees ==
  ASSUME TypeOK, CacheAgrees, NEW k \in Domains, NEW v \in Decisions, Put(k, v)
  PROVE  CacheAgrees'
<1> DEFINE full == k \notin Cached /\ Cardinality(Cached) = CacheSize /\ order # <<>>
           kept == IF full THEN Tail(order) ELSE order
           left == IF full THEN [map EXCEPT ![Head(order)] = Nothing] ELSE map
           longer == IF k \in Cached THEN kept ELSE Append(kept, k)
<1>1. map' = [left EXCEPT ![k] = v] /\ order' = Touched(longer, k)
  BY DEF Put
<1>2. order \in Seq(Domains) /\ Ordered(order) = Cached /\ Distinct(order) /\ Len(order) <= CacheSize
  BY DEF TypeOK, CacheAgrees, Distinct
<1>3. v # Nothing
  BY NothingAssumption
<1>4. /\ longer \in Seq(Domains) /\ Distinct(longer) /\ Len(longer) <= CacheSize
      /\ Ordered(longer) = {d \in Domains : map'[d] # Nothing}
  <2>1. CASE k \in Cached
    <3>1. longer = order /\ left = map
      BY <2>1
    <3>2. {d \in Domains : map'[d] # Nothing} = Cached
      BY <1>1, <1>3, <2>1, <3>1 DEF TypeOK, Cached
    <3> QED
      BY <1>2, <3>1, <3>2
  <2>2. CASE k \notin Cached /\ full
    <3>1. longer = Append(Tail(order), k) /\ left = [map EXCEPT ![Head(order)] = Nothing]
      BY <2>2
    <3> HIDE DEF kept, left, longer
    <3>2. /\ Ordered(Tail(order)) = Cached \ {Head(order)} /\ Distinct(Tail(order))
          /\ Len(Tail(order)) + 1 <= CacheSize /\ Tail(order) \in Seq(Domains)
      BY <1>2, <2>2, TailKeys
    <3>3. /\ Ordered(longer) = (Cached \ {Head(order)}) \cup {k}
          /\ Distinct(longer) /\ Len(longer) <= CacheSize /\ longer \in Seq(Domains)
      <4>1. k \notin Ordered(Tail(order))
        BY <2>2, <3>2
      <4>2. /\ Ordered(longer) = Ordered(Tail(order)) \cup {k}
            /\ Distinct(longer) /\ Len(longer) = Len(Tail(order)) + 1
        BY <3>1, <3>2, <4>1, AppendKeys
      <4>3. longer \in Seq(Domains)
        BY <3>1, <3>2
      <4> QED
        BY <3>2, <4>2, <4>3
    <3>4. {d \in Domains : map'[d] # Nothing} = (Cached \ {Head(order)}) \cup {k}
      BY <1>1, <1>3, <3>1 DEF TypeOK, Cached
    <3> QED
      BY <3>3, <3>4
  <2>3. CASE k \notin Cached /\ ~full
    <3>1. longer = Append(order, k) /\ left = map
      BY <2>3
    <3> HIDE DEF kept, left, longer
    <3>2. Len(order) + 1 <= CacheSize
      <4>1. Cardinality(Cached) = Len(order) /\ Len(order) \in Nat
        BY <1>2, KeysCounted
      <4>2. order = <<>> => Len(order) = 0
        BY <1>2
      <4>3. CASE order = <<>>
        BY <4>1, <4>2, <4>3, SizeAssumption
      <4>4. CASE Len(order) # CacheSize
        BY <1>2, <4>1, <4>4, SizeAssumption
      <4> QED
        BY <2>3, <4>1, <4>3, <4>4
    <3>3. /\ Ordered(longer) = Cached \cup {k}
          /\ Distinct(longer) /\ Len(longer) <= CacheSize /\ longer \in Seq(Domains)
      BY <1>2, <2>3, <3>1, <3>2, AppendKeys
    <3>4. {d \in Domains : map'[d] # Nothing} = Cached \cup {k}
      BY <1>1, <1>3, <3>1 DEF TypeOK, Cached
    <3> QED
      BY <3>3, <3>4
  <2> QED
    BY <2>1, <2>2, <2>3
<1> HIDE DEF longer
<1>5. Distinct(order') /\ Len(order') <= CacheSize /\ Ordered(order') = Ordered(longer)
  BY <1>1, <1>4, TouchedFacts
<1> QED
  BY <1>4, <1>5 DEF CacheAgrees, Distinct, Cached, Ordered

\* The two halves of the cache agree whatever is put, read and evicted, so eviction
\* always finds a key to remove and the map never outgrows its bound (LruCache).
THEOREM CacheAlwaysAgrees == Spec => []CacheAgrees
<1>1. Init => CacheAgrees
  BY SizeAssumption DEF Init, CacheAgrees, Cached, Ordered
<1>2. IInv /\ CacheAgrees /\ [Next]_vars => CacheAgrees'
  <2> SUFFICES ASSUME IInv, CacheAgrees, [Next]_vars PROVE CacheAgrees'
    OBVIOUS
  <2>0. TypeOK
    BY DEF IInv
  <2>1. ASSUME UNCHANGED <<map, order>> PROVE CacheAgrees'
    BY <2>1 DEF CacheAgrees, Cached, Ordered
  <2>2. ASSUME NEW k \in Domains, Get(k) PROVE CacheAgrees'
    <3>1. /\ map' = map /\ order \in Seq(Domains) /\ Distinct(order) /\ Ordered(order) = Cached
          /\ order' = order \/ order' = Touched(order, k)
      BY <2>0, <2>2 DEF Get, TypeOK, CacheAgrees, Distinct
    <3>2. Distinct(order') /\ Len(order') = Len(order) /\ Ordered(order') = Ordered(order)
      BY <3>1, TouchedFacts
    <3> QED
      BY <3>1, <3>2 DEF CacheAgrees, Distinct, Cached, Ordered
  <2>3. ASSUME NEW c \in Callers, NEW d \in Domains, Call(c, d) PROVE CacheAgrees'
    BY <2>2, <2>3 DEF Call
  <2>4. ASSUME NEW c \in Callers, FallBack(c) PROVE CacheAgrees'
    BY <2>2, <2>4, InHand DEF FallBack
  <2>5. ASSUME Store PROVE CacheAgrees'
    BY <2>0, <2>5, InHand, PutAgrees DEF Store
  <2> QED
    BY <2>1, <2>3, <2>4, <2>5 DEF Next, CallerStep, WorkerStep, vars, cacheVars, Attach, Send,
       Undo, TakeReply, Expire, Receive, Drain, Answer, NextRequest
<1> QED
  BY <1>1, <1>2, Inductive, PTL DEF Spec

-----------------------------------------------------------------------------
(* The shield.                                                             *)

USE KeyAssumption, PacketsAssumption, NamesAssumption, ActionsAssumption, ListedByArtifact

Name == Seq(LabelSet) \ {<<>>}

-----------------------------------------------------------------------------
(* The rules: walking down a trie finds the longest rule that covers a name. *)

\* The labels of a name up to a place are the one prefix of that length.
LEMMA PrefixesAreLabels ==
  ASSUME NEW n \in Seq(LabelSet), NEW e \in Seq(LabelSet)
  PROVE  IsPrefix(e, n) <=> Len(e) \in 0..Len(n) /\ e = Labels(n, Len(e))
<1>1. SubSeq(e, 1, Len(e)) = e
  BY SubSeqFull
<1> QED
  BY <1>1 DEF IsPrefix, Labels

LEMMA LabelsFacts ==
  ASSUME NEW n \in Seq(LabelSet), NEW k \in 1..Len(n)
  PROVE  /\ Labels(n, k) \in Seq(LabelSet) /\ Len(Labels(n, k)) = k
         /\ IsPrefix(Labels(n, k), n)
         /\ \A j \in 1..k : IsPrefix(Labels(n, j), Labels(n, k))
<1>0. Len(n) \in Nat /\ k \in Int /\ 1 <= k /\ k <= Len(n)
  OBVIOUS
<1>1. ASSUME NEW j \in 1..Len(n) PROVE Labels(n, j) \in Seq(LabelSet) /\ Len(Labels(n, j)) = j
  <2>1. \A i \in 1..j : n[i] \in LabelSet
    BY <1>0
  <2> QED
    BY <1>0, <2>1, SubSeqProperties DEF Labels
<1>2. Labels(n, k) \in Seq(LabelSet) /\ Len(Labels(n, k)) = k
  BY <1>1
<1>3. IsPrefix(Labels(n, k), n)
  BY <1>2, PrefixesAreLabels
<1>4. ASSUME NEW j \in 1..k PROVE IsPrefix(Labels(n, j), Labels(n, k))
  <2>1. Labels(n, j) \in Seq(LabelSet) /\ Len(Labels(n, j)) = j
    BY <1>1, <1>0
  <2>2. Labels(Labels(n, k), j) = Labels(n, j)
    BY <1>0, SubSeqOfSubSeq DEF Labels
  <2> QED
    BY <1>2, <2>1, <2>2, PrefixesAreLabels
<1> QED
  BY <1>2, <1>3, <1>4

\* The allowlist covers a name exactly if one of its entries is a prefix of it.
LEMMA AllowlistCovers ==
  ASSUME NEW n \in Domains
  PROVE  AllowlistContains(n) <=> \E e \in Allowed : IsPrefix(e, n)
<1>0. n \in Seq(LabelSet)
  OBVIOUS
<1>1. ASSUME NEW k \in 1..Len(n), Labels(n, k) \in Allowed PROVE \E e \in Allowed : IsPrefix(e, n)
  BY <1>0, <1>1, LabelsFacts
<1>2. ASSUME NEW e \in Allowed, IsPrefix(e, n)
      PROVE  Len(e) \in 1..Len(n) /\ Labels(n, Len(e)) \in Allowed
  <2>1. e \in Seq(LabelSet) /\ e # <<>>
    OBVIOUS
  <2>2. Len(e) # 0
    BY <2>1, EmptySeq
  <2>3. Len(e) \in 0..Len(n) /\ e = Labels(n, Len(e))
    BY <1>0, <1>2, <2>1, PrefixesAreLabels
  <2> QED
    BY <2>2, <2>3
<1> QED
  BY <1>1, <1>2 DEF AllowlistContains

\* rule_for finds a rule exactly if one covers the name, and then the longest.
LEMMA RuleForIsLongest ==
  ASSUME NEW n \in Domains
  PROVE  IF RulesOn(n) = {} THEN RuleFor(n) = Nothing
         ELSE \A r \in RulesOn(n) :
                (\A q \in RulesOn(n) : Len(q) <= Len(r)) => RuleFor(n) = Explicit[r]
<1> DEFINE node(k) == \E r \in DOMAIN Explicit : IsPrefix(Labels(n, k), r)
           met == {k \in 1..Len(n) :
                     (\A j \in 1..k : node(j)) /\ Labels(n, k) \in DOMAIN Explicit}
           last == CHOOSE k \in met : \A j \in met : j <= k
<1>0. n \in Seq(LabelSet) /\ Len(n) \in Nat
  OBVIOUS
<1>1. RuleFor(n) = IF met = {} THEN Nothing ELSE Explicit[Labels(n, last)]
  BY DEF RuleFor
<1>2. \A k \in 1..Len(n) : k \in met <=> Labels(n, k) \in DOMAIN Explicit
  BY <1>0, LabelsFacts
<1>3. \A r \in RulesOn(n) : Len(r) \in met /\ r = Labels(n, Len(r))
  <2> TAKE r \in RulesOn(n)
  <2>1. r \in Seq(LabelSet) /\ r # <<>> /\ IsPrefix(r, n) /\ r \in DOMAIN Explicit
    BY DEF RulesOn
  <2>2. Len(r) # 0
    BY <2>1, EmptySeq
  <2>3. Len(r) \in 0..Len(n) /\ r = Labels(n, Len(r))
    BY <1>0, <2>1, PrefixesAreLabels
  <2>4. Len(r) \in 1..Len(n)
    BY <2>2, <2>3
  <2> QED
    BY <1>2, <2>1, <2>3, <2>4
<1>4. \A k \in met : Labels(n, k) \in RulesOn(n) /\ Len(Labels(n, k)) = k
  BY <1>0, <1>2, LabelsFacts DEF RulesOn
<1> HIDE DEF met
<1>5. CASE RulesOn(n) = {}
  BY <1>1, <1>4, <1>5
<1>6. CASE RulesOn(n) # {}
  <2> SUFFICES ASSUME NEW r \in RulesOn(n), \A q \in RulesOn(n) : Len(q) <= Len(r)
               PROVE  RuleFor(n) = Explicit[r]
    BY <1>6
  <2>1. Len(r) \in met /\ \A j \in met : j <= Len(r)
    BY <1>3, <1>4
  <2>2. last \in met /\ \A j \in met : j <= last
    BY <2>1
  <2>3. last \in Int /\ Len(r) \in Int
    BY <2>1, <2>2 DEF met
  <2>4. last = Len(r)
    BY <2>1, <2>2, <2>3
  <2> QED
    BY <1>1, <1>3, <2>1, <2>4
<1> QED
  BY <1>5, <1>6

\* A set of places has a last one.
LEMMA LastExists ==
  ASSUME NEW n \in Nat, NEW M \in SUBSET (1..n), M # {}
  PROVE  \E m \in M : \A j \in M : j <= m
<1> DEFINE above(k) == {j \in M : j > k}
           T == {above(k) : k \in M}
<1>1. IsFiniteSet(M)
  <2>1. 1 \in Int /\ n \in Int
    OBVIOUS
  <2>2. IsFiniteSet(1..n)
    BY <2>1, FS_Interval, Zenon
  <2> QED
    BY <2>2, FS_Subset
<1>2. T \subseteq FiniteSubsetsOf(M) /\ T # {}
  <2>1. \A k \in M : above(k) \in SUBSET M
    OBVIOUS
  <2>2. \A k \in M : IsFiniteSet(above(k))
    BY <1>1, <2>1, FS_Subset
  <2>3. \A k \in M : above(k) \in FiniteSubsetsOf(M)
    <3> HIDE DEF above
    <3> QED
      BY <2>1, <2>2 DEF FiniteSubsetsOf
  <2>4. PICK k \in M : TRUE
    OBVIOUS
  <2> HIDE DEF above
  <2>5. above(k) \in T
    OBVIOUS
  <2>6. \A t \in T : t \in FiniteSubsetsOf(M)
    BY <2>3, Zenon
  <2> QED
    BY <2>5, <2>6, Zenon
<1>3. PICK s \in T : \A u \in T : <<u, s>> \notin StrictSubsetOrdering(M)
  <2> HIDE DEF T
  <2> QED
    BY <1>2, WFMin, FS_StrictSubsetOrderingWellFounded
<1>4. PICK m \in M : s = above(m)
  OBVIOUS
<1>5. ASSUME NEW j \in M, ~(j <= m) PROVE FALSE
  <2>1. j > m /\ j \in above(m) /\ j \notin above(j)
    BY <1>5
  <2>2. above(j) \subseteq above(m)
    <3> SUFFICES ASSUME NEW i \in M, i > j PROVE i > m
      OBVIOUS
    <3>1. i \in Int /\ j \in Int /\ m \in Int
      OBVIOUS
    <3> QED
      BY <2>1, <3>1
  <2>3. <<above(j), s>> \in StrictSubsetOrdering(M)
    BY <1>4, <2>1, <2>2 DEF StrictSubsetOrdering
  <2> QED
    BY <1>3, <2>3
<1> QED
  BY <1>5

\* The precedence table is the one the code walks through, the artifact last.
LEMMA PolicyIsResolved ==
  ASSUME NEW words, NEW n \in Domains
  PROVE  /\ ResolveAction(words, n) # Nothing => Policy(words, n) = ResolveAction(words, n)
         /\ ResolveAction(words, n) = Nothing =>
              Policy(words, n) = IF n \in Listed THEN "Block" ELSE "Proxy"
<1> DEFINE longest(r) == \A q \in RulesOn(n) : Len(q) <= Len(r)
<1>1. CASE AllowlistContains(n)
  BY <1>1, AllowlistCovers DEF ResolveAction, Policy
<1>2. CASE ~AllowlistContains(n) /\ RulesOn(n) # {}
  <2> DEFINE M == {Len(q) : q \in RulesOn(n)}
  <2>1. M \subseteq 1..Len(n) /\ M # {}
    <3>1. ASSUME NEW r \in RulesOn(n) PROVE Len(r) \in 1..Len(n)
      <4>1. r \in Seq(LabelSet) /\ r # <<>> /\ IsPrefix(r, n)
        BY DEF RulesOn
      <4>2. Len(r) # 0
        BY <4>1, EmptySeq
      <4> QED
        BY <4>1, <4>2, PrefixesAreLabels
    <3>2. PICK r \in RulesOn(n) : TRUE
      BY <1>2
    <3>3. Len(r) \in M
      OBVIOUS
    <3>4. \A j \in M : j \in 1..Len(n)
      BY <3>1, Zenon
    <3> QED
      BY <3>3, <3>4, Zenon
  <2>2. PICK m \in M : \A j \in M : j <= m
    <3>1. Len(n) \in Nat
      OBVIOUS
    <3> HIDE DEF M
    <3> QED
      BY <2>1, <3>1, LastExists
  <2>3. PICK r \in RulesOn(n) : longest(r)
    BY <2>2
  <2>4. longest(CHOOSE q \in RulesOn(n) : longest(q)) /\ (CHOOSE q \in RulesOn(n) : longest(q)) \in RulesOn(n)
    BY <2>3
  <2>5. Policy(words, n) = Explicit[CHOOSE q \in RulesOn(n) : longest(q)]
    BY <1>2, AllowlistCovers DEF Policy
  <2>6. Policy(words, n) = RuleFor(n) /\ Policy(words, n) \in {"Allow", "Block", "Proxy"}
    BY <1>2, <2>4, <2>5, RuleForIsLongest DEF RulesOn
  <2> QED
    BY <1>2, <2>6 DEF ResolveAction
<1>3. CASE ~AllowlistContains(n) /\ RulesOn(n) = {}
  BY <1>3, AllowlistCovers, RuleForIsLongest DEF ResolveAction, Policy
<1> QED
  BY <1>1, <1>2, <1>3

-----------------------------------------------------------------------------
(* The verdict *)

\* The refusal of a query is short enough for a datagram, answers that query, and is no
\* query itself (nxdomain_response, build_ipv4_udp).
LEMMA RefusalRefuses ==
  ASSUME NEW p \in Packets, Asks(p)
  PROVE  LET refusal == NxDomainResponse(Payload(p))
         IN Fits(refusal) /\ Refuses(ReplyTo(p, refusal), p)
<1> DEFINE q == Payload(p)
           r == NxDomainResponse(q)
           a == ReplyTo(p, r)
<1>1. p.message \in Messages
  OBVIOUS
<1>2. q.wire \in Nat /\ q.wire <= 256 /\ q.id = p.message.id /\ q.name = p.message.name
  BY <1>1 DEF Messages, Payload, Asks, ParsesQuery, MaxNameWireLen
<1>3. QuestionEnd(q) = q.wire + 16
  BY <1>2 DEF QuestionEnd, HeaderLen
<1>4. /\ r.size = q.wire + 16 /\ r.response = TRUE /\ r.wire = q.wire
      /\ r.id = q.id /\ r.name = q.name
  BY <1>1, <1>3 DEF Messages, Payload, NxDomainResponse
<1>5. Fits(r)
  BY <1>2, <1>4 DEF Fits, Ipv4MinHeaderLen, UdpHeaderLen, Ipv4MaxTotalLen
<1>6. ParsesUdp(a) /\ a.src = p.dst /\ a.dst = p.src
  BY <1>2, <1>4 DEF ParsesUdp, ReplyTo, BuildUdp, Ipv4MinHeaderLen, UdpHeaderLen, ProtoUdp
<1>7. Payload(a) = r
  <2>1. a.message = r /\ a.udplen - UdpHeaderLen = r.size
    BY <1>2, <1>4 DEF ReplyTo, BuildUdp, UdpHeaderLen
  <2>2. [r EXCEPT !.size = r.size] = r
    BY DEF NxDomainResponse
  <2> QED
    BY <2>1, <2>2 DEF Payload
<1>8. QuestionEnd(r) = r.size
  BY <1>2, <1>4 DEF QuestionEnd, HeaderLen
<1>9. ~Asks(a)
  BY <1>4, <1>7 DEF Asks, ParsesQuery
<1> QED
  BY <1>4, <1>5, <1>6, <1>7, <1>8, <1>9 DEF Refuses

\* The verdict on a query by a rule of the device (inspect).
LEMMA RuleDecides ==
  ASSUME NEW words, NEW p \in Packets, Asks(p), NameOf(p) # Nothing,
         ResolveAction(words, NameOf(p)) # Nothing
  PROVE  Right(words, Ruled(p, ResolveAction(words, NameOf(p)), Nothing))
<1> DEFINE action == ResolveAction(words, NameOf(p))
           v == Ruled(p, action, Nothing)
<1>1. NameOf(p) \in Domains
  BY DEF NameOf, Messages
<1>2. Policy(words, NameOf(p)) = action
  BY <1>1, PolicyIsResolved
<1>3. CASE action = "Block"
  <2>1. /\ v.kind = "Blocked" /\ v.packet = p
        /\ v.reply = ReplyTo(p, NxDomainResponse(Payload(p)))
    BY <1>3, RefusalRefuses DEF Ruled
  <2> QED
    BY <1>2, <1>3, <2>1, RefusalRefuses DEF Right
<1>4. CASE action # "Block"
  <2>1. v.kind = "Forward" /\ v.packet = p
    BY <1>4 DEF Ruled
  <2> QED
    BY <1>2, <1>4, <2>1 DEF Right
<1> QED
  BY <1>3, <1>4

\* What AnswersTrue says of one result.
Answered(r) ==
  \/ r.by \in {Ruling(r.domain), "Panicked"}
  \/ r.by = Nothing /\ r.counted

\* The verdict on a query by what a look-up of its name came to.
LEMMA LookupDecides ==
  ASSUME NEW words, NEW p \in Packets, Asks(p), NameOf(p) # Nothing,
         ResolveAction(words, NameOf(p)) = Nothing,
         NEW r \in Results, r.domain = NameOf(p), Answered(r)
  PROVE  Right(words, RuledBy(p, r))
<1> DEFINE n == NameOf(p)
           v == RuledBy(p, r)
<1>1. n \in Domains /\ r # Nothing
  BY NothingAssumption DEF NameOf, Messages
<1>2. Policy(words, n) = IF n \in Listed THEN "Block" ELSE "Proxy"
  BY <1>1, PolicyIsResolved
<1>3. CASE r.by = "Block"
  <2>1. n \in Listed
    BY <1>3 DEF Ruling, Answered
  <2>2. /\ v.kind = "Blocked" /\ v.packet = p
        /\ v.reply = ReplyTo(p, NxDomainResponse(Payload(p)))
    BY <1>3, RefusalRefuses DEF RuledBy, Ruled
  <2> QED
    BY <1>1, <1>2, <2>1, <2>2, RefusalRefuses DEF Right
<1>4. CASE r.by # "Block"
  <2>1. v.kind = "Forward" /\ v.packet = p /\ v.looked = r
    BY <1>4 DEF RuledBy, Ruled
  <2>2. n \notin Listed \/ Missed(r)
    BY <1>1, <1>4 DEF Ruling, Missed, Answered
  <2> QED
    BY <1>2, <2>1, <2>2 DEF Right
<1> QED
  BY <1>3, <1>4

-----------------------------------------------------------------------------
(* The shield over the look-up *)

\* A thread that waits for the worker holds the lock, for a query no rule decides.
Waiting(c) ==
  /\ c \in readers /\ pc[c] # "idle" /\ want[c] = NameOf(packet[c])
  /\ Asks(packet[c]) /\ NameOf(packet[c]) # Nothing
  /\ ResolveAction(tokens, NameOf(packet[c])) = Nothing

ShieldInv ==
  /\ packet \in [Callers -> Packets \cup {Nothing}]
  /\ \A c \in Callers : packet[c] # Nothing => Waiting(c)
  /\ PolicyDecides

\* A step of the shield is a step of the look-up, or leaves all of it alone.
LEMMA StepIsLookup == [ShieldNext]_allVars => [Next]_vars
<1> SUFFICES ASSUME [ShieldNext]_allVars PROVE [Next]_vars
  OBVIOUS
<1>1. ASSUME NEW c \in Callers, Await(c) PROVE Next
  BY <1>1 DEF Await, Next
<1>2. ASSUME NEW c \in Callers, NEW p \in Packets, Ignore(c, p) \/ Pass(c, p) \/ Settle(c, p)
      PROVE  UNCHANGED vars
  BY <1>2 DEF Ignore, Pass, Settle
<1>3. ASSUME NEW c \in Callers, NEW p \in Packets, Ask(c, p) PROVE Next
  <2>1. NameOf(p) \in Domains
    BY <1>3 DEF Ask, NameOf, Messages
  <2> QED
    BY <1>3, <2>1 DEF Ask, Next
<1>4. CASE Work
  BY <1>4 DEF Work, Next
<1>5. ASSUME NEW words \in SUBSET Words, SetKeywords(words) PROVE UNCHANGED vars
  BY <1>5 DEF SetKeywords
<1>6. CASE Replace
  BY <1>6 DEF Replace
<1>7. CASE UNCHANGED allVars
  BY <1>7 DEF allVars
<1> QED
  BY <1>1, <1>2, <1>3, <1>4, <1>5, <1>6, <1>7 DEF ShieldNext

\* What a step of one caller leaves of the others, and of its own place if none returns.
LEMMA CallerFrame ==
  ASSUME IInv, NEW c \in Callers, CallerStep(c)
  PROVE  /\ \A b \in Callers \ {c} : pc'[b] = pc[b] /\ want'[b] = want[b]
         /\ result' = Nothing => pc'[c] # "idle" /\ want'[c] = want[c]
         /\ result' # Nothing => result'.domain = want[c]
<1>0. TypeOK
  BY DEF IInv
<1>1. CASE Undo(c) \/ TakeReply(c) \/ FallBack(c)
  <2>1. PICK by \in Decisions \cup {Nothing}, counted \in BOOLEAN :
          Return(c, want[c], by, counted)
    <3>1. CASE Undo(c)
      BY <3>1 DEF Undo
    <3>2. CASE TakeReply(c)
      BY <1>0, <3>2 DEF TakeReply, TypeOK
    <3>3. CASE FallBack(c)
      <4>1. want[c] \in Domains
        BY <3>3 DEF FallBack, IInv, Attached
      <4> QED
        BY <1>0, <3>3, <4>1 DEF FallBack, TypeOK
    <3> QED
      BY <1>1, <3>1, <3>2, <3>3
  <2>2. pc[c] # "idle"
    BY <1>1 DEF Undo, TakeReply, FallBack
  <2>3. want[c] \in Domains
    BY <2>2 DEF IInv, Attached
  <2>4. result' \in Results /\ result'.domain = want[c]
    BY <2>1, <2>3 DEF Return, Results
  <2>5. result' # Nothing
    BY <2>4, NothingAssumption
  <2> QED
    BY <1>0, <2>1, <2>3, <2>4, <2>5, ReturnFacts
<1>2. CASE Quiet /\ (Attach(c) \/ Send(c) \/ Expire(c))
  BY <1>0, <1>2 DEF Attach, Send, Expire, Quiet, TypeOK
<1> QED
  BY <1>1, <1>2 DEF CallerStep

LEMMA ShieldInitInv == ShieldInit => IInv /\ ShieldInv
<1> SUFFICES ASSUME ShieldInit PROVE ShieldInv
  BY InitInv DEF ShieldInit
<1> QED
  BY DEF ShieldInit, ShieldInv, PolicyDecides

\* Who is not concerned by a step goes on waiting.
LEMMA WaitingFrame ==
  ASSUME NEW b \in Callers, Waiting(b), packet'[b] = packet[b], pc'[b] = pc[b],
         want'[b] = want[b], b \in readers', tokens' = tokens
  PROVE  Waiting(b)'
BY DEF Waiting

LEMMA AskKeeps ==
  ASSUME IInv, IInv', ShieldInv, NEW c \in Callers, NEW p \in Packets, Ask(c, p)
  PROVE  ShieldInv'
<1> DEFINE d == NameOf(p)
<1>0. TypeOK /\ TypeOK' /\ AnswersTrue' /\ packet \in [Callers -> Packets \cup {Nothing}]
  BY DEF IInv, Truthful, ShieldInv
<1>1. /\ d \in Domains /\ d # Nothing /\ Asks(p) /\ packet[c] = Nothing /\ Call(c, d)
      /\ tokens' = tokens /\ ResolveAction(tokens, d) = Nothing
  BY DEF Ask, NameOf, Messages
<1>2. \A b \in Callers \ {c} : pc'[b] = pc[b] /\ want'[b] = want[b]
  BY <1>0, <1>1 DEF Call, Return, TypeOK
<1>3. \A b \in Callers : b # c /\ packet[b] # Nothing => Waiting(b) /\ b \in readers'
  BY DEF ShieldInv, Waiting, Ask
<1>4. CASE d \in Cached
  <2>1. map[d] \in Decisions
    BY <1>0, <1>1, <1>4 DEF TypeOK, Cached
  <2>2. result' = [domain |-> d, by |-> map[d], counted |-> FALSE]
    BY <1>1, <1>4 DEF Call, Return
  <2>3. result' \in Results /\ result' # Nothing
    <3>1. [domain |-> d, by |-> map[d], counted |-> FALSE] \in Results
      BY <1>1, <2>1 DEF Results
    <3> QED
      BY <2>2, <3>1, NothingAssumption
  <2>4. packet' = packet /\ verdict' = RuledBy(p, result')
    BY <2>3 DEF Ask
  <2>5. \A b \in Callers : packet'[b] # Nothing => Waiting(b)'
    BY <1>1, <1>2, <1>3, <2>4, WaitingFrame
  <2>6. Right(tokens, verdict')
    <3>1. result'.domain = d
      BY <2>2
    <3>2. \/ result'.by \in {Ruling(result'.domain), "Panicked"}
          \/ result'.by = Nothing /\ result'.counted
      BY <1>0, <2>3 DEF AnswersTrue
    <3>3. PICK r \in Results : r = result'
      BY <2>3
    <3>4. r.domain = NameOf(p) /\ Answered(r)
      BY <3>1, <3>2, <3>3 DEF Answered
    <3>5. Right(tokens, RuledBy(p, r))
      BY <1>1, <3>4, LookupDecides
    <3>6. verdict' = RuledBy(p, r)
      BY <2>4, <3>3 DEF RuledBy
    <3> QED
      BY <3>5, <3>6
  <2> QED
    BY <1>0, <1>1, <2>4, <2>5, <2>6 DEF ShieldInv, PolicyDecides
<1>5. CASE d \notin Cached
  <2>1. result' = Nothing /\ pc' = [pc EXCEPT ![c] = "table"] /\ want' = [want EXCEPT ![c] = d]
    BY <1>1, <1>5 DEF Call, Quiet
  <2>2. packet' = [packet EXCEPT ![c] = p] /\ readers' = readers \cup {c} /\ verdict' = Nothing
    BY <2>1 DEF Ask
  <2>3. pc'[c] = "table" /\ want'[c] = d
    BY <1>0, <2>1 DEF TypeOK
  <2>4. Waiting(c)'
    BY <1>0, <1>1, <2>2, <2>3 DEF Waiting
  <2>5. ASSUME NEW b \in Callers, b # c, packet'[b] # Nothing PROVE Waiting(b)'
    <3>1. packet'[b] = packet[b]
      BY <1>0, <2>2, <2>5
    <3> QED
      BY <1>1, <1>2, <1>3, <2>5, <3>1, WaitingFrame
  <2>6. \A b \in Callers : packet'[b] # Nothing => Waiting(b)'
    BY <2>4, <2>5
  <2>7. packet' \in [Callers -> Packets \cup {Nothing}]
    BY <1>0, <2>2
  <2> QED
    BY <2>2, <2>6, <2>7 DEF ShieldInv, PolicyDecides
<1> QED
  BY <1>4, <1>5

LEMMA AwaitKeeps ==
  ASSUME IInv, IInv', ShieldInv, NEW c \in Callers, Await(c)
  PROVE  ShieldInv'
<1>0. TypeOK' /\ AnswersTrue' /\ packet \in [Callers -> Packets \cup {Nothing}]
  BY DEF IInv, Truthful, ShieldInv
<1>1. packet[c] # Nothing /\ CallerStep(c) /\ tokens' = tokens
  BY DEF Await
<1>2. Waiting(c) /\ packet[c] \in Packets
  BY <1>1 DEF ShieldInv
<1>3. \A b \in Callers : b # c /\ packet[b] # Nothing => Waiting(b) /\ b \in readers'
  BY DEF ShieldInv, Waiting, Await
<1>4. CASE result' = Nothing
  <2>1. packet' = packet /\ readers' = readers /\ verdict' = Nothing
    BY <1>4 DEF Await
  <2>2. pc'[c] # "idle" /\ want'[c] = want[c]
    BY <1>1, <1>4, CallerFrame
  <2>3. Waiting(c)'
    BY <1>1, <1>2, <2>1, <2>2 DEF Waiting
  <2>4. ASSUME NEW b \in Callers, b # c, packet'[b] # Nothing PROVE Waiting(b)'
    BY <1>1, <1>3, <2>1, <2>4, CallerFrame, WaitingFrame
  <2>5. \A b \in Callers : packet'[b] # Nothing => Waiting(b)'
    BY <2>3, <2>4
  <2> QED
    BY <1>0, <2>1, <2>5 DEF ShieldInv, PolicyDecides
<1>5. CASE result' # Nothing
  <2>1. packet' = [packet EXCEPT ![c] = Nothing] /\ verdict' = RuledBy(packet[c], result')
    BY <1>5 DEF Await
  <2>2. result' \in Results /\ result'.domain = NameOf(packet[c])
    BY <1>0, <1>1, <1>2, <1>5, CallerFrame DEF TypeOK, Waiting
  <2>3. \/ result'.by \in {Ruling(result'.domain), "Panicked"}
        \/ result'.by = Nothing /\ result'.counted
    BY <1>0, <1>5 DEF AnswersTrue
  <2>4. Right(tokens, verdict')
    <3>1. PICK r \in Results : r = result'
      BY <2>2
    <3>2. PICK p \in Packets : p = packet[c]
      BY <1>2
    <3>3. /\ Asks(p) /\ NameOf(p) # Nothing /\ ResolveAction(tokens, NameOf(p)) = Nothing
          /\ r.domain = NameOf(p)
      BY <1>2, <2>2, <3>1, <3>2 DEF Waiting
    <3>4. Answered(r)
      BY <2>3, <3>1 DEF Answered
    <3>5. Right(tokens, RuledBy(p, r))
      BY <3>3, <3>4, LookupDecides
    <3>6. verdict' = RuledBy(p, r)
      BY <2>1, <3>1, <3>2 DEF RuledBy
    <3> QED
      BY <3>5, <3>6
  <2>5. ASSUME NEW b \in Callers, packet'[b] # Nothing PROVE Waiting(b)'
    <3>1. b # c /\ packet'[b] = packet[b]
      BY <1>0, <2>1, <2>5
    <3> QED
      BY <1>1, <1>3, <2>5, <3>1, CallerFrame, WaitingFrame
  <2>6. packet' \in [Callers -> Packets \cup {Nothing}]
    BY <1>0, <2>1
  <2> QED
    BY <1>1, <2>4, <2>5, <2>6 DEF ShieldInv, PolicyDecides
<1> QED
  BY <1>4, <1>5

LEMMA ShieldStep == IInv /\ IInv' /\ ShieldInv /\ [ShieldNext]_allVars => ShieldInv'
<1> SUFFICES ASSUME IInv, IInv', ShieldInv, [ShieldNext]_allVars PROVE ShieldInv'
  OBVIOUS
<1>0. packet \in [Callers -> Packets \cup {Nothing}] /\ \A b \in Callers : packet[b] # Nothing => Waiting(b)
  BY DEF ShieldInv
\* A step in which no thread moves and no keyword is replaced.
<1>a. ASSUME UNCHANGED <<packet, readers, tokens>>, pc' = pc, want' = want PROVE
        packet' \in [Callers -> Packets \cup {Nothing}] /\ \A b \in Callers : packet'[b] # Nothing => Waiting(b)'
  BY <1>0, <1>a DEF Waiting
<1>1. ASSUME NEW c \in Callers, NEW p \in Packets, Ignore(c, p) PROVE ShieldInv'
  BY <1>1, <1>a DEF Ignore, vars, callerVars, ShieldInv, PolicyDecides
<1>2. ASSUME NEW c \in Callers, NEW p \in Packets, Pass(c, p) PROVE ShieldInv'
  <2>1. /\ verdict'.kind = "Forward" /\ verdict'.packet = p /\ NameOf(p) = Nothing
        /\ tokens' = tokens
    BY <1>2 DEF Pass, Ruled
  <2>2. Right(tokens', verdict')
    BY <2>1 DEF Right
  <2> QED
    BY <1>2, <1>a, <2>2 DEF Pass, vars, callerVars, ShieldInv, PolicyDecides
<1>3. ASSUME NEW c \in Callers, NEW p \in Packets, Settle(c, p) PROVE ShieldInv'
  <2>1. Right(tokens, verdict') /\ tokens' = tokens
    BY <1>3, RuleDecides DEF Settle
  <2> QED
    BY <1>3, <1>a, <2>1 DEF Settle, vars, callerVars, ShieldInv, PolicyDecides
<1>4. ASSUME NEW c \in Callers, NEW p \in Packets, Ask(c, p) PROVE ShieldInv'
  BY <1>4, AskKeeps
<1>5. ASSUME NEW c \in Callers, Await(c) PROVE ShieldInv'
  BY <1>5, AwaitKeeps
<1>6. CASE Work
  <2>1. pc' = pc /\ want' = want
    BY <1>6 DEF Work, WorkerStep, Receive, Store, Drain, Answer, NextRequest, callerVars
  <2> QED
    BY <1>6, <1>a, <2>1 DEF Work, ShieldInv, PolicyDecides
<1>7. ASSUME NEW words \in SUBSET Words, SetKeywords(words) PROVE ShieldInv'
  BY <1>7, <1>a DEF SetKeywords, vars, callerVars, ShieldInv, PolicyDecides
<1>8. CASE Replace
  <2>1. \A b \in Callers : packet[b] = Nothing
    BY <1>0, <1>8 DEF Replace, Waiting
  <2> QED
    BY <1>0, <1>8, <2>1 DEF Replace, ShieldInv, PolicyDecides
<1>9. CASE UNCHANGED allVars
  BY <1>9, <1>a DEF allVars, shieldVars, vars, callerVars, ShieldInv, PolicyDecides
<1> QED
  BY <1>1, <1>2, <1>3, <1>4, <1>5, <1>6, <1>7, <1>8, <1>9 DEF ShieldNext

LEMMA LookupStep == IInv /\ [ShieldNext]_allVars => IInv'
BY StepIsLookup, TypeNext, AttachedNext, OneRequestNext, TruthfulNext DEF IInv

LEMMA ShieldInductive == ShieldSpec => [](IInv /\ ShieldInv)
<1>1. ShieldInit => IInv /\ ShieldInv
  BY ShieldInitInv
<1>2. (IInv /\ ShieldInv) /\ [ShieldNext]_allVars => (IInv /\ ShieldInv)'
  BY LookupStep, ShieldStep
<1> QED
  BY <1>1, <1>2, PTL DEF ShieldSpec

\* The shield runs the look-up as Lookup specifies it, whatever else its threads do:
\* its steps are those of Lookup or change nothing of it (inspect, lookup).
THEOREM ShieldImplementsLookup == ShieldSpec => Init /\ [][Next]_vars
<1>1. ShieldInit => Init
  BY DEF ShieldInit
<1> QED
  BY <1>1, StepIsLookup, PTL DEF ShieldSpec

\* However late the worker answers, whatever its cache holds and whenever keywords are
\* replaced, a verdict is the one of the precedence table with the keywords in force,
\* but for an answer the worker failed to give and counted; and a refusal fits the
\* datagram and answers the query (inspect, resolve_action, set_keywords).
THEOREM VerdictIsPolicy == ShieldSpec => []PolicyDecides
<1>1. ShieldInv => PolicyDecides
  BY DEF ShieldInv
<1> QED
  BY <1>1, ShieldInductive, PTL

\* Under the shield too an entry of the in-flight table has exactly one request behind it.
THEOREM ShieldHasOneRequest == ShieldSpec => []OneRequest
<1>1. IInv => OneRequest
  BY DEF IInv
<1> QED
  BY <1>1, ShieldInductive, PTL

=============================================================================
