--------------------------------- MODULE Lookup ---------------------------------
(***************************************************************************)
(* The look-up of a domain under a time budget: BlocklistLookup and its     *)
(* Worker in net-shield's blocklist.rs. Callers miss the LRU cache, attach   *)
(* to the in-flight table or put a request on a bounded queue, and wait. One *)
(* worker thread answers. A step is one section under a mutex, one operation *)
(* on the queue, or one send on a caller's own channel.                      *)
(*                                                                           *)
(* A channel whose receiver is dropped swallows what is sent to it, so a     *)
(* caller that stops waiting leaves the sets of waiters.                     *)
(***************************************************************************)
EXTENDS Naturals, Sequences, FiniteSets

CONSTANTS
  Callers,     (* threads that call lookup *)
  Domains,     (* normalized names *)
  Listed,      (* those the artifact blocks *)
  Capacity,    (* CHANNEL_CAPACITY, at least 1: zero is a rendezvous *)
  CacheSize,   (* LruCache.cap, at least 1 *)
  Fragile,     (* those at which BlocklistArtifact.lookup may panic *)
  Nothing      (* no answer, no cached decision, no domain *)

ASSUME ListedAssumption == Listed \subseteq Domains /\ Nothing \notin Domains
ASSUME SizeAssumption == Capacity \in Nat \ {0} /\ CacheSize \in Nat \ {0}
ASSUME FragileAssumption == Fragile \subseteq Domains

\* Option<FilterAction>: "NoRule" and "Panicked" are None, the second as a caught
\* panic leaves it. The code does not tell them apart, the properties do.
Decisions == {"Block", "NoRule", "Panicked"}

Results == [domain : Domains, by : Decisions \cup {Nothing}, counted : BOOLEAN]

ASSUME NothingAssumption == Nothing \notin Decisions \cup Results

VARIABLES
  pc, want,            (* where each caller is in lookup, and for which domain *)
  reply,               (* what is in each caller's channel *)
  result,              (* what a lookup that has just returned came to, else Nothing *)
  inflight, waiters,   (* the in-flight table: its keys, and who is attached *)
  queue,               (* requests on the channel to the worker *)
  at, task, decision,  (* where the worker is, and what it has in hand *)
  due,                 (* waiters it took from the table and has not answered *)
  map, order           (* the LRU cache: decisions, and keys by last use *)

callerVars == <<pc, want, reply>>
tableVars == <<inflight, waiters>>
workerVars == <<at, task, decision, due>>
cacheVars == <<map, order>>
vars == <<callerVars, result, tableVars, queue, workerVars, cacheVars>>

Places == {"idle", "table", "send", "undo", "wait", "expired"}

TypeOK ==
  /\ pc \in [Callers -> Places]
  /\ want \in [Callers -> Domains \cup {Nothing}]
  /\ reply \in [Callers -> Decisions \cup {Nothing}]
  /\ result \in Results \cup {Nothing}
  /\ inflight \in SUBSET Domains
  /\ waiters \in [Domains -> SUBSET Callers]
  /\ queue \in Seq(Domains)
  /\ Len(queue) <= Capacity
  /\ at \in {"recv", "store", "drain", "answer"}
  /\ task \in Domains \cup {Nothing}
  /\ decision \in Decisions \cup {Nothing}
  /\ due \in SUBSET Callers
  /\ map \in [Domains -> Decisions \cup {Nothing}]
  /\ order \in Seq(Domains)

Init ==
  /\ pc = [c \in Callers |-> "idle"]
  /\ want = [c \in Callers |-> Nothing]
  /\ reply = [c \in Callers |-> Nothing]
  /\ result = Nothing
  /\ inflight = {} /\ waiters = [d \in Domains |-> {}]
  /\ queue = <<>>
  /\ at = "recv" /\ task = Nothing /\ decision = Nothing /\ due = {}
  /\ map = [d \in Domains |-> Nothing] /\ order = <<>>

-----------------------------------------------------------------------------
(* The LRU cache *)

Cached == {d \in Domains : map[d] # Nothing}
Ordered(keys) == {keys[i] : i \in 1..Len(keys)}

\* k is taken out of its place - it has one, see CacheAgrees - and goes to the end.
Touched(keys, k) ==
  IF k \notin Ordered(keys) THEN keys
  ELSE LET p == CHOOSE i \in 1..Len(keys) : keys[i] = k
       IN [i \in 1..Len(keys) |->
             IF i = Len(keys) THEN k ELSE IF i < p THEN keys[i] ELSE keys[i + 1]]

Get(k) ==
  /\ map' = map
  /\ order' = IF map[k] = Nothing THEN order ELSE Touched(order, k)

Put(k, v) ==
  LET full == k \notin Cached /\ Cardinality(Cached) = CacheSize /\ order # <<>>
      kept == IF full THEN Tail(order) ELSE order
      left == IF full THEN [map EXCEPT ![Head(order)] = Nothing] ELSE map
  IN /\ map' = [left EXCEPT ![k] = v]
     /\ order' = Touched(IF k \in Cached THEN kept ELSE Append(kept, k), k)

-----------------------------------------------------------------------------
(* lookup, as a caller runs it *)

\* A step in which no lookup returns.
Quiet == result' = Nothing

\* The caller returns, by a decision or by default, and its receiver is dropped.
Return(c, d, by, counted) ==
  /\ pc' = [pc EXCEPT ![c] = "idle"]
  /\ want' = [want EXCEPT ![c] = Nothing]
  /\ reply' = [reply EXCEPT ![c] = Nothing]
  /\ result' = [domain |-> d, by |-> by, counted |-> counted]

\* The fast path: the cache answers, or the caller goes on to the table.
Call(c, d) ==
  /\ pc[c] = "idle"
  /\ Get(d)
  /\ IF d \in Cached
       THEN Return(c, d, map[d], FALSE)
       ELSE /\ pc' = [pc EXCEPT ![c] = "table"]
            /\ want' = [want EXCEPT ![c] = d]
            /\ UNCHANGED reply /\ Quiet
  /\ UNCHANGED <<tableVars, queue, workerVars>>

Attach(c) ==
  /\ pc[c] = "table"
  /\ inflight' = inflight \cup {want[c]}
  /\ waiters' = [waiters EXCEPT ![want[c]] = @ \cup {c}]
  /\ pc' = [pc EXCEPT ![c] = IF want[c] \in inflight THEN "wait" ELSE "send"]
  /\ UNCHANGED <<want, reply, queue, workerVars, cacheVars>>

\* try_send does not block.
Send(c) ==
  /\ pc[c] = "send"
  /\ IF Len(queue) < Capacity
       THEN queue' = Append(queue, want[c]) /\ pc' = [pc EXCEPT ![c] = "wait"]
       ELSE UNCHANGED queue /\ pc' = [pc EXCEPT ![c] = "undo"]
  /\ UNCHANGED <<want, reply, tableVars, workerVars, cacheVars>>

\* Seeded fault: the caller falls back and leaves its entry in the table.
UndoKept(c) ==
  /\ pc[c] = "undo"
  /\ Return(c, want[c], Nothing, TRUE)
  /\ UNCHANGED <<tableVars, queue, workerVars, cacheVars>>

\* Whoever attached meanwhile is disconnected and can only fall back.
Undo(c) ==
  /\ pc[c] = "undo"
  /\ inflight' = inflight \ {want[c]}
  /\ waiters' = [waiters EXCEPT ![want[c]] = {}]
  /\ Return(c, want[c], Nothing, TRUE)
  /\ UNCHANGED <<queue, workerVars, cacheVars>>

TakeReply(c) ==
  /\ pc[c] = "wait"
  /\ reply[c] # Nothing
  /\ Return(c, want[c], reply[c], FALSE)
  /\ UNCHANGED <<tableVars, queue, workerVars, cacheVars>>

\* recv_timeout ends without an answer: the budget is spent, or nobody holds the sender.
Expire(c) ==
  /\ pc[c] = "wait"
  /\ reply[c] = Nothing
  /\ pc' = [pc EXCEPT ![c] = "expired"]
  /\ waiters' = [d \in Domains |-> waiters[d] \ {c}]
  /\ due' = due \ {c}
  /\ UNCHANGED <<want, reply, inflight, queue, at, task, decision, cacheVars>>

\* The last cached answer, else the default.
FallBack(c) ==
  /\ pc[c] = "expired"
  /\ Get(want[c])
  /\ Return(c, want[c], map[want[c]], TRUE)
  /\ UNCHANGED <<tableVars, queue, workerVars>>

-----------------------------------------------------------------------------
(* Worker.run and handle_lookup *)

Ruling(d) == IF d \in Listed THEN "Block" ELSE "NoRule"

\* A panic in the look-up is caught and read as no rule.
Receive ==
  /\ at = "recv"
  /\ queue # <<>>
  /\ queue' = Tail(queue)
  /\ task' = Head(queue)
  /\ at' = "store"
  /\ decision' \in {Ruling(task')} \cup (IF task' \in Fragile THEN {"Panicked"} ELSE {})
  /\ UNCHANGED <<callerVars, tableVars, due, cacheVars>>

\* Seeded fault: a decision nobody waits for any more is not cached.
StoreAwaited ==
  /\ at = "store"
  /\ IF waiters[task] = {} THEN UNCHANGED cacheVars ELSE Put(task, decision)
  /\ at' = "drain"
  /\ UNCHANGED <<callerVars, tableVars, queue, task, decision, due>>

\* The cache is populated before the table is drained.
Store ==
  /\ at = "store"
  /\ Put(task, decision)
  /\ at' = "drain"
  /\ UNCHANGED <<callerVars, tableVars, queue, task, decision, due>>

\* Seeded fault: a panic ends the request without draining its entry.
DrainUnlessPanicked ==
  /\ at = "drain"
  /\ IF decision = "Panicked"
       THEN UNCHANGED tableVars /\ due' = {}
       ELSE /\ due' = waiters[task]
            /\ inflight' = inflight \ {task}
            /\ waiters' = [waiters EXCEPT ![task] = {}]
  /\ at' = "answer"
  /\ UNCHANGED <<callerVars, queue, task, decision, cacheVars>>

Drain ==
  /\ at = "drain"
  /\ due' = waiters[task]
  /\ inflight' = inflight \ {task}
  /\ waiters' = [waiters EXCEPT ![task] = {}]
  /\ at' = "answer"
  /\ UNCHANGED <<callerVars, queue, task, decision, cacheVars>>

Answer(c) ==
  /\ at = "answer"
  /\ c \in due
  /\ reply' = [reply EXCEPT ![c] = decision]
  /\ due' = due \ {c}
  /\ UNCHANGED <<pc, want, tableVars, queue, at, task, decision, cacheVars>>

NextRequest ==
  /\ at = "answer"
  /\ due = {}
  /\ at' = "recv"
  /\ task' = Nothing
  /\ decision' = Nothing
  /\ UNCHANGED <<callerVars, tableVars, queue, due, cacheVars>>

WorkerStep == Quiet /\ (Receive \/ Store \/ Drain \/ (\E c \in Callers : Answer(c)) \/ NextRequest)

CallerStep(c) ==
  \/ Undo(c) \/ TakeReply(c) \/ FallBack(c)
  \/ Quiet /\ (Attach(c) \/ Send(c) \/ Expire(c))

Next ==
  \/ \E c \in Callers : CallerStep(c) \/ \E d \in Domains : Call(c, d)
  \/ WorkerStep

\* Both kinds of thread are scheduled; recv_timeout returns; nobody has to call.
Spec ==
  /\ Init /\ [][Next]_vars
  /\ WF_vars(WorkerStep)
  /\ \A c \in Callers : WF_vars(CallerStep(c))

-----------------------------------------------------------------------------
(* Properties *)

Queued(d) == {i \in 1..Len(queue) : queue[i] = d}
Asking(d) == {c \in Callers : pc[c] \in {"send", "undo"} /\ want[c] = d}
Holding(d) == at \in {"store", "drain"} /\ task = d

\* A domain is in the table exactly while one request for it is under way - on
\* the queue, with the worker, or with the caller that is about to send it - and
\* never two: no waiter is attached to an entry nobody will drain, and a failed
\* send never removes the entry of another request (lookup, handle_lookup).
OneRequest ==
  \A d \in Domains :
    /\ d \in inflight <=> Queued(d) # {} \/ Asking(d) # {} \/ Holding(d)
    /\ \A i, j \in Queued(d) : i = j
    /\ \A b, c \in Asking(d) : b = c
    /\ Queued(d) # {} => Asking(d) = {} /\ ~Holding(d)
    /\ Asking(d) # {} => ~Holding(d)

\* A lookup returns what the artifact says of its own domain, however late answers
\* arrive and whatever the cache evicts. It returns anything else only by a caught panic of
\* that domain, or by a default it has counted (note_fallback).
AnswersTrue ==
  result # Nothing =>
    \/ result.by \in {Ruling(result.domain), "Panicked"}
    \/ result.by = Nothing /\ result.counted

\* The two halves of the cache agree: each cached key is in the order once, and
\* the cache never outgrows its size (LruCache.put, get, touch).
CacheAgrees ==
  /\ Ordered(order) = Cached
  /\ \A i, j \in 1..Len(order) : order[i] = order[j] => i = j
  /\ Len(order) <= CacheSize

\* Every entry of the table is drained, also one whose look-up panicked, so the
\* senders of later callers do not pile up in it.
EntriesDrain == \A d \in Domains : d \in inflight ~> d \notin inflight

\* A request that was queued warms the cache even if its caller timed out long ago.
SlowAnswersKept == \A d \in Domains : Queued(d) # {} ~> d \in Cached

=============================================================================
