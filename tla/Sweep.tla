--------------------------------- MODULE Sweep ---------------------------------
(***************************************************************************)
(* The liveness sweep of domain-blocklist: run_sweep_streaming, the cache   *)
(* it reads and checkpoints (CacheStore) and the decision which domains it  *)
(* prunes from the next build. Two resolvers are asked about every due      *)
(* domain; a canary of names with a known answer is checked before the      *)
(* first batch and after every batch.                                       *)
(*                                                                          *)
(* A hijacked resolver answers anything, but makes the same of every name of *)
(* a canary, and stays so until the sweep has ended. A crooked one lies      *)
(* about swept domains only, which no canary can see. Each cache entry carries, beside what the code  *)
(* stores, what the properties need: who was hijacked when it was read      *)
(* (`by`), whether every read of its run of Dead reads found the domain     *)
(* unregistered (`down`), and how many reads the run has (`reads`, to 2).   *)
(***************************************************************************)
EXTENDS Integers, FiniteSets, DnsCheck

CONSTANTS
  NDomains,         (* The merged corpus, numbered in the order of its file. *)
  Special,          (* Domains under a special-use name. *)
  Ttl,              (* SweepConfig.ttl_seconds *)
  Quarantine,       (* SweepConfig.quarantine_seconds *)
  CanaryEvery,      (* SweepConfig.canary_every, at least 1 *)
  AliveControls, DeadControls,   (* CanaryConfig *)
  CheckpointEvery,  (* SweepConfig.checkpoint_every of a real run, 0 for none *)
  Crooked,          (* Resolvers that may lie about a swept domain *)
  Unreadable,       (* Domains CacheStore.get may fail for, which reads as a miss *)
  NoEntry,          (* No row for a domain *)
  NoTime,           (* first_dead_at is None *)
  MaxClock          (* bound on the time a sweep may start at *)

Resolvers == {"primary", "secondary"}
Domains == 1..NDomains
Verdicts == {"Alive", "Dead", "Unknown"}

ASSUME CorpusAssumption == NDomains \in Nat /\ Special \subseteq Domains
\* Cli.validate
ASSUME WindowAssumption == Ttl \in Nat /\ Quarantine \in Nat /\ Quarantine >= 2 * Ttl
ASSUME BatchAssumption == CanaryEvery \in Nat \ {0} /\ CheckpointEvery \in Nat
\* CanaryConfig::new
ASSUME ControlsAssumption == AliveControls # {} /\ DeadControls # {}
\* "Independently configured": they are not both crooked.
ASSUME CrookedAssumption == Crooked \subseteq Resolvers /\ Crooked # Resolvers
ASSUME UnreadableAssumption == Unreadable \subseteq Domains
ASSUME ClockAssumption == MaxClock \in Nat
ASSUME NoTimeAssumption == NoTime \notin Nat

Entries ==
  [last : Nat, verdict : Verdicts, first : Nat \cup {NoTime},
   by : SUBSET Resolvers, down : BOOLEAN, reads : 0..2]

ASSUME NoEntryAssumption == NoEntry \notin Entries

VARIABLES
  pc,         (* where run_sweep_streaming is; "idle" between runs *)
  clock,      (* the time the current or last sweep started at *)
  dry,        (* --dry-run: the cache is a copy in memory *)
  pos,        (* the next entry of the corpus *)
  batch,      (* due domains read and not yet looked up *)
  since,      (* since_checkpoint *)
  saved,      (* this sweep has written to the cache file *)
  pending,    (* CacheStore.pending, or what a dry run has changed in memory *)
  disk,       (* the redb file *)
  pruned,     (* SweepOutcome.pruned_domains of the last sweep that ended *)
  hijacked,   (* resolvers that answer anything at the moment *)
  lastDead    (* whether the latest read of a domain, kept or lost, was Dead *)

cacheVars == <<saved, pending, disk>>
sweepVars == <<pc, clock, dry, pos, batch, since, cacheVars, pruned, hijacked, lastDead>>

Places == {"idle", "canary1", "canary2", "fill", "check", "recheck1", "recheck2",
           "checkpoint", "final", "prune"}

Nothing == [d \in Domains |-> NoEntry]
Caches == [Domains -> Entries \cup {NoEntry}]

SweepTypeOK ==
  /\ pc \in Places
  /\ clock \in Nat
  /\ dry \in BOOLEAN
  /\ pos \in 1..(NDomains + 1)
  /\ batch \in SUBSET Domains
  /\ since \in Nat
  /\ saved \in BOOLEAN
  /\ pending \in Caches
  /\ disk \in Caches
  /\ pruned \in SUBSET Domains
  /\ hijacked \in SUBSET Resolvers
  /\ lastDead \in [Domains -> BOOLEAN]

SweepInit ==
  /\ pc = "idle"
  /\ clock = 0
  /\ dry = FALSE
  /\ pos = 1
  /\ batch = {}
  /\ since = 0
  /\ saved = FALSE
  /\ pending = Nothing
  /\ disk = Nothing
  /\ pruned = {}
  /\ hijacked = {}
  /\ lastDead = [d \in Domains |-> FALSE]

-----------------------------------------------------------------------------
(* The cache and the decisions over it *)

Known(d) == IF pending[d] # NoEntry THEN pending[d] ELSE disk[d]

\* CacheStore.get: pending first; a row that cannot be read counts as a miss.
Gets(d) ==
  IF pending[d] = NoEntry /\ ~dry /\ d \in Unreadable THEN {disk[d], NoEntry} ELSE {Known(d)}

\* saturating_sub
Since(t) == IF clock > t THEN clock - t ELSE 0

Due(e) == e = NoEntry \/ Since(e.last) >= Ttl

Corroborate(v1, v2) ==
  IF "Alive" \in {v1, v2} THEN "Alive"
  ELSE IF v1 = "Dead" /\ v2 = "Dead" THEN "Dead"
  ELSE "Unknown"

\* Seeded fault: the quarantine runs from the last read.
ShouldPruneAtOnce(d, e) ==
  d \notin Special /\ e # NoEntry /\ e.verdict = "Dead" /\ Since(e.last) <= Quarantine

\* should_prune_with_hysteresis, on the entry as this sweep left it.
ShouldPrune(d, e) ==
  /\ d \notin Special
  /\ e # NoEntry
  /\ e.verdict = "Dead"
  /\ e.first # NoTime
  /\ Since(e.first) >= Quarantine

-----------------------------------------------------------------------------
(* The canary *)

Controls == AliveControls \cup DeadControls

\* What a resolver may say of the controls, retries included. One that is hijacked
\* sinks, denies or drops whatever it is asked.
ControlAnswers(r) ==
  IF r \in hijacked
    THEN {[c \in Controls |-> same] : same \in Verdicts}
    ELSE {says \in [Controls -> Verdicts] :
            \A c \in Controls : says[c] \in HonestVerdicts[{c \in AliveControls}]}

\* canary_pass_async
CanaryPass(r) ==
  \E says \in ControlAnswers(r) :
    /\ \A c \in AliveControls : says[c] = "Alive"
    /\ \A c \in DeadControls : says[c] = "Dead"

-----------------------------------------------------------------------------
(* run_liveness and run_sweep_streaming *)

StartSweep ==
  /\ pc = "idle"
  /\ pc' = "canary1"
  /\ clock' \in clock..MaxClock
  /\ dry' \in BOOLEAN
  /\ pos' = 1 /\ batch' = {} /\ since' = 0 /\ saved' = FALSE /\ pruned' = {}
  /\ UNCHANGED <<pending, disk, hijacked, lastDead>>

\* canary_pass_both asks the primary first.
CanaryPrimary ==
  /\ pc \in {"canary1", "recheck1"}
  /\ CanaryPass("primary")
  /\ pc' = IF pc = "canary1" THEN "canary2" ELSE "recheck2"
  /\ UNCHANGED <<clock, dry, pos, batch, since, cacheVars, pruned, hijacked, lastDead>>

CheckpointDue == ~dry /\ CheckpointEvery > 0 /\ since >= CheckpointEvery

CanarySecondary ==
  /\ pc \in {"canary2", "recheck2"}
  /\ CanaryPass("secondary")
  /\ pc' = IF pc = "recheck2" /\ CheckpointDue THEN "checkpoint" ELSE "fill"
  /\ UNCHANGED <<clock, dry, pos, batch, since, cacheVars, pruned, hijacked, lastDead>>

Room == Cardinality(batch) < CanaryEvery /\ pos <= NDomains

ReadEntry ==
  /\ pc = "fill"
  /\ Room
  /\ \E e \in Gets(pos) : batch' = IF Due(e) THEN batch \cup {pos} ELSE batch
  /\ pos' = pos + 1
  /\ UNCHANGED <<pc, clock, dry, since, cacheVars, pruned, hijacked, lastDead>>

\* An empty batch means the corpus was read to its end.
BatchRead ==
  /\ pc = "fill"
  /\ ~Room
  /\ pc' = IF batch = {} THEN "final" ELSE "check"
  /\ UNCHANGED <<clock, dry, pos, batch, since, cacheVars, pruned, hijacked, lastDead>>

\* What check_async may make of a resolver's answers about a domain that is
\* registered or not, or first the one and then the other, as it is asked.
Answers(r, ups) ==
  IF r \in hijacked \cup Crooked THEN Verdicts ELSE HonestVerdicts[ups]

\* Seeded fault: an inconclusive look-up only renews the entry.
UpdatedKeepsDead(before, v, ups) ==
  LET again == before # NoEntry /\ before.first # NoTime
  IN IF v = "Unknown" /\ again
       THEN [before EXCEPT !.last = clock]
       ELSE [last |-> clock, verdict |-> v,
             first |-> IF v # "Dead" THEN NoTime ELSE IF again THEN before.first ELSE clock,
             by |-> hijacked, down |-> FALSE \in ups /\ (again => before.down),
             reads |-> IF v # "Dead" THEN 0 ELSE IF again THEN 2 ELSE 1]

\* The entry process_batch stores over the one it found.
Updated(before, v, ups) ==
  LET again == before # NoEntry /\ before.first # NoTime
  IN [last |-> clock,
      verdict |-> v,
      first |-> IF v # "Dead" THEN NoTime ELSE IF again THEN before.first ELSE clock,
      by |-> hijacked,
      down |-> FALSE \in ups /\ (again => before.down),
      reads |-> IF v # "Dead" THEN 0 ELSE IF again THEN 2 ELSE 1]

\* Seeded fault: the batch is trusted without a second look at the canary.
CheckDomainUnguarded(d) ==
  /\ pc = "check"
  /\ d \in batch
  /\ \E ups \in (SUBSET BOOLEAN) \ {{}} :
     \E v1 \in Answers("primary", ups), v2 \in Answers("secondary", ups), before \in Gets(d) :
        LET v == Corroborate(v1, v2)
        IN /\ pending' = [pending EXCEPT ![d] = Updated(before, v, ups)]
           /\ lastDead' = [lastDead EXCEPT ![d] = (v = "Dead")]
  /\ batch' = batch \ {d}
  /\ since' = since + 1
  /\ pc' = IF batch' = {} THEN "fill" ELSE "check"
  /\ UNCHANGED <<clock, dry, pos, saved, disk, pruned, hijacked>>

\* process_batch. The lookups end in any order; the cache is written from their
\* results and nothing reads it in between.
CheckDomain(d) ==
  /\ pc = "check"
  /\ d \in batch
  /\ \E ups \in (SUBSET BOOLEAN) \ {{}} :
     \E v1 \in Answers("primary", ups), v2 \in Answers("secondary", ups), before \in Gets(d) :
        LET v == Corroborate(v1, v2)
        IN /\ pending' = [pending EXCEPT ![d] = Updated(before, v, ups)]
           /\ lastDead' = [lastDead EXCEPT ![d] = (v = "Dead")]
  /\ batch' = batch \ {d}
  /\ since' = since + 1
  /\ pc' = IF batch' = {} THEN "recheck1" ELSE "check"
  /\ UNCHANGED <<clock, dry, pos, saved, disk, pruned, hijacked>>

\* CacheStore.flush: one transaction over everything pending.
Flush ==
  /\ pc \in {"checkpoint", "final"}
  /\ IF dry
       THEN UNCHANGED cacheVars
       ELSE /\ disk' = [d \in Domains |-> Known(d)]
            /\ pending' = Nothing
            /\ saved' = (saved \/ pending # Nothing)
  /\ since' = 0
  /\ pc' = IF pc = "checkpoint" THEN "fill" ELSE "prune"
  /\ UNCHANGED <<clock, dry, pos, batch, pruned, hijacked, lastDead>>

\* Every domain of the corpus is read again; one that cannot be read is kept.
Prune ==
  /\ pc = "prune"
  /\ \E unread \in SUBSET (IF dry THEN {} ELSE Unreadable) :
        pruned' = {d \in Domains \ unread : ShouldPrune(d, Known(d))}
  /\ pc' = "idle"
  /\ pending' = Nothing
  /\ UNCHANGED <<clock, dry, pos, batch, since, saved, disk, hijacked, lastDead>>

-----------------------------------------------------------------------------
(* The ends of a sweep that did not succeed *)

Ended ==
  /\ pc' = "idle"
  /\ pending' = Nothing
  /\ UNCHANGED <<clock, dry, pos, batch, since, saved, disk, pruned, hijacked, lastDead>>

\* A control was answered wrongly, or not at all at the last attempt.
CanaryFails == pc \in {"canary1", "canary2", "recheck1", "recheck2"} /\ Ended

\* The corpus file cannot be read, or the transaction fails.
SweepFails == pc \in {"fill", "prune", "checkpoint", "final"} /\ Ended

Crash == pc # "idle" /\ Ended

-----------------------------------------------------------------------------
(* The resolvers *)

Hijack(r) ==
  /\ r \notin hijacked
  /\ hijacked' = hijacked \cup {r}
  /\ UNCHANGED <<pc, clock, dry, pos, batch, since, cacheVars, pruned, lastDead>>

Heal ==
  /\ pc = "idle"
  /\ hijacked # {}
  /\ hijacked' = {}
  /\ UNCHANGED <<pc, clock, dry, pos, batch, since, cacheVars, pruned, lastDead>>

SweepNext ==
  \/ StartSweep \/ CanaryPrimary \/ CanarySecondary \/ ReadEntry \/ BatchRead
  \/ \E d \in Domains : CheckDomain(d)
  \/ Flush \/ Prune \/ CanaryFails \/ SweepFails \/ Crash
  \/ \E r \in Resolvers : Hijack(r)
  \/ Heal

SweepSpec == SweepInit /\ [][SweepNext]_sweepVars

-----------------------------------------------------------------------------
(* Properties *)

\* Whichever resolver is hijacked, and whenever in the sweep that happens, no
\* answer of that time reaches the cache file, and a verdict Dead on file rests
\* only on reads that found the domain unregistered (the canary after every
\* batch, flush at canary-validated boundaries only, corroborate).
DiskTrusted ==
  \A d \in Domains : disk[d] # NoEntry =>
    /\ disk[d].by = {}
    /\ disk[d].verdict = "Dead" => disk[d].down

\* The same of what is pruned, which for a dry run never was on disk.
PrunesTheDown == [][Prune => \A d \in pruned' : Known(d).by = {} /\ Known(d).down]_sweepVars

\* A domain leaves the build only after two sweeps read it Dead, however the
\* sweeps in between crashed, aborted or failed to read the cache: the time to
\* live runs out before the quarantine does (Cli.validate).
PrunesConfirmed ==
  [][(Prune /\ Quarantine > 0) => \A d \in pruned' : Known(d).reads = 2]_sweepVars

\* A domain is pruned only if the latest time anyone looked it up it was Dead,
\* even if that look-up was lost with its sweep: what was due then is due again.
PrunesOnLatestRead ==
  [][Prune => \A d \in pruned' \ Unreadable : lastDead[d]]_sweepVars

=============================================================================
