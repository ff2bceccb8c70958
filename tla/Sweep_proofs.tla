------------------------------ MODULE Sweep_proofs ------------------------------
(***************************************************************************)
(* Theorems about the liveness sweep, for every corpus, time to live,      *)
(* quarantine, batch and checkpoint size, and about DnsCheck, the look-ups *)
(* it stands on, for any number of names and any bound on the chain.       *)
(***************************************************************************)
EXTENDS Sweep, FiniteSetTheorems, TLAPS

-----------------------------------------------------------------------------
(* What a verdict of DnsCheck is worth when the resolver is honest. The      *)
(* argument is about the queried name alone: a denial without an alias at    *)
(* that name is a denial of it, and an unregistered name leads nowhere.      *)

LEMMA QueriedReached ==
  ASSUME NEW zone \in Zones
  PROVE Queried \in Reached(zone)
  BY DEF Reached, Names

LEMMA AloneReached ==
  ASSUME NEW zone \in Zones, zone[Queried] \notin Names
  PROVE Reached(zone) = {Queried}
  <1>1. {Queried} \in SUBSET Names
    BY DEF Names
  <1>2. \A n \in Reached(zone) : n \in {Queried}
    BY <1>1 DEF Reached
  <1> QED
    BY <1>2, QueriedReached

LEMMA AbsentIsNoName == "absent" \notin Names /\ ~Holds("absent", "A") /\ ~Holds("absent", "AAAA")
  BY TargetsAssumption DEF Data, Holds

\* An unregistered name has neither addresses nor an alias in the answer.
LEMMA AbsentAnswer ==
  ASSUME NEW zone \in Zones, NEW family \in Families, ~Registered(zone)
  PROVE Answer(zone, family).addr = {}
  <1>1. zone[Queried] = "absent"
    BY DEF Registered
  <1>2. Reached(zone) = {Queried}
    BY <1>1, AloneReached, AbsentIsNoName
  <1> QED
    BY <1>1, <1>2, AbsentIsNoName DEF Answer, Families

\* The message a query is answered with is one the resolver sent whole.
LEMMA TakenWhole ==
  ASSUME NEW zone \in Zones, NEW family \in Families,
         NEW udp \in Messages(zone, family) \cup Truncations(Answer(zone, family)),
         NEW tcp \in Messages(zone, family)
  PROVE Taken(udp, tcp) \in Messages(zone, family)
  <1>1. CASE udp.truncated
    BY <1>1 DEF Taken
  <1>2. CASE ~udp.truncated
    <2>1. ASSUME NEW m \in Truncations(Answer(zone, family)) PROVE m.truncated
      BY DEF Truncations
    <2> QED
      BY <1>2, <2>1 DEF Taken
  <1> QED
    BY <1>1, <1>2

\* A denial without an alias at the queried name is about the queried name.
LEMMA DenialIsTrue ==
  ASSUME NEW zone \in Zones, NEW family \in Families, NEW message \in Messages(zone, family),
         message.echo, Interpret(message) = "NxDomain"
  PROVE ~Registered(zone)
  <1>1. /\ message.rcode = "NXDomain"
        /\ ~message.flagged
        /\ ~ \E n \in Names : <<Queried, n>> \in message.cname
    BY DEF Interpret
  <1>2. message = Answer(zone, family)
    <2>1. ASSUME NEW rcode \in Failures PROVE Bare(rcode, TRUE, FALSE).rcode # "NXDomain"
      BY DEF Bare, Failures
    <2>2. Bare("NXDomain", TRUE, TRUE).flagged /\ ~Bare("NXDomain", FALSE, FALSE).echo
      BY DEF Bare
    <2> QED
      BY <1>1, <2>1, <2>2 DEF Messages
  <1>3. zone[Queried] \notin Names
    <2>1. SUFFICES ASSUME zone[Queried] \in Names PROVE FALSE
      OBVIOUS
    <2>2. Queried \in {m \in Reached(zone) : zone[m] \in Names}
      BY <2>1, QueriedReached
    <2>3. <<Queried, zone[Queried]>> \in Answer(zone, family).cname
      BY <2>2 DEF Answer
    <2> QED
      BY <1>1, <1>2, <2>1, <2>3
  <1>4. Reached(zone) = {Queried}
    BY <1>3, AloneReached
  <1>5. Rcode(zone) = "NXDomain"
    BY <1>1, <1>2 DEF Answer
  <1> QED
    BY <1>4, <1>5 DEF Rcode, Registered

LEMMA ArrivalIsTrue ==
  ASSUME NEW zone \in Zones, NEW family \in Families, NEW message \in Messages(zone, family),
         Interpret(message) = "Resolved"
  PROVE Registered(zone)
  <1>1. message.addr # {}
    BY DEF Interpret, Arrives
  <1>2. message = Answer(zone, family)
    BY <1>1 DEF Messages, Bare
  <1> QED
    BY <1>1, <1>2, AbsentAnswer

LEMMA LookupIsTrue ==
  ASSUME NEW zone \in Zones, NEW family \in Families, NEW result \in Lookup(zone, family)
  PROVE /\ result = "NxDomain" => ~Registered(zone)
        /\ result = "Resolved" => Registered(zone)
  <1>1. CASE result = "Unknown"
    BY <1>1
  <1>2. CASE result # "Unknown"
    <2>1. PICK udp \in Messages(zone, family) \cup Truncations(Answer(zone, family)),
               tcp \in Messages(zone, family) :
            result = IF Taken(udp, tcp).echo THEN Interpret(Taken(udp, tcp)) ELSE "Unknown"
      BY <1>2 DEF Lookup
    <2>2. Taken(udp, tcp).echo /\ result = Interpret(Taken(udp, tcp))
      BY <1>2, <2>1
    <2> QED
      BY <2>2, TakenWhole, DenialIsTrue, ArrivalIsTrue
  <1> QED
    BY <1>1, <1>2

LEMMA LookupsAreTrue ==
  ASSUME NEW up \in BOOLEAN, NEW family \in Families, NEW result \in LookupsWhile[up][family]
  PROVE /\ result = "NxDomain" => up = FALSE
        /\ result = "Resolved" => up = TRUE
  <1>1. PICK zone \in Zones : Registered(zone) = up /\ result \in Lookup(zone, family)
    BY DEF LookupsWhile
  <1>2. Registered(zone) \in BOOLEAN
    BY DEF Registered
  <1> QED
    BY <1>1, <1>2, LookupIsTrue

\* Whatever is lost, cut, retried or answered for another question, an honest
\* resolver makes check say Dead only of a domain that was unregistered when it
\* was asked, and Alive only of one that was registered.
THEOREM HonestIsTrue ==
  ASSUME NEW ups \in (SUBSET BOOLEAN) \ {{}}, NEW v \in HonestVerdicts[ups]
  PROVE /\ v \in {"Alive", "Dead", "Unknown"}
        /\ v = "Dead" => FALSE \in ups
        /\ v = "Alive" => TRUE \in ups
  <1>1. PICK u \in ups, w \in ups :
          v \in {Combine(a, aaaa) : a \in LookupsWhile[u]["A"], aaaa \in LookupsWhile[w]["AAAA"]}
    BY DEF HonestVerdicts
  <1>2. PICK a \in LookupsWhile[u]["A"], aaaa \in LookupsWhile[w]["AAAA"] : v = Combine(a, aaaa)
    BY <1>1
  <1>3. u \in BOOLEAN /\ w \in BOOLEAN /\ "A" \in Families /\ "AAAA" \in Families
    BY DEF Families
  <1>4. /\ a = "NxDomain" => u = FALSE
        /\ a = "Resolved" => u = TRUE
    BY <1>3, LookupsAreTrue
  <1>5. aaaa = "Resolved" => w = TRUE
    BY <1>3, LookupsAreTrue
  <1> QED
    BY <1>2, <1>4, <1>5 DEF Combine

-----------------------------------------------------------------------------
(* The sweep. The inductive invariant follows a verdict from the look-up to   *)
(* the file: what is pending names the resolvers hijacked when it was read, a *)
(* canary that passes clears one of them, and only cleared verdicts are       *)
(* flushed.                                                                  *)

USE CorpusAssumption, WindowAssumption, BatchAssumption, CrookedAssumption,
    UnreadableAssumption, ClockAssumption, NoTimeAssumption, NoEntryAssumption

\* Places at which nothing pending can come from a hijacked resolver.
Cleared == {"idle", "canary1", "canary2", "fill", "checkpoint", "final", "prune"}

\* A run of Dead reads and its start are recorded together, one read spans no
\* time, and with no hijack a Dead verdict is the truth.
Shaped(e) ==
  /\ e.last <= clock
  /\ (e.verdict = "Dead") <=> (e.first # NoTime)
  /\ e.verdict = "Dead" =>
       /\ e.first <= e.last
       /\ e.reads \in {1, 2}
       /\ e.reads = 1 => e.first = e.last
       /\ e.by = {} => e.down

DiskShaped == \A d \in Domains : disk[d] # NoEntry => Shaped(disk[d]) /\ disk[d].by = {}

PendingShaped ==
  \A d \in Domains : pending[d] # NoEntry =>
    /\ Shaped(pending[d])
    /\ pending[d].by \subseteq hijacked
    /\ pc \in Cleared => pending[d].by = {}
    /\ pc = "recheck2" => "primary" \notin pending[d].by

\* Where in a sweep entries can be pending at all, and what the end of the loop means.
Located ==
  /\ pc \in {"idle", "canary1", "canary2"} => pending = Nothing
  /\ pc \in {"canary1", "canary2"} => pos = 1 /\ batch = {}
  /\ pc \in {"final", "prune"} => pos > NDomains /\ batch = {}
  /\ pc # "idle" =>
       /\ \A d \in batch : d < pos
       /\ \A d \in Domains : pending[d] # NoEntry => d < pos /\ d \notin batch

\* Every entry the loop has passed was looked up in this sweep or was not due.
Settled ==
  pc # "idle" => \A d \in Domains : (d < pos /\ d \notin batch) =>
    /\ Known(d) # NoEntry
    /\ Known(d).last = clock \/ ~Due(Known(d))

Inv ==
  /\ SweepTypeOK
  /\ DiskShaped
  /\ PendingShaped
  /\ Located
  /\ Settled

-----------------------------------------------------------------------------

\* What the cache yields is an entry of it, or nothing.
LEMMA GetsKnown ==
  ASSUME SweepTypeOK, NEW d \in Domains, NEW e \in Gets(d)
  PROVE /\ e \in Entries \cup {NoEntry}
        /\ e # NoEntry => e = Known(d)
        /\ d \notin Unreadable => e = Known(d)
  BY DEF SweepTypeOK, Gets, Known, Caches

\* The entry written after a look-up is well formed, given the one before was.
LEMMA UpdatedShaped ==
  ASSUME SweepTypeOK, NEW before \in Entries \cup {NoEntry}, NEW v \in Verdicts, NEW ups \in (SUBSET BOOLEAN) \ {{}},
         before # NoEntry => Shaped(before) /\ before.by \subseteq hijacked,
         hijacked = {} /\ v = "Dead" => FALSE \in ups
  PROVE /\ Updated(before, v, ups) \in Entries
        /\ Shaped(Updated(before, v, ups))
        /\ Updated(before, v, ups).last = clock
        /\ Updated(before, v, ups).by = hijacked
        /\ Updated(before, v, ups).verdict = v
  <1> DEFINE e == Updated(before, v, ups)
             again == before # NoEntry /\ before.first # NoTime
  <1>1. again => before \in Entries /\ before.first \in Nat /\ before.verdict = "Dead"
                 /\ before.first <= before.last /\ before.last <= clock
                 /\ before.last \in Nat
    BY DEF Entries, Shaped
  <1>2. /\ e.last = clock /\ e.verdict = v /\ e.by = hijacked
        /\ e.first = (IF v # "Dead" THEN NoTime ELSE IF again THEN before.first ELSE clock)
        /\ e.down = (FALSE \in ups /\ (again => before.down))
        /\ e.reads = (IF v # "Dead" THEN 0 ELSE IF again THEN 2 ELSE 1)
    BY DEF Updated
  <1>3. e \in Entries
    <2>1. again => before.down \in BOOLEAN
      BY <1>1 DEF Entries
    <2>2. (FALSE \in ups /\ (again => before.down)) \in BOOLEAN
      OBVIOUS
    <2>3. clock \in Nat /\ hijacked \in SUBSET Resolvers
      BY DEF SweepTypeOK
    <2> QED
      BY <1>1, <2>2, <2>3 DEF Updated, Entries
  <1>4. Shaped(e)
    <2>1. e.last <= clock
      BY <1>2 DEF SweepTypeOK
    <2>2. (e.verdict = "Dead") <=> (e.first # NoTime)
      BY <1>1, <1>2 DEF SweepTypeOK
    <2>3. ASSUME e.verdict = "Dead" PROVE e.first <= e.last
      BY <1>1, <1>2, <2>3 DEF SweepTypeOK
    <2>4. ASSUME e.verdict = "Dead" PROVE e.reads \in {1, 2} /\ (e.reads = 1 => e.first = e.last)
      BY <1>2, <2>4
    <2>5. ASSUME e.verdict = "Dead", e.by = {} PROVE e.down
      <3>1. hijacked = {} /\ FALSE \in ups
        BY <1>2, <2>5
      <3>2. again => before.down
        BY <1>1, <3>1 DEF Shaped
      <3> QED
        BY <1>2, <3>1, <3>2
    <2> QED
      BY <2>1, <2>2, <2>3, <2>4, <2>5 DEF Shaped
  <1> QED
    BY <1>2, <1>3, <1>4

\* With no resolver hijacked and one of them straight, both call a domain Dead
\* only if it is.
LEMMA HonestDead ==
  ASSUME SweepTypeOK, NEW ups \in (SUBSET BOOLEAN) \ {{}}, hijacked = {},
         NEW v1 \in Answers("primary", ups), NEW v2 \in Answers("secondary", ups),
         Corroborate(v1, v2) = "Dead"
  PROVE FALSE \in ups
  <1>1. v1 = "Dead" /\ v2 = "Dead"
    BY DEF Corroborate
  <1>2. "primary" \notin Crooked \/ "secondary" \notin Crooked
    BY DEF Resolvers
  <1> QED
    BY <1>1, <1>2, HonestIsTrue DEF Answers

LEMMA VerdictType ==
  ASSUME NEW ups \in (SUBSET BOOLEAN) \ {{}}, NEW v1 \in Answers("primary", ups),
         NEW v2 \in Answers("secondary", ups)
  PROVE Corroborate(v1, v2) \in Verdicts
  BY DEF Corroborate, Verdicts

-----------------------------------------------------------------------------

LEMMA InitInv == SweepInit => Inv
  <1> SUFFICES ASSUME SweepInit PROVE Inv
    OBVIOUS
  <1>1. pending = Nothing /\ disk = Nothing /\ pc = "idle"
    BY DEF SweepInit
  <1>2. SweepTypeOK
    <2>1. Nothing \in Caches
      BY DEF Nothing, Caches
    <2>2. lastDead \in [Domains -> BOOLEAN]
      BY DEF SweepInit
    <2>3. pos \in 1..(NDomains + 1) /\ clock \in Nat /\ since \in Nat
      BY DEF SweepInit
    <2> QED
      BY <1>1, <2>1, <2>2, <2>3 DEF SweepInit, SweepTypeOK, Places
  <1>3. DiskShaped /\ PendingShaped
    BY <1>1 DEF DiskShaped, PendingShaped, Nothing
  <1>4. Located /\ Settled
    BY <1>1 DEF Located, Settled
  <1> QED
    BY <1>2, <1>3, <1>4 DEF Inv

\* A sweep ends, or has not begun: nothing is pending.
LEMMA EndedInv ==
  ASSUME Inv, pc' = "idle", pending' = Nothing, pruned' \in SUBSET Domains,
         UNCHANGED <<clock, dry, pos, batch, since, saved, disk, hijacked, lastDead>>
  PROVE Inv'
  BY DEF Inv, SweepTypeOK, DiskShaped, PendingShaped, Located, Settled, Nothing, Places,
         Caches, Shaped

LEMMA StartInv == ASSUME Inv, StartSweep PROVE Inv'
  <1>1. clock \in Nat /\ clock' \in Nat /\ clock <= clock'
    BY DEF Inv, SweepTypeOK, StartSweep
  <1>2. SweepTypeOK'
    <2>1. pos' \in 1..(NDomains + 1) /\ since' \in Nat
      BY DEF StartSweep
    <2>2. batch' \in SUBSET Domains /\ pruned' \in SUBSET Domains /\ saved' \in BOOLEAN
      BY DEF StartSweep
    <2> QED
      BY <1>1, <2>1, <2>2 DEF Inv, SweepTypeOK, StartSweep, Places
  <1>3. pending = Nothing /\ pending' = Nothing /\ disk' = disk
    BY DEF Inv, Located, StartSweep
  <1>4. DiskShaped'
    <2> SUFFICES ASSUME NEW d \in Domains, disk[d] # NoEntry
                 PROVE Shaped(disk[d])' /\ disk[d].by = {}
      BY <1>3 DEF DiskShaped, Shaped
    <2>1. disk[d] \in Entries /\ Shaped(disk[d]) /\ disk[d].by = {}
      BY DEF Inv, DiskShaped, SweepTypeOK, Caches
    <2>2. disk[d].last \in Nat
      BY <2>1 DEF Entries
    <2>3. disk[d].last <= clock'
      BY <1>1, <2>1, <2>2 DEF Shaped
    <2> QED
      BY <1>3, <2>1, <2>3 DEF Shaped
  <1>5. PendingShaped' /\ Located'
    BY <1>3 DEF PendingShaped, Located, Nothing, StartSweep, Domains
  <1>6. Settled'
    BY <1>3 DEF Settled, StartSweep, Domains
  <1> QED
    BY <1>2, <1>4, <1>5, <1>6 DEF Inv

\* The canary steps and the end of a batch move the sweep on and nothing else.
LEMMA MoveInv ==
  ASSUME Inv, pc # "idle", pc' \in Places \ {"idle"},
         UNCHANGED <<clock, dry, pos, batch, since, cacheVars, pruned, hijacked, lastDead>>,
         PendingShaped', Located'
  PROVE Inv'
  BY DEF Inv, SweepTypeOK, DiskShaped, Settled, Shaped, Known, Due, Since, cacheVars

\* A resolver that makes the same of every name fails one list of controls or the other.
LEMMA CanaryCatches == ASSUME NEW r, CanaryPass(r) PROVE r \notin hijacked
<1> SUFFICES ASSUME r \in hijacked PROVE FALSE
  OBVIOUS
<1>0. PICK says \in ControlAnswers(r) :
        /\ \A c \in AliveControls : says[c] = "Alive"
        /\ \A c \in DeadControls : says[c] = "Dead"
  BY DEF CanaryPass
<1>1. PICK same \in Verdicts : says = [c \in Controls |-> same]
  BY <1>0 DEF ControlAnswers
<1>2. PICK a \in AliveControls, d \in DeadControls : TRUE
  BY ControlsAssumption
<1>3. same = "Alive" /\ same = "Dead"
  BY <1>0, <1>1, <1>2 DEF Controls
<1> QED
  BY <1>3

LEMMA CanaryPrimaryInv == ASSUME Inv, CanaryPrimary PROVE Inv'
  <1>1. PendingShaped'
    BY CanaryCatches DEF Inv, PendingShaped, CanaryPrimary, cacheVars, Cleared, Shaped
  <1>2. Located'
    BY DEF Inv, Located, CanaryPrimary, cacheVars
  <1> QED
    BY <1>1, <1>2, MoveInv DEF CanaryPrimary, Places

LEMMA CanarySecondaryInv == ASSUME Inv, CanarySecondary PROVE Inv'
  <1>1. PendingShaped'
    <2>1. CASE pc = "canary2"
      BY <2>1 DEF Inv, PendingShaped, Located, Nothing, CanarySecondary, cacheVars
    <2>2. CASE pc = "recheck2"
      <3>1. \A d \in Domains : pending[d] # NoEntry => pending[d].by = {}
        BY <2>2, CanaryCatches DEF Inv, PendingShaped, SweepTypeOK, CanarySecondary, Resolvers
      <3> QED
        BY <2>2, <3>1 DEF Inv, PendingShaped, CanarySecondary, cacheVars, Shaped, Cleared
    <2> QED
      BY <2>1, <2>2 DEF CanarySecondary
  <1>2. Located'
    BY DEF Inv, Located, CanarySecondary, cacheVars
  <1> QED
    BY <1>1, <1>2, MoveInv DEF CanarySecondary, Places

LEMMA BatchReadInv == ASSUME Inv, BatchRead PROVE Inv'
  <1>1. PendingShaped'
    BY DEF Inv, PendingShaped, BatchRead, cacheVars, Shaped, Cleared
  <1>2. batch = {} => pos > NDomains
    BY FS_EmptySet DEF BatchRead, Room, Inv, SweepTypeOK
  <1>3. Located'
    BY <1>2 DEF Inv, Located, BatchRead, cacheVars
  <1> QED
    BY <1>1, <1>3, MoveInv DEF BatchRead, Places

LEMMA ReadEntryInv == ASSUME Inv, ReadEntry PROVE Inv'
  <1>1. pos \in Domains /\ pos' = pos + 1
    BY DEF Inv, SweepTypeOK, ReadEntry, Room, Domains
  <1>2. PICK e \in Gets(pos) : batch' = IF Due(e) THEN batch \cup {pos} ELSE batch
    BY DEF ReadEntry
  <1>3. SweepTypeOK'
    BY <1>1, <1>2 DEF Inv, SweepTypeOK, ReadEntry, Domains, cacheVars
  <1>4. DiskShaped' /\ PendingShaped'
    BY DEF Inv, DiskShaped, PendingShaped, ReadEntry, cacheVars, Shaped
  <1>5. Located'
    BY <1>1, <1>2 DEF Inv, SweepTypeOK, Located, ReadEntry, cacheVars, Domains
  <1>6. Settled'
    <2> SUFFICES ASSUME NEW d \in Domains, d < pos', d \notin batch'
                 PROVE Known(d) # NoEntry /\ (Known(d).last = clock \/ ~Due(Known(d)))
      BY DEF Settled, ReadEntry, cacheVars, Known, Due, Since
    <2>1. CASE d = pos
      <3>1. ~Due(e) /\ e # NoEntry
        BY <1>2, <2>1 DEF Due
      <3>2. e = Known(d)
        BY <1>1, <2>1, <3>1, GetsKnown DEF Inv
      <3> QED
        BY <3>1, <3>2
    <2>2. CASE d # pos
      <3>1. d < pos /\ d \notin batch
        BY <1>1, <1>2, <2>2 DEF Domains
      <3> QED
        BY <3>1 DEF Inv, Settled, ReadEntry
    <2> QED
      BY <2>1, <2>2
  <1> QED
    BY <1>3, <1>4, <1>5, <1>6 DEF Inv

LEMMA FlushInv == ASSUME Inv, Flush PROVE Inv'
  <1>1. \A d \in Domains : Known(d)' = Known(d)
    BY DEF Flush, Known, Nothing, cacheVars, Inv, SweepTypeOK, Caches
  <1>2. \A d \in Domains : Known(d) \in Entries \cup {NoEntry}
    BY DEF Known, Inv, SweepTypeOK, Caches
  <1>3. SweepTypeOK'
    <2>1. disk' \in Caches /\ pending' \in Caches /\ saved' \in BOOLEAN
      <3>1. CASE dry
        BY <3>1 DEF Inv, SweepTypeOK, Flush, cacheVars
      <3>2. CASE ~dry
        BY <1>2, <3>2 DEF Inv, SweepTypeOK, Flush, Nothing, Caches
      <3> QED
        BY <3>1, <3>2
    <2>2. since' \in Nat /\ pc' \in Places
      BY DEF Flush, Places
    <2> QED
      BY <2>1, <2>2 DEF Inv, SweepTypeOK, Flush
  <1>4. \A d \in Domains : Known(d) # NoEntry => Shaped(Known(d)) /\ Known(d).by = {}
    BY DEF Inv, DiskShaped, PendingShaped, Flush, Known, Cleared
  <1>5. DiskShaped'
    <2>1. CASE dry
      BY <2>1 DEF Inv, DiskShaped, Flush, cacheVars, Shaped
    <2>2. CASE ~dry
      BY <1>4, <2>2 DEF DiskShaped, Flush, Shaped
    <2> QED
      BY <2>1, <2>2
  <1>6. PendingShaped'
    <2>1. CASE dry
      BY <2>1 DEF Inv, PendingShaped, Flush, cacheVars, Shaped, Cleared
    <2>2. CASE ~dry
      BY <2>2 DEF PendingShaped, Flush, Nothing
    <2> QED
      BY <2>1, <2>2
  <1>7. Located'
    BY DEF Inv, Located, Flush, cacheVars, Nothing
  <1>8. Settled'
    BY <1>1 DEF Inv, Settled, Flush, Due, Since
  <1> QED
    BY <1>3, <1>5, <1>6, <1>7, <1>8 DEF Inv

LEMMA CheckDomainInv == ASSUME Inv, NEW d \in Domains, CheckDomain(d) PROVE Inv'
  <1>0. PICK ups \in (SUBSET BOOLEAN) \ {{}} :
          \E v1 \in Answers("primary", ups), v2 \in Answers("secondary", ups), before \in Gets(d) :
            /\ pending' = [pending EXCEPT ![d] = Updated(before, Corroborate(v1, v2), ups)]
            /\ lastDead' = [lastDead EXCEPT ![d] = (Corroborate(v1, v2) = "Dead")]
    BY DEF CheckDomain
  <1>1. PICK v1 \in Answers("primary", ups), v2 \in Answers("secondary", ups), before \in Gets(d) :
          /\ pending' = [pending EXCEPT ![d] = Updated(before, Corroborate(v1, v2), ups)]
          /\ lastDead' = [lastDead EXCEPT ![d] = (Corroborate(v1, v2) = "Dead")]
    BY <1>0
  <1> DEFINE new == Updated(before, Corroborate(v1, v2), ups)
  <1>2. before \in Entries \cup {NoEntry} /\ (before # NoEntry => before = Known(d))
    BY GetsKnown DEF Inv
  <1>3. before # NoEntry => Shaped(before) /\ before.by \subseteq hijacked
    BY <1>2 DEF Inv, DiskShaped, PendingShaped, Known
  <1>4. /\ new \in Entries
        /\ Shaped(new)
        /\ new.last = clock
        /\ new.by = hijacked
    <2>1. Corroborate(v1, v2) \in Verdicts
      BY VerdictType
    <2>2. hijacked = {} /\ Corroborate(v1, v2) = "Dead" => FALSE \in ups
      BY HonestDead DEF Inv
    <2> QED
      BY <1>2, <1>3, <2>1, <2>2, UpdatedShaped DEF Inv
  <1>5. /\ \A x \in Domains : pending'[x] = IF x = d THEN new ELSE pending[x]
        /\ disk' = disk /\ clock' = clock /\ hijacked' = hijacked /\ pos' = pos
        /\ batch' = batch \ {d} /\ pc' \in {"recheck1", "check"} /\ pc = "check"
    BY <1>1 DEF CheckDomain, Inv, SweepTypeOK, Caches
  <1>6. SweepTypeOK'
    <2>1. pending' \in Caches
      BY <1>1, <1>4 DEF Inv, SweepTypeOK, Caches
    <2>2. lastDead' \in [Domains -> BOOLEAN]
      BY <1>1 DEF Inv, SweepTypeOK
    <2> QED
      BY <2>1, <2>2 DEF Inv, SweepTypeOK, CheckDomain, Places
  <1>7. DiskShaped'
    BY <1>5 DEF Inv, DiskShaped, Shaped
  <1>8. PendingShaped'
    <2> SUFFICES ASSUME NEW x \in Domains, pending'[x] # NoEntry
                 PROVE Shaped(pending[x])' /\ pending'[x].by \subseteq hijacked
      BY <1>5 DEF PendingShaped, Cleared, Shaped
    <2>1. CASE x = d
      BY <1>4, <1>5, <2>1 DEF Shaped
    <2>2. CASE x # d
      BY <1>5, <2>2 DEF Inv, PendingShaped, Shaped
    <2> QED
      BY <2>1, <2>2
  <1>9. Located'
    BY <1>4, <1>5 DEF Inv, Located, CheckDomain
  <1>10. Settled'
    <2> SUFFICES ASSUME NEW x \in Domains, x < pos, x \notin batch'
                 PROVE Known(x)' # NoEntry /\ (Known(x)'.last = clock \/ ~Due(Known(x)'))
      BY <1>5 DEF Settled, Due, Since
    <2>1. CASE x = d
      BY <1>4, <1>5, <2>1 DEF Known
    <2>2. CASE x # d
      <3>1. Known(x)' = Known(x)
        BY <1>5, <2>2 DEF Known
      <3> QED
        BY <1>5, <2>2, <3>1 DEF Inv, Settled
    <2> QED
      BY <2>1, <2>2
  <1> QED
    BY <1>6, <1>7, <1>8, <1>9, <1>10 DEF Inv

LEMMA HijackInv == ASSUME Inv, (\E r \in Resolvers : Hijack(r)) \/ Heal PROVE Inv'
  <1>1. /\ hijacked' \in SUBSET Resolvers
        /\ UNCHANGED <<pc, clock, dry, pos, batch, since, cacheVars, pruned, lastDead>>
        /\ hijacked \subseteq hijacked' \/ pc = "idle"
    BY DEF Hijack, Heal, Inv, SweepTypeOK
  <1>2. SweepTypeOK' /\ DiskShaped' /\ Located' /\ Settled'
    BY <1>1 DEF Inv, SweepTypeOK, DiskShaped, Located, Settled, Shaped, Known, Due, Since, cacheVars
  <1>3. PendingShaped'
    <2>1. CASE pc = "idle"
      BY <1>1, <2>1 DEF Inv, Located, PendingShaped, Nothing, cacheVars
    <2>2. CASE hijacked \subseteq hijacked'
      BY <1>1, <2>2 DEF Inv, PendingShaped, Shaped, cacheVars
    <2> QED
      BY <1>1, <2>1, <2>2
  <1> QED
    BY <1>2, <1>3 DEF Inv

LEMMA PruneInv == ASSUME Inv, Prune PROVE Inv'
  BY EndedInv DEF Prune

LEMMA AbandonInv == ASSUME Inv, CanaryFails \/ SweepFails \/ Crash PROVE Inv'
  <1>1. Ended
    BY DEF CanaryFails, SweepFails, Crash
  <1> QED
    BY <1>1, EndedInv DEF Ended, Inv, SweepTypeOK

LEMMA NextInv == ASSUME Inv, [SweepNext]_sweepVars PROVE Inv'
  <1>1. CASE UNCHANGED sweepVars
    BY <1>1 DEF sweepVars, cacheVars, Inv, SweepTypeOK, DiskShaped, PendingShaped, Located, Settled,
                Shaped, Known, Due, Since
  <1>2. CASE SweepNext
    BY <1>2, StartInv, CanaryPrimaryInv, CanarySecondaryInv, ReadEntryInv, BatchReadInv,
       CheckDomainInv, FlushInv, PruneInv, AbandonInv, HijackInv DEF SweepNext
  <1> QED
    BY <1>1, <1>2

THEOREM SpecInv == SweepSpec => []Inv
  BY InitInv, NextInv, PTL DEF SweepSpec

\* The state of the sweep keeps its type (run_sweep_streaming, CacheStore).
THEOREM TypeCorrect == SweepSpec => []SweepTypeOK
  <1>1. Inv => SweepTypeOK
    BY DEF Inv
  <1> QED
    BY <1>1, SpecInv, PTL

\* However large the batches and the checkpoint interval are, no answer given
\* under a hijack is ever on file (the canary, corroborate and the flush).
THEOREM OnlyTrustedOnDisk == SweepSpec => []DiskTrusted
  <1>1. Inv => DiskTrusted
    BY DEF Inv, DiskShaped, DiskTrusted, Shaped
  <1> QED
    BY <1>1, SpecInv, PTL

\* What Prune takes out has been settled by this sweep and is trusted.
LEMMA PrunedSettled ==
  ASSUME Inv, Prune, NEW d \in pruned'
  PROVE /\ d \in Domains /\ Known(d) \in Entries /\ ShouldPrune(d, Known(d))
        /\ Shaped(Known(d)) /\ Known(d).by = {}
        /\ Known(d).last = clock \/ ~Due(Known(d))
  <1>1. d \in Domains /\ ShouldPrune(d, Known(d))
    BY DEF Prune
  <1>2. Known(d) \in Entries
    BY <1>1 DEF Known, Inv, SweepTypeOK, Caches, ShouldPrune
  <1>3. Shaped(Known(d)) /\ Known(d).by = {}
    BY <1>1, <1>2 DEF Inv, DiskShaped, PendingShaped, Known, Cleared, Prune, ShouldPrune
  <1>4. d < pos /\ d \notin batch
    BY <1>1 DEF Inv, SweepTypeOK, Located, Prune, Domains
  <1> QED
    BY <1>1, <1>2, <1>3, <1>4 DEF Inv, Settled, Prune

\* A domain is pruned only on reads that found it unregistered, by resolvers
\* that were not hijacked.
THEOREM PrunedAreDown == SweepSpec => PrunesTheDown
  <1>1. ASSUME Inv, Prune, NEW d \in pruned' PROVE Known(d).by = {} /\ Known(d).down
    BY <1>1, PrunedSettled DEF Shaped, ShouldPrune
  <1>2. Inv /\ [SweepNext]_sweepVars =>
          [Prune => \A d \in pruned' : Known(d).by = {} /\ Known(d).down]_sweepVars
    BY <1>1
  <1> QED
    BY <1>2, SpecInv, PTL DEF SweepSpec, PrunesTheDown

\* With the quarantine Cli.validate asks for, one Dead read never prunes.
THEOREM PrunedAreConfirmed == SweepSpec => PrunesConfirmed
  <1>1. ASSUME Inv, Prune, Quarantine > 0, NEW d \in pruned' PROVE Known(d).reads = 2
    <2> DEFINE e == Known(d)
    <2>1. /\ e \in Entries /\ Shaped(e) /\ ShouldPrune(d, e)
          /\ e.last = clock \/ ~Due(e)
      BY <1>1, PrunedSettled
    <2>2. /\ e.last \in Nat /\ e.first \in Nat /\ clock \in Nat
          /\ e.reads \in {1, 2} /\ (e.reads = 1 => e.first = e.last)
          /\ Since(e.first) >= Quarantine
          /\ e.last <= clock
      BY <1>1, <2>1 DEF Entries, Shaped, ShouldPrune, Inv, SweepTypeOK
    <2>3. SUFFICES ASSUME e.first = e.last PROVE FALSE
      BY <2>2
    <2>4. Since(e.last) = clock - e.last
      BY <2>2 DEF Since
    <2>5. clock - e.last >= Quarantine
      BY <2>2, <2>3, <2>4
    <2>6. e.last # clock
      BY <1>1, <2>2, <2>5
    <2>7. clock - e.last < Ttl
      BY <2>1, <2>2, <2>4, <2>6 DEF Due
    <2> QED
      BY <2>2, <2>5, <2>7
  <1>2. Inv /\ [SweepNext]_sweepVars =>
          [(Prune /\ Quarantine > 0) => \A d \in pruned' : Known(d).reads = 2]_sweepVars
    BY <1>1
  <1> QED
    BY <1>2, SpecInv, PTL DEF SweepSpec, PrunesConfirmed

-----------------------------------------------------------------------------
(* Lost look-ups. Of a domain the cache can be read for, the file disagrees   *)
(* with the latest look-up only if the entry is due again.                  *)

Readable == Domains \ Unreadable

USE DEF Readable

Latest == \A d \in Readable : Due(disk[d]) \/ (lastDead[d] <=> disk[d].verdict = "Dead")

BatchDue == pc # "idle" => \A d \in batch \ Unreadable : Due(disk[d])

SettledAgree ==
  pc # "idle" => \A d \in Readable : (d < pos /\ d \notin batch) =>
    (lastDead[d] <=> Known(d).verdict = "Dead")

LatestInv == Latest /\ BatchDue /\ SettledAgree

LEMMA LatestInit == SweepInit => LatestInv
  BY DEF SweepInit, LatestInv, Latest, BatchDue, SettledAgree, Due, Nothing

\* An entry that was due stays due when time passes.
LEMMA DueLater ==
  ASSUME Inv, clock' \in Nat, clock <= clock', NEW d \in Domains, Due(disk[d]), disk' = disk
  PROVE Due(disk[d])'
  <1>1. CASE disk[d] = NoEntry
    BY <1>1 DEF Due
  <1>2. CASE disk[d] # NoEntry
    <2>1. disk[d].last \in Nat /\ clock \in Nat
      BY <1>2 DEF Inv, SweepTypeOK, Caches, Entries
    <2> QED
      BY <1>2, <2>1 DEF Due, Since
  <1> QED
    BY <1>1, <1>2

LEMMA LatestStart == ASSUME Inv, LatestInv, StartSweep PROVE LatestInv'
  <1>1. clock \in Nat /\ clock' \in Nat /\ clock <= clock' /\ disk' = disk /\ lastDead' = lastDead
    BY DEF Inv, SweepTypeOK, StartSweep
  <1>2. Latest'
    <2> SUFFICES ASSUME NEW d \in Readable
                 PROVE Due(disk[d])' \/ (lastDead[d] <=> disk[d].verdict = "Dead")
      BY <1>1 DEF Latest
    <2> QED
      BY <1>1, DueLater DEF LatestInv, Latest
  <1>3. BatchDue' /\ SettledAgree'
    BY DEF BatchDue, SettledAgree, StartSweep, Domains
  <1> QED
    BY <1>2, <1>3 DEF LatestInv

LEMMA LatestReadEntry ==
  ASSUME Inv, LatestInv, ReadEntry PROVE LatestInv'
  <1>1. pos \in Domains /\ pos' = pos + 1 /\ pc = "fill" /\ pc' = pc /\ disk' = disk
        /\ lastDead' = lastDead /\ clock' = clock /\ pending' = pending
    BY DEF Inv, SweepTypeOK, ReadEntry, Room, Domains, cacheVars
  <1>2. /\ batch \subseteq batch' /\ batch' \subseteq batch \cup {pos}
        /\ pos \in Readable => batch' = IF Due(Known(pos)) THEN batch \cup {pos} ELSE batch
    BY <1>1, GetsKnown DEF ReadEntry, Inv, Readable
  <1>3. Known(pos) = disk[pos]
    BY <1>1 DEF Inv, SweepTypeOK, Located, Known, Domains
  <1>4. Latest'
    BY <1>1 DEF LatestInv, Latest, Due, Since
  <1>5. BatchDue'
    BY <1>1, <1>2, <1>3 DEF LatestInv, BatchDue, Due, Since
  <1>6. SettledAgree'
    <2> SUFFICES ASSUME NEW d \in Readable, d < pos', d \notin batch'
                 PROVE lastDead[d] <=> Known(d).verdict = "Dead"
      BY <1>1 DEF SettledAgree, Known
    <2>1. CASE d = pos
      BY <1>1, <1>2, <1>3, <2>1 DEF LatestInv, Latest
    <2>2. CASE d # pos
      <3>1. d < pos /\ d \notin batch
        BY <1>1, <1>2, <2>2 DEF Domains
      <3> QED
        BY <1>1, <3>1 DEF LatestInv, SettledAgree
    <2> QED
      BY <2>1, <2>2
  <1> QED
    BY <1>4, <1>5, <1>6 DEF LatestInv

LEMMA LatestCheckDomain ==
  ASSUME Inv, LatestInv, NEW d \in Domains, CheckDomain(d) PROVE LatestInv'
  <1>1. PICK ups \in (SUBSET BOOLEAN) \ {{}} :
          \E v1 \in Answers("primary", ups), v2 \in Answers("secondary", ups), before \in Gets(d) :
            /\ pending' = [pending EXCEPT ![d] = Updated(before, Corroborate(v1, v2), ups)]
            /\ lastDead' = [lastDead EXCEPT ![d] = (Corroborate(v1, v2) = "Dead")]
    BY DEF CheckDomain
  <1>2. PICK v1 \in Answers("primary", ups), v2 \in Answers("secondary", ups), before \in Gets(d) :
          /\ pending' = [pending EXCEPT ![d] = Updated(before, Corroborate(v1, v2), ups)]
          /\ lastDead' = [lastDead EXCEPT ![d] = (Corroborate(v1, v2) = "Dead")]
    BY <1>1
  <1> DEFINE v == Corroborate(v1, v2)
             new == Updated(before, v, ups)
  <1>3. new \in Entries /\ new.verdict = v
    <2>1. before \in Entries \cup {NoEntry} /\ (before # NoEntry => before = Known(d))
      BY GetsKnown DEF Inv
    <2>2. before # NoEntry => Shaped(before) /\ before.by \subseteq hijacked
      BY <2>1 DEF Inv, DiskShaped, PendingShaped, Known
    <2>3. v \in Verdicts
      BY VerdictType
    <2>4. hijacked = {} /\ v = "Dead" => FALSE \in ups
      BY HonestDead DEF Inv
    <2> QED
      BY <2>1, <2>2, <2>3, <2>4, UpdatedShaped DEF Inv
  <1>4. /\ pending' \in [Domains -> Entries \cup {NoEntry}]
        /\ \A x \in Domains : pending'[x] = IF x = d THEN new ELSE pending[x]
        /\ \A x \in Domains : lastDead'[x] = IF x = d THEN v = "Dead" ELSE lastDead[x]
        /\ disk' = disk /\ clock' = clock /\ pos' = pos /\ batch' = batch \ {d}
        /\ pc = "check" /\ d \in batch
    BY <1>2, <1>3 DEF CheckDomain, Inv, SweepTypeOK, Caches
  <1>5. Latest'
    <2> SUFFICES ASSUME NEW x \in Readable
                 PROVE Due(disk[x]) \/ (lastDead'[x] <=> disk[x].verdict = "Dead")
      BY <1>4 DEF Latest, Due, Since
    <2>1. CASE x = d
      BY <1>4, <2>1 DEF LatestInv, BatchDue
    <2>2. CASE x # d
      <3>1. lastDead'[x] = lastDead[x]
        BY <1>4, <2>2
      <3> QED
        BY <3>1 DEF LatestInv, Latest
    <2> QED
      BY <2>1, <2>2
  <1>6. BatchDue'
    BY <1>4 DEF LatestInv, BatchDue, Due, Since
  <1>7. SettledAgree'
    <2> SUFFICES ASSUME NEW x \in Readable, x < pos, x \notin batch'
                 PROVE lastDead'[x] <=> Known(x)'.verdict = "Dead"
      BY <1>4 DEF SettledAgree
    <2>1. CASE x = d
      <3>1. Known(x)' = new
        BY <1>3, <1>4, <2>1 DEF Known
      <3>2. lastDead'[x] = (v = "Dead")
        BY <1>4, <2>1
      <3> QED
        BY <1>3, <3>1, <3>2
    <2>2. CASE x # d
      <3>1. Known(x)' = Known(x)
        BY <1>4, <2>2 DEF Known
      <3>2. lastDead'[x] = lastDead[x]
        BY <1>4, <2>2
      <3>3. x \notin batch
        BY <1>4, <2>2
      <3> QED
        BY <1>4, <3>1, <3>2, <3>3 DEF LatestInv, SettledAgree
    <2> QED
      BY <2>1, <2>2
  <1> QED
    BY <1>5, <1>6, <1>7 DEF LatestInv

LEMMA LatestFlush == ASSUME Inv, LatestInv, Flush PROVE LatestInv'
  <1>1. /\ \A d \in Domains : Known(d)' = Known(d)
        /\ \A d \in Domains : disk'[d] = disk[d] \/ disk'[d] = pending[d]
        /\ \A d \in Domains : disk'[d] # disk[d] => pending[d] # NoEntry /\ disk'[d] = pending[d]
        /\ clock' = clock /\ pos' = pos /\ batch' = batch /\ lastDead' = lastDead
        /\ pc # "idle"
    BY DEF Flush, Known, Nothing, cacheVars, Inv, SweepTypeOK, Caches
  <1>2. \A d \in Domains : pending[d] # NoEntry => d < pos /\ d \notin batch
    BY <1>1 DEF Inv, Located
  <1>3. Latest'
    <2> SUFFICES ASSUME NEW d \in Readable, disk'[d] # disk[d]
                 PROVE lastDead[d] <=> disk'[d].verdict = "Dead"
      BY <1>1 DEF Latest, LatestInv, Due, Since
    <2>1. Known(d) = pending[d] /\ disk'[d] = pending[d] /\ d < pos /\ d \notin batch
      BY <1>1, <1>2 DEF Known
    <2> QED
      BY <1>1, <2>1 DEF LatestInv, SettledAgree
  <1>4. BatchDue'
    <2>1. \A d \in batch : disk'[d] = disk[d]
      BY <1>1, <1>2 DEF Inv, SweepTypeOK
    <2> QED
      BY <1>1, <2>1 DEF LatestInv, BatchDue, Due, Since
  <1>5. SettledAgree'
    BY <1>1 DEF LatestInv, SettledAgree
  <1> QED
    BY <1>3, <1>4, <1>5 DEF LatestInv

\* Steps that touch neither the file nor the record of look-ups, and that keep
\* the pending entries or end the sweep.
LEMMA LatestOther ==
  ASSUME Inv, LatestInv, clock' = clock, disk' = disk, lastDead' = lastDead,
         \/ pc' = "idle"
         \/ /\ pc # "idle" \/ pc' = pc
            /\ pos' = pos /\ batch' = batch /\ pending' = pending
  PROVE LatestInv'
  <1>1. Latest'
    BY DEF LatestInv, Latest, Due, Since
  <1>2. BatchDue'
    BY DEF LatestInv, BatchDue, Due, Since
  <1>3. SettledAgree'
    <2>1. CASE pc' = "idle"
      BY <2>1 DEF SettledAgree
    <2>2. CASE pc' # "idle"
      <3>1. pc # "idle" /\ pos' = pos /\ batch' = batch /\ pending' = pending
        BY <2>2
      <3>2. \A d \in Domains : Known(d)' = Known(d)
        BY <3>1 DEF Known
      <3> QED
        BY <3>1, <3>2 DEF LatestInv, SettledAgree
    <2> QED
      BY <2>1, <2>2
  <1> QED
    BY <1>1, <1>2, <1>3 DEF LatestInv

LEMMA LatestNext ==
  ASSUME Inv, LatestInv, [SweepNext]_sweepVars PROVE LatestInv'
  <1>1. CASE UNCHANGED sweepVars
    BY <1>1, LatestOther DEF sweepVars, cacheVars
  <1>2. CASE CanaryPrimary \/ CanarySecondary \/ BatchRead
    BY <1>2, LatestOther DEF CanaryPrimary, CanarySecondary, BatchRead, cacheVars
  <1>3. CASE Prune \/ CanaryFails \/ SweepFails \/ Crash
    BY <1>3, LatestOther DEF Prune, CanaryFails, SweepFails, Crash, Ended
  <1>4. CASE (\E r \in Resolvers : Hijack(r)) \/ Heal
    BY <1>4, LatestOther DEF Hijack, Heal, cacheVars
  <1> QED
    BY <1>1, <1>2, <1>3, <1>4, LatestStart, LatestReadEntry, LatestCheckDomain, LatestFlush
    DEF SweepNext

\* A domain the cache can be read for is pruned only if its latest look-up said
\* Dead, even when that look-up was lost with an aborted or crashed sweep.
THEOREM PrunedOnLatestRead == SweepSpec => PrunesOnLatestRead
  <1>1. ASSUME Inv, LatestInv, Prune, NEW d \in pruned' \ Unreadable PROVE lastDead[d]
    <2>1. d \in Readable /\ Known(d).verdict = "Dead" /\ d < pos /\ d \notin batch /\ pc # "idle"
      BY <1>1, PrunedSettled DEF ShouldPrune, Inv, SweepTypeOK, Located, Prune, Domains, Readable
    <2> QED
      BY <1>1, <2>1 DEF LatestInv, SettledAgree
  <1>2. Inv /\ LatestInv /\ [SweepNext]_sweepVars => [Prune => \A d \in pruned' \ Unreadable : lastDead[d]]_sweepVars
    BY <1>1
  <1>3. Inv /\ LatestInv /\ [SweepNext]_sweepVars => LatestInv'
    BY LatestNext
  <1> QED
    BY <1>2, <1>3, LatestInit, SpecInv, PTL DEF SweepSpec, PrunesOnLatestRead

=============================================================================
