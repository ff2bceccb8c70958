--------------------------------- MODULE Build ---------------------------------
(***************************************************************************)
(* A run of the domain-blocklist pipeline, from the pinned documents of its  *)
(* sources to a published list: run() of main.rs with merge.rs, gates.rs,    *)
(* fst_build.rs and the lookup of net-shield that reads the result.          *)
(*                                                                          *)
(* Documents are fetched as Fetch.tla says.  How dead names are found is       *)
(* Sweep.tla's matter and how files move in the output directory               *)
(* Publication.tla's: this module stands on what they promise, the latter      *)
(* through PublishedBuild, which Publication.tla implements.                  *)
(***************************************************************************)
EXTENDS PublishedBuild, Fetch, Sequences, FiniteSets, FiniteSetsExt, Functions

CONSTANTS
  Under,        (* what a wildcard at a name covers, itself included *)
  Registrable,  (* the names the public suffix list calls eTLD+1 *)
  Mortal,       (* the names that may go dead: bound on the sweep *)
  Denylist,     (* --denylist *)
  ControlSet, Exclusions, MinControl, MaxFpPct,   (* --control-set and its limits *)
  MaxDropPct, MaxGrowPct, Floor, Ceiling,         (* --max-shrinkage-pct ... --size-ceiling *)
  Samples,      (* values of --sample, 0 for none *)
  MaxBuilds, MaxFailed   (* bounds on builds and on runs that die *)

ListEntries == [name : DomainNames, scope : {"Apex", "ExactHost"}, sources : SUBSET Range(SourceOf)]

ASSUME UnderAssumption ==
  /\ Under \in [DomainNames -> SUBSET DomainNames] /\ \A n \in DomainNames : n \in Under[n]
  /\ \A a, b \in Registrable : a # b => b \notin Under[a]
\* The control set ranks registrable domains, as Tranco does.
ASSUME ControlAssumption == ControlSet \subseteq Registrable /\ Registrable \subseteq DomainNames
ASSUME LimitsAssumption ==
  /\ MaxFpPct \in 0..100 /\ MaxDropPct \in 0..100 /\ MaxGrowPct \in 0..100
  /\ Floor \in Nat /\ Ceiling \in Nat /\ MinControl \in Nat
ASSUME RunsAssumption == Samples \subseteq Nat /\ MaxFailed \in Nat

VARIABLES
  pinned,   (* the documents at the revisions the source list pins *)
  dead,     (* names whose quarantine has run out *)
  stage,    (* where the run is *)
  sample,   (* its --sample *)
  entries,  (* the list in the making *)
  sweptOut, (* what the sweep took out of it *)
  base,     (* the build load_previous returned, None for NoPreviousBuild *)
  slot,     (* current/: a whole build, nothing, or something that does not verify *)
  lists     (* what every completed build contains, and what it was made from *)

runVars == <<sample, entries, sweptOut, base>>
buildVars == <<storeVars, pinned, dead, stage, runVars, slot, lists>>

BuildInit ==
  /\ StoreInit
  /\ pinned \in SUBSET MayList
  /\ dead = {}
  /\ stage = "idle"
  /\ sample = 0 /\ entries = {} /\ sweptOut = {} /\ base = None
  /\ slot = "empty"
  /\ lists = <<>>

-----------------------------------------------------------------------------
(* merge *)

\* Seeded fault: the public suffix list is not asked.
ScopeOfHint(name, hint) == IF hint = "wildcard" THEN "Apex" ELSE "ExactHost"

\* resolve_scope: only a wildcard on a registrable domain covers what is below it.
ScopeOf(name, hint) ==
  IF hint = "wildcard" /\ name \in Registrable THEN "Apex" ELSE "ExactHost"

\* Lines for one name are united: the wider scope wins, sources are a set.
Merge(docs) ==
  {[name |-> n,
    scope |-> IF \E l \in docs : l.name = n /\ ScopeOf(n, l.hint) = "Apex"
              THEN "Apex" ELSE "ExactHost",
    sources |-> {SourceOf[l.job] : l \in {k \in docs : k.name = n}}]
     : n \in {l.name : l \in docs} \ Denylist}

NamesOf(list) == {e.name : e \in list}

\* --sample: the first entries in the order of their names.
Truncated(list, n) ==
  IF n = 0 THEN list
  ELSE {e \in list : Cardinality({f \in list : f.name < e.name}) < n}

-----------------------------------------------------------------------------
(* The gates *)

PreviousNames == NamesOf(lists[base].entries)

\* Seeded fault: the entries are counted before the sweep has pruned them.
ShrinkageUnpruned ==
  /\ Cardinality(entries) >= Floor
  /\ base # None =>
       100 * (Cardinality(PreviousNames) - Cardinality(entries) - Cardinality(sweptOut))
         <= MaxDropPct * Cardinality(PreviousNames)

Shrinkage ==
  /\ Cardinality(entries) >= Floor
  /\ base # None =>
       100 * (Cardinality(PreviousNames) - Cardinality(entries))
         <= MaxDropPct * Cardinality(PreviousNames)

Growth ==
  (base # None /\ PreviousNames # {}) =>
    100 * Cardinality(NamesOf(entries) \ PreviousNames)
      <= MaxGrowPct * Cardinality(PreviousNames)

\* Blocked control domains with a single source that nobody has reviewed.
ReviewQueue ==
  {e \in entries : e.name \in ControlSet \ Exclusions /\ Cardinality(e.sources) < 2}

FalsePositives ==
  /\ Cardinality(ControlSet) >= MinControl
  /\ 100 * Cardinality(ReviewQueue) <= MaxFpPct * Cardinality(ControlSet)

GatesPass ==
  /\ Shrinkage /\ Growth /\ FalsePositives
  /\ LicenceGate(UNION {e.sources : e \in entries}, SnapshotsOf(Reviewed), Allowed)
  /\ Cardinality(entries) <= Ceiling

-----------------------------------------------------------------------------
(* run() *)

\* The process ends, and what it held in memory with it.
Ends == stage' = "idle" /\ sample' = 0 /\ entries' = {} /\ sweptOut' = {} /\ base' = None

\* fetch_all_sources, the parsers, merge and --sample.
FetchAndMerge ==
  /\ stage = "idle"
  /\ Collapses(SnapshotsOf(Reviewed))
  /\ \E n \in Samples, docs \in FetchAll(pinned) :
       /\ sample' = n
       /\ entries' = Truncated(Merge(docs), n)
  /\ sweptOut' = {}
  /\ stage' = "merged"
  /\ UNCHANGED <<storeVars, pinned, dead, base, slot, lists>>

\* run_liveness, or nothing with --skip-liveness.
Liveness ==
  /\ stage = "merged"
  /\ \E gone \in {{}, {e \in entries : e.name \in dead}} :
       entries' = entries \ gone /\ sweptOut' = NamesOf(gone)
  /\ stage' = "swept"
  /\ UNCHANGED <<storeVars, pinned, dead, sample, base, slot, lists>>

\* A slot that does not verify ends the run.
LoadBase ==
  /\ stage = "swept"
  /\ IF slot = "damaged"
       THEN Ends
       ELSE /\ stage' = "gates" /\ base' = (IF slot = "whole" THEN newest ELSE None)
            /\ UNCHANGED <<sample, entries, sweptOut>>
  /\ UNCHANGED <<storeVars, pinned, dead, slot, lists>>

\* All gates pass and this is not a dry run: the rotation begins.
BeginPublish ==
  /\ stage = "gates"
  /\ GatesPass
  /\ newest < MaxBuilds
  /\ stage' = "publish"
  /\ UNCHANGED <<storeVars, pinned, dead, runVars, slot, lists>>

\* Every other end of run(): a source or a canary failed, a gate did, the version
\* is not above the last, the control set is missing, or this was a dry run.
DeclineBuild ==
  /\ stage \in {"merged", "gates"}
  /\ Ends
  /\ UNCHANGED <<storeVars, pinned, dead, slot, lists>>

RotateSlots ==
  /\ stage = "publish"
  /\ Rotate
  /\ UNCHANGED <<pinned, dead, stage, runVars, slot, lists>>

FinishPublish ==
  /\ stage = "publish"
  /\ Complete
  /\ lists' = Append(lists, [entries |-> entries, docs |-> pinned, sweptOut |-> sweptOut,
                             sample |-> sample, base |-> base])
  /\ slot' = "whole"
  /\ Ends
  /\ UNCHANGED <<pinned, dead>>

\* A publication that dies may leave current/ alone, half moved, or moved away.
Die ==
  /\ stage = "publish"
  /\ failed < MaxFailed
  /\ Abandon
  /\ slot' \in IF slot = "whole" THEN {"whole", "empty", "damaged"} ELSE {"empty", "damaged"}
  /\ Ends
  /\ UNCHANGED <<pinned, dead, lists>>

Pipeline ==
  \/ FetchAndMerge \/ Liveness \/ LoadBase \/ BeginPublish \/ DeclineBuild
  \/ RotateSlots \/ FinishPublish \/ Die

-----------------------------------------------------------------------------
(* The world between two runs *)

\* A reviewed pin moves to another revision of its document.
MovePin ==
  /\ stage = "idle"
  /\ newest < MaxBuilds
  /\ \E line \in MayList : pinned' = SymDiff(pinned, {line})
  /\ UNCHANGED <<storeVars, dead, stage, runVars, slot, lists>>

NamesDie ==
  /\ stage = "idle"
  /\ newest < MaxBuilds
  /\ dead' \in SUBSET Mortal
  /\ UNCHANGED <<storeVars, pinned, stage, runVars, slot, lists>>

BuildNext == Pipeline \/ MovePin \/ NamesDie

BuildSpec == BuildInit /\ [][BuildNext]_buildVars

-----------------------------------------------------------------------------
(* What a device makes of a list *)

\* BlocklistArtifact::lookup over the labels of a query.
Blocks(list, query) ==
  \E e \in list :
    \/ e.name = query
    \/ e.scope = "Apex" /\ query \in Under[e.name]

-----------------------------------------------------------------------------
(* Properties *)

Served == lists[served]
ProjectsNaming(docs, name) == {SourceOf[l.job] : l \in {k \in docs : k.name = name}}

\* On a device that starts now, the popular sites that are blocked although fewer
\* than two independent projects name them and nobody has reviewed them are no
\* more than the rate allowed - whatever wildcards the sources hold (resolve_scope,
\* merge and false_positive_gate together).
ControlIsSafe ==
  served # None =>
    100 * Cardinality({c \in ControlSet \ Exclusions :
             /\ Blocks(Served.entries, c)
             /\ Cardinality(ProjectsNaming(Served.docs, c)) < 2})
      <= MaxFpPct * Cardinality(ControlSet)

\* A published list is the whole of what its sources say: it blocks every name one
\* of them lists, but those denied, dead or cut off by --sample, and nothing
\* that no line names or covers (a failed fetch aborts the build, "not a skip").
SourcesAreHonoured ==
  served # None =>
    \A q \in DomainNames :
      LET listed == \E l \in Served.docs : l.name = q
          covered == \E l \in Served.docs :
                       l.hint = "wildcard" /\ l.name \in Registrable /\ q \in Under[l.name]
      IN /\ Blocks(Served.entries, q) => listed \/ covered
         /\ (listed /\ q \notin Denylist \cup Served.sweptOut /\ Served.sample = 0) =>
              Blocks(Served.entries, q)

\* From a build to the next that was compared with it, a list loses no more names
\* than both gates allow together, what the sweep pruned and what new names cover
\* up included (shrinkage_gate counts, growth_gate compares names).
LossIsBounded ==
  \A n \in DOMAIN lists :
    lists[n].base # None =>
      LET before == NamesOf(lists[lists[n].base].entries)
      IN 100 * Cardinality(before \ NamesOf(lists[n].entries))
           <= (MaxDropPct + MaxGrowPct) * Cardinality(before)

BuildRecords ==
  [entries : SUBSET ListEntries, docs : SUBSET MayList, sweptOut : SUBSET DomainNames,
   sample : Samples \cup {0}, base : Nat \cup {None}]

BuildTypeOK ==
  /\ lists \in Seq(BuildRecords) /\ newest = Len(lists)
  /\ kept \subseteq DOMAIN lists /\ served \in kept \cup {None}
  /\ failed \in 0..MaxFailed
  /\ pinned \subseteq MayList /\ dead \subseteq Mortal
  /\ stage \in {"idle", "merged", "swept", "gates", "publish"}
  /\ sample \in Samples \cup {0} /\ entries \subseteq ListEntries /\ sweptOut \subseteq DomainNames
  /\ base \in DOMAIN lists \cup {None}
  /\ slot \in {"whole", "empty", "damaged"}
  /\ slot = "whole" => newest > 0

=============================================================================
