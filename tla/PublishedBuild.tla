---------------------------- MODULE PublishedBuild ----------------------------
(***************************************************************************)
(* What the output directory of domain-blocklist promises its readers,      *)
(* without saying how the files move: a build appears all at once, the       *)
(* newest one is never lost, and a cold start loads a build that was         *)
(* completed, none older than the runs that died account for - or, for a     *)
(* moment, none at all.  Publication.tla is shown to implement this, and     *)
(* Build.tla puts the rest of the pipeline on top of it.                     *)
(***************************************************************************)
EXTENDS Naturals

CONSTANT None   (* A cold start finds no build to load. *)

VARIABLES
  newest,   (* builds completed: they are numbered in that order *)
  kept,     (* the builds of which artifact and manifest both exist *)
  served,   (* what a cold start would load *)
  failed    (* runs that died while they published *)

storeVars == <<newest, kept, served, failed>>

StoreInit ==
  /\ newest = 0
  /\ kept = {}
  /\ served = None
  /\ failed = 0

\* The second file of a new build is in place.
Complete ==
  /\ newest' = newest + 1
  /\ kept' = kept \cup {newest + 1}
  /\ served' = newest + 1
  /\ UNCHANGED failed

\* Files move or go, never those of the newest build.
Rotate ==
  /\ kept' \in SUBSET kept
  /\ newest > 0 => newest \in kept'
  /\ served' \in {n \in kept' : n + 1 + failed >= newest} \cup {None}
  /\ UNCHANGED <<newest, failed>>

\* A run dies, or one of its calls fails, between two of those moves.
Abandon ==
  /\ failed' = failed + 1
  /\ UNCHANGED <<newest, kept, served>>

StoreNext == Complete \/ Rotate \/ Abandon

StoreSpec == StoreInit /\ [][StoreNext]_storeVars

=============================================================================
