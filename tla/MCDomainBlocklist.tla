--------------------------- MODULE MCDomainBlocklist ---------------------------
(***************************************************************************)
(* The domain-blocklist pipeline for TLC: Sweep, Build and Publication, one   *)
(* of them in each behaviour.  Build stands on what the other two promise     *)
(* and shares no variable with them; what the three do is too much for one     *)
(* state space.                                                               *)
(*                                                                           *)
(* The instance of Build: a public suffix (1), a popular site under it (2)    *)
(* with a host of its own (3), and a popular site elsewhere (4); three         *)
(* documents of two projects.                                                 *)
(***************************************************************************)
EXTENDS Sweep, Publication, Build, TLC

VARIABLE part   (* the module this behaviour is one of *)

pipelineVars == <<part, sweepVars, publicationVars, buildVars>>

Init ==
  /\ part \in {"sweep", "publication", "build"}
  /\ SweepInit /\ PublicationInit /\ BuildInit
  /\ part # "build" => pinned = {}

Next ==
  /\ UNCHANGED part
  /\ \/ part = "sweep" /\ SweepNext /\ UNCHANGED <<publicationVars, buildVars>>
     \/ part = "publication" /\ PublicationNext /\ UNCHANGED <<sweepVars, buildVars>>
     \/ part = "build" /\ BuildNext /\ UNCHANGED <<sweepVars, publicationVars>>

Spec == Init /\ [][Next]_pipelineVars

-----------------------------------------------------------------------------
(* The instance of Build *)

MCUnder == <<{1, 2, 3}, {2, 3}, {3}, {4}>>
MCSourceOf == "blocklist" :> "Hagezi" @@ "adult" :> "Ut1" @@ "dating" :> "Ut1"
MCMayList ==
  {[job |-> "blocklist", name |-> 1, hint |-> "wildcard"],
   [job |-> "blocklist", name |-> 2, hint |-> "plain"],
   [job |-> "blocklist", name |-> 3, hint |-> "plain"],
   [job |-> "adult", name |-> 2, hint |-> "wildcard"],
   [job |-> "adult", name |-> 4, hint |-> "plain"],
   [job |-> "dating", name |-> 2, hint |-> "plain"]}
MCReviewed ==
  [job \in DOMAIN MCSourceOf |-> IF MCSourceOf[job] = "Ut1" THEN "CC-BY-SA-4.0" ELSE "GPL-3.0"]
\* --allow-license is not given: the default set.
MCAllowed == {"MIT", "CC0-1.0", "GPL-3.0", "CC-BY-SA-4.0"}

\* Whatever licences the documents were reviewed with, the build inherits one that is no
\* more permissive than that of any document, or says that it does not know; it knows when
\* the licence gate passes; and two documents of one source with different licences end the
\* run (collapse_snapshots_by_source, pick_output_license, license_gate).
ASSUME OutputLicenceCovers ==
  \A reviewed \in [Jobs -> Range(Ranked) \cup {"NOASSERTION"}] :
    LET snapshots == SnapshotsOf(reviewed)
        output == OutputLicence(snapshots)
        gate == LicenceGate(Range(SourceOf), snapshots, MCAllowed)
    IN /\ \A job \in Jobs : output # "UNKNOWN" => Rank(reviewed[job]) <= Rank(output)
       /\ gate => output # "UNKNOWN" /\ Collapses(snapshots)
       /\ Collapses(snapshots) <=> reviewed["adult"] = reviewed["dating"]

=============================================================================
