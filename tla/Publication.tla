------------------------------- MODULE Publication -------------------------------
(***************************************************************************)
(* Publishing a blocklist build into the two-slot layout: the publishing    *)
(* half of run() in domain-blocklist's main.rs, slots.rs (load_previous,    *)
(* publish, the rotation) and the loader of net-shield that reads the slots *)
(* on a cold start.                                                         *)
(*                                                                          *)
(* A step is one call that changes the directory tree, so that the process  *)
(* can die, or the call fail, between any two. Builds are numbered in the   *)
(* order in which their publication completes: the file of build n is n, and *)
(* a manifest names the build whose digest it holds.                         *)
(***************************************************************************)
EXTENDS Naturals

CONSTANTS
  NoFile,       (* The file does not exist. *)
  MaxVersion,   (* bound on the version of a build *)
  MaxPublished, (* bound on the builds published *)
  MaxCrashes    (* bound on the runs that die *)

ASSUME VersionAssumption == MaxVersion \in Nat
ASSUME BuildsAssumption == MaxPublished \in Nat
ASSUME CrashesAssumption == MaxCrashes \in Nat

Builds == Nat \ {0}
Manifests == [of : Builds, version : 0..MaxVersion]

ASSUME NoneAssumption == NoFile \notin Builds \cup Manifests

VARIABLES
  current, previous, tmp,   (* the slots current/, previous/ and previous.tmp/ *)
  place,                    (* where run() and publish() are *)
  found,                    (* the manifest load_previous returned, NoFile for NoPreviousBuild *)
  version,                  (* the version of the build at hand *)
  done,                     (* publications completed *)
  crashes,                  (* runs that died or failed half way *)
  startedOver,              (* a run took itself for the first although it was not *)
  refused                   (* load_previous aborted the last run *)

slots == <<current, previous, tmp>>
history == <<done, crashes, startedOver>>
publicationVars == <<slots, place, found, version, history, refused>>

Slots == [artifact : Builds \cup {NoFile}, manifest : Manifests \cup {NoFile}]
Empty == [artifact |-> NoFile, manifest |-> NoFile]

PublicationPlaces ==
  {"idle", "gates", "clearTmp", "moveArtifact", "moveManifest", "clearPrevious",
   "promote", "writeArtifact", "writeManifest"}

PublicationTypeOK ==
  /\ current \in Slots /\ previous \in Slots /\ tmp \in Slots
  /\ place \in PublicationPlaces
  /\ found \in Manifests \cup {NoFile}
  /\ version \in 0..MaxVersion
  /\ done \in 0..MaxPublished
  /\ crashes \in 0..MaxCrashes
  /\ startedOver \in BOOLEAN
  /\ refused \in BOOLEAN

PublicationInit ==
  /\ current = Empty /\ previous = Empty /\ tmp = Empty
  /\ place = "idle"
  /\ found = NoFile
  /\ version = 0
  /\ done = 0
  /\ crashes = 0
  /\ startedOver = FALSE
  /\ refused = FALSE

-----------------------------------------------------------------------------
(* Reading a slot *)

\* Both files are there and the digest in the manifest is the artifact's.
Whole(slot) ==
  /\ slot.artifact # NoFile
  /\ slot.manifest # NoFile
  /\ slot.manifest.of = slot.artifact

\* BlocklistArtifact::load: current/, and where that fails previous/.
Loads ==
  IF Whole(current) THEN current.artifact
  ELSE IF Whole(previous) THEN previous.artifact
  ELSE NoFile

-----------------------------------------------------------------------------
(* run() of main.rs *)

\* load_previous: nothing at all is a first build, a damaged slot ends the run.
LoadPrevious ==
  /\ place = "idle"
  /\ \/ /\ current = Empty
        /\ place' = "gates" /\ found' = NoFile /\ refused' = FALSE
        /\ startedOver' = (startedOver \/ done > 0)
     \/ /\ Whole(current)
        /\ place' = "gates" /\ found' = current.manifest /\ refused' = FALSE
        /\ UNCHANGED startedOver
     \/ /\ current # Empty /\ ~Whole(current)
        /\ refused' = TRUE
        /\ UNCHANGED <<place, found, startedOver>>
  /\ UNCHANGED <<slots, version, done, crashes>>

\* A gate fails, the version would be a rollback, or this is a dry run.
Decline ==
  /\ place = "gates"
  /\ place' = "idle"
  /\ UNCHANGED <<slots, found, version, history, refused>>

\* The gates pass and publish() begins; an empty current/ is not rotated.
Publish ==
  /\ place = "gates"
  /\ done < MaxPublished
  /\ \E v \in 0..MaxVersion :
       /\ found # NoFile => v > found.version
       /\ version' = v
  /\ place' = IF current = Empty THEN "writeArtifact" ELSE "clearTmp"
  /\ UNCHANGED <<slots, found, history, refused>>

-----------------------------------------------------------------------------
(* slots::publish *)

Others == <<found, version, history, refused>>

\* remove_dir_all deletes the files of a slot one by one, in no given order.
Deleted(slot) ==
  {s \in {[slot EXCEPT !.artifact = NoFile], [slot EXCEPT !.manifest = NoFile]} : s # slot}

ClearTmp ==
  /\ place = "clearTmp"
  /\ IF tmp = Empty
       THEN place' = "moveArtifact" /\ UNCHANGED tmp
       ELSE tmp' \in Deleted(tmp) /\ UNCHANGED place
  /\ UNCHANGED <<current, previous, Others>>

\* Seeded fault: the artifact is moved straight into previous/.
MoveArtifactInPlace ==
  /\ place = "moveArtifact"
  /\ IF current.artifact # NoFile
       THEN /\ previous' = [previous EXCEPT !.artifact = current.artifact]
            /\ current' = [current EXCEPT !.artifact = NoFile]
       ELSE UNCHANGED <<previous, current>>
  /\ place' = "moveManifest"
  /\ UNCHANGED <<tmp, Others>>

\* rotate_file leaves the target alone when there is nothing to move.
MoveArtifact ==
  /\ place = "moveArtifact"
  /\ IF current.artifact # NoFile
       THEN /\ tmp' = [tmp EXCEPT !.artifact = current.artifact]
            /\ current' = [current EXCEPT !.artifact = NoFile]
       ELSE UNCHANGED <<tmp, current>>
  /\ place' = "moveManifest"
  /\ UNCHANGED <<previous, Others>>

MoveManifest ==
  /\ place = "moveManifest"
  /\ IF current.manifest # NoFile
       THEN /\ tmp' = [tmp EXCEPT !.manifest = current.manifest]
            /\ current' = [current EXCEPT !.manifest = NoFile]
       ELSE UNCHANGED <<tmp, current>>
  /\ place' = "clearPrevious"
  /\ UNCHANGED <<previous, Others>>

ClearPrevious ==
  /\ place = "clearPrevious"
  /\ IF previous = Empty
       THEN place' = "promote" /\ UNCHANGED previous
       ELSE previous' \in Deleted(previous) /\ UNCHANGED place
  /\ UNCHANGED <<current, tmp, Others>>

\* Seeded fault: previous.tmp/ is deleted instead of renamed.
PromoteNothing ==
  /\ place = "promote"
  /\ previous' = Empty
  /\ tmp' = Empty
  /\ place' = "writeArtifact"
  /\ UNCHANGED <<current, Others>>

\* One rename moves the pair.
Promote ==
  /\ place = "promote"
  /\ previous' = tmp
  /\ tmp' = Empty
  /\ place' = "writeArtifact"
  /\ UNCHANGED <<current, Others>>

\* atomic_write: a rename replaces the file.
WriteArtifact ==
  /\ place = "writeArtifact"
  /\ current' = [current EXCEPT !.artifact = done + 1]
  /\ place' = "writeManifest"
  /\ UNCHANGED <<previous, tmp, Others>>

WriteManifest ==
  /\ place = "writeManifest"
  /\ current' = [current EXCEPT !.manifest = [of |-> done + 1, version |-> version]]
  /\ done' = done + 1
  /\ place' = "idle"
  /\ UNCHANGED <<previous, tmp, found, version, crashes, startedOver, refused>>

\* The process dies, or a call fails and publish() returns its error.
PublicationDies ==
  /\ place # "idle"
  /\ crashes < MaxCrashes
  /\ place' = "idle"
  /\ crashes' = crashes + 1
  /\ UNCHANGED <<slots, found, version, done, startedOver, refused>>

PublicationNext ==
  \/ LoadPrevious \/ Decline \/ Publish
  \/ ClearTmp \/ MoveArtifact \/ MoveManifest \/ ClearPrevious \/ Promote
  \/ WriteArtifact \/ WriteManifest \/ PublicationDies

PublicationSpec == PublicationInit /\ [][PublicationNext]_publicationVars

-----------------------------------------------------------------------------
(* Properties *)

\* What a reader, or someone putting the directory in order, could still use: the
\* pairs of the slots, and the pair that is being moved.
Moving ==
  /\ tmp.artifact # NoFile /\ tmp.manifest = NoFile /\ current.artifact = NoFile
  /\ current.manifest # NoFile /\ current.manifest.of = tmp.artifact

Kept ==
  {slot.artifact : slot \in {s \in {current, previous, tmp} : Whole(s)}}
    \cup (IF Moving THEN {tmp.artifact} ELSE {})

Store ==
  INSTANCE PublishedBuild
    WITH None <- NoFile, newest <- done, kept <- Kept, served <- Loads, failed <- crashes

\* However publications are interrupted and repeated, the directory behaves as a
\* store in which builds appear at once and the newest one is never lost, and a
\* cold start is at most one build late for every run that died (the rotation of
\* slots.rs and the fallback of BlocklistArtifact::load).
ImplementsStore == Store!StoreSpec

\* However publications are interrupted and repeated, previous/ never holds an
\* artifact beside the manifest of another build (the reason the pair is moved
\* by one rename, rotate_current_into_previous).
PreviousMatches ==
  (previous.artifact # NoFile /\ previous.manifest # NoFile)
    => previous.manifest.of = previous.artifact

\* Whatever is interrupted, some published build survives with its manifest: in
\* a slot, or split between current/ and previous.tmp/ while it is being moved.
NothingLost ==
  done > 0 =>
    \/ \E slot \in {current, previous, tmp} : Whole(slot)
    \/ tmp.artifact # NoFile /\ current.manifest # NoFile /\ current.manifest.of = tmp.artifact

\* Each interrupted run costs a cold start at most one build of freshness: what
\* it loads is the last build, the one before, or one older by no more than the
\* runs that died (the fallback of BlocklistArtifact::load).
StaleByCrashes == Loads # NoFile => Loads + 1 + crashes >= done

\* While no run dies there is a build to fall back to from the second publication
\* on, except between the removal of previous/ and the rename that replaces it.
FallbackKept ==
  (crashes = 0 /\ done >= 2 /\ place \notin {"clearPrevious", "promote"}) => Loads # NoFile

\* The build of current/ has a higher version than the one it would fall back
\* to, unless a run took itself for the first (the rollback check of run).
VersionsGrow ==
  (Whole(current) /\ Whole(previous) /\ ~startedOver)
    => current.manifest.version > previous.manifest.version

=============================================================================
