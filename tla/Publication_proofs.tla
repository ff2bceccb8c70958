--------------------------- MODULE Publication_proofs ---------------------------
(***************************************************************************)
(* Proofs about Publication: its types, that previous/ never mixes two      *)
(* builds, that no interruption destroys the last published build, how far  *)
(* behind a cold start can fall, when it can find nothing, that versions    *)
(* grow, and that all of it implements PublishedBuild. The inductive         *)
(* invariant says, place by place in publish(), which file is where.         *)
(***************************************************************************)
EXTENDS Publication, TLAPS

\* What load_previous found still describes current/, and the version chosen is
\* above it once publish() runs.
Rotating == {"clearTmp", "moveArtifact", "moveManifest", "clearPrevious", "promote"}
Writing == {"writeArtifact", "writeManifest"}

Control ==
  /\ place = "gates" => IF found = NoFile THEN current = Empty
                     ELSE Whole(current) /\ current.manifest = found
  /\ place \in {"clearTmp", "moveArtifact"} => Whole(current) /\ current.manifest = found
  /\ place = "moveArtifact" => tmp = Empty
  /\ place = "moveManifest" =>
       /\ current.artifact = NoFile /\ current.manifest = found
       /\ tmp.manifest = NoFile /\ tmp.artifact = found.of
  /\ place \in {"clearPrevious", "promote"} =>
       current = Empty /\ Whole(tmp) /\ tmp.manifest = found
  /\ place = "promote" => previous = Empty
  /\ place = "writeArtifact" => current = Empty
  /\ place = "writeManifest" => current.artifact = done + 1 /\ current.manifest = NoFile
  /\ place \in Rotating => found # NoFile /\ version > found.version

\* Where the newest published build is, and how old the fallback may be.
Newest ==
  /\ Whole(current) => current.artifact = done
  /\ place \in Rotating => found.of = done
  /\ done < MaxPublished \/ place \notin Rotating \cup Writing

Fresh == place \in Rotating \/ (place \in {"idle", "gates"} /\ Whole(current))

Stale ==
  previous.artifact # NoFile =>
    previous.artifact + crashes + (IF Fresh THEN 1 ELSE 0) >= done

\* A run that was never interrupted.
Calm ==
  crashes = 0 =>
    /\ place \in {"idle", "gates"} => Whole(current) \/ (current = Empty /\ done = 0)
    /\ (place \in Writing /\ done >= 1) => Whole(previous)
    /\ (place \notin {"clearPrevious", "promote"} /\ done >= 2) => Whole(previous)

\* Nothing is published before the first publication, and a first build leaves
\* no version behind to compare with.
Grows ==
  /\ done = 0 => previous = Empty
  /\ (place = "gates" /\ found = NoFile) => done = 0 \/ startedOver
  /\ ~startedOver /\ Whole(previous) =>
       /\ Whole(current) => current.manifest.version > previous.manifest.version
       /\ place \in Writing => version > previous.manifest.version

IInv ==
  /\ PublicationTypeOK /\ Control /\ Newest /\ PreviousMatches /\ Stale /\ NothingLost
  /\ Calm /\ Grows

\* NoFile is neither a build nor a manifest, so a field is present or absent.
LEMMA Fields ==
  ASSUME NEW slot \in Slots
  PROVE /\ slot.artifact = NoFile \/ slot.artifact \in Builds
        /\ slot.manifest = NoFile \/ (slot.manifest \in Manifests /\ slot.manifest.of \in Builds
                                    /\ slot.manifest.version \in Nat)
        /\ (slot.artifact = NoFile /\ slot.manifest = NoFile) <=> slot = Empty
        /\ slot = [artifact |-> slot.artifact, manifest |-> slot.manifest]
  BY VersionAssumption DEF Slots, Manifests, Empty

LEMMA EmptySlot == Empty \in Slots /\ Empty.artifact = NoFile /\ Empty.manifest = NoFile /\ ~Whole(Empty)
  BY DEF Empty, Slots, Whole

LEMMA InitInv == PublicationInit => IInv
  <1>1. PublicationInit => PublicationTypeOK
    <2> SUFFICES ASSUME PublicationInit PROVE PublicationTypeOK
      OBVIOUS
    <2>1. version \in 0..MaxVersion /\ done \in 0..MaxPublished /\ crashes \in 0..MaxCrashes
      BY VersionAssumption, BuildsAssumption, CrashesAssumption DEF PublicationInit
    <2>2. current \in Slots /\ previous \in Slots /\ tmp \in Slots
      BY EmptySlot DEF PublicationInit
    <2> QED
      BY <2>1, <2>2 DEF PublicationInit, PublicationTypeOK, PublicationPlaces
  <1>2. PublicationInit => Control /\ Newest /\ PreviousMatches /\ Stale /\ NothingLost /\ Calm /\ Grows
    BY BuildsAssumption DEF PublicationInit, Control, Newest, PreviousMatches, Stale, Fresh, NothingLost,
       Calm, Grows, Rotating, Writing, Empty, Whole, Builds
  <1> QED
    BY <1>1, <1>2 DEF IInv

\* What deleting one file of a slot leaves.
LEMMA DeletedSlot ==
  ASSUME NEW slot \in Slots, NEW s \in Deleted(slot)
  PROVE /\ s \in Slots
        /\ s.artifact \in {slot.artifact, NoFile}
        /\ s.manifest \in {slot.manifest, NoFile}
        /\ s.artifact = NoFile \/ s.manifest = NoFile
  <1>1. \/ s = [slot EXCEPT !.artifact = NoFile]
        \/ s = [slot EXCEPT !.manifest = NoFile]
    BY DEF Deleted
  <1> QED
    BY <1>1 DEF Slots

-----------------------------------------------------------------------------
(* run() of main.rs *)

LEMMA LoadPreviousInv == ASSUME IInv, LoadPrevious PROVE IInv'
  <1>1. PublicationTypeOK'
    BY DEF IInv, PublicationTypeOK, LoadPrevious, slots, PublicationPlaces, Slots, Whole
  <1>2. /\ current' = current /\ previous' = previous /\ tmp' = tmp
        /\ done' = done /\ crashes' = crashes /\ version' = version
    BY DEF LoadPrevious, slots
  <1>3. \/ /\ current = Empty /\ place = "idle" /\ place' = "gates" /\ found' = NoFile
           /\ startedOver' = (startedOver \/ done > 0)
        \/ /\ Whole(current) /\ place = "idle" /\ place' = "gates" /\ found' = current.manifest
           /\ startedOver' = startedOver
        \/ place = "idle" /\ place' = "idle" /\ found' = found /\ startedOver' = startedOver
    BY DEF LoadPrevious
  <1>4. Control'
    BY <1>2, <1>3 DEF IInv, Control, Rotating, Whole
  <1>5. Newest' /\ PreviousMatches' /\ Stale' /\ NothingLost'
    BY <1>2, <1>3 DEF IInv, Newest, PreviousMatches, Stale, Fresh, NothingLost, Rotating,
       Writing, slots, Whole
  <1>6. Calm'
    BY <1>2, <1>3 DEF IInv, Calm, Writing, slots, Whole
  <1>7. Grows'
    BY <1>1, <1>2, <1>3 DEF IInv, Grows, PublicationTypeOK, Writing, slots, Whole
  <1> QED
    BY <1>1, <1>4, <1>5, <1>6, <1>7 DEF IInv

\* Returning to "idle" with the directory as it is, one run more counted as dead
\* or none.
LEMMA StopInv ==
  ASSUME IInv, place' = "idle", UNCHANGED <<slots, found, version, done, startedOver, refused>>,
         \/ place = "gates" /\ crashes' = crashes
         \/ place # "idle" /\ crashes < MaxCrashes /\ crashes' = crashes + 1
  PROVE IInv'
  <1>1. PublicationTypeOK'
    BY CrashesAssumption DEF IInv, PublicationTypeOK, slots, PublicationPlaces
  <1>2. Control' /\ PreviousMatches'
    BY DEF Control, PreviousMatches, IInv, Rotating, slots
  <1>7. NothingLost'
    BY DEF IInv, NothingLost, slots, Whole
  <1>3. Newest'
    BY DEF IInv, Newest, Rotating, Writing, slots, Whole
  <1>4. Stale'
    BY CrashesAssumption, BuildsAssumption, Fields
    DEF IInv, PublicationTypeOK, Stale, Fresh, Control, Rotating, slots, Whole, Builds
  <1>5. Calm'
    BY CrashesAssumption, EmptySlot DEF IInv, PublicationTypeOK, Calm, Control, Writing, slots, Whole
  <1>6. Grows'
    BY DEF IInv, Grows, Writing, slots, Whole
  <1> QED
    BY <1>1, <1>2, <1>3, <1>4, <1>5, <1>6, <1>7 DEF IInv

LEMMA PublishInv == ASSUME IInv, Publish PROVE IInv'
  <1>1. PublicationTypeOK'
    BY DEF IInv, PublicationTypeOK, Publish, slots, history, PublicationPlaces
  <1>2. /\ place = "gates" /\ done < MaxPublished
        /\ found # NoFile => version' > found.version
        /\ place' = IF current = Empty THEN "writeArtifact" ELSE "clearTmp"
        /\ current' = current /\ previous' = previous /\ tmp' = tmp
        /\ found' = found /\ done' = done /\ crashes' = crashes /\ startedOver' = startedOver
    BY DEF Publish, slots, history
  <1>3. \/ found = NoFile /\ current = Empty /\ ~Whole(current) /\ place' = "writeArtifact"
        \/ /\ found # NoFile /\ Whole(current) /\ current.manifest = found /\ place' = "clearTmp"
           /\ current # Empty
    BY <1>2, EmptySlot DEF IInv, Control, Whole
  <1>4. Control' /\ Newest' /\ PreviousMatches' /\ NothingLost'
    BY <1>2, <1>3 DEF IInv, Control, Newest, PreviousMatches, NothingLost, Rotating, Writing, Whole
  <1>5. Stale'
    BY <1>2, <1>3 DEF IInv, Stale, Fresh, Rotating, Whole
  <1>6. Calm'
    BY <1>1, <1>2, <1>3 DEF IInv, PublicationTypeOK, Calm, Writing, Whole
  <1>7. Grows'
    BY <1>2, <1>3, EmptySlot DEF IInv, Grows, Writing, Whole
  <1> QED
    BY <1>1, <1>4, <1>5, <1>6, <1>7 DEF IInv

-----------------------------------------------------------------------------
(* slots::publish *)

LEMMA ClearTmpInv == ASSUME IInv, ClearTmp PROVE IInv'
  <1>1. /\ place = "clearTmp" /\ place' \in {"clearTmp", "moveArtifact"}
        /\ place' = "moveArtifact" => tmp' = Empty
        /\ tmp' \in Slots
        /\ current' = current /\ previous' = previous
        /\ UNCHANGED Others
    BY DeletedSlot DEF ClearTmp, IInv, PublicationTypeOK
  <1>2. PublicationTypeOK'
    BY <1>1 DEF IInv, PublicationTypeOK, Others, history, PublicationPlaces
  <1>3. Control' /\ Newest' /\ PreviousMatches' /\ NothingLost'
    BY <1>1 DEF IInv, Control, Newest, PreviousMatches, NothingLost, Rotating, Writing, Whole,
       Others, history
  <1>4. Stale' /\ Calm' /\ Grows'
    BY <1>1 DEF IInv, Stale, Fresh, Calm, Grows, Rotating, Writing, Whole, Others, history
  <1> QED
    BY <1>2, <1>3, <1>4 DEF IInv

LEMMA MoveArtifactInv == ASSUME IInv, MoveArtifact PROVE IInv'
  <1>1. /\ place = "moveArtifact" /\ place' = "moveManifest" /\ UNCHANGED Others
        /\ previous' = previous
        /\ tmp' = [tmp EXCEPT !.artifact = current.artifact]
        /\ current' = [current EXCEPT !.artifact = NoFile]
        /\ tmp = Empty /\ Whole(current) /\ current.manifest = found
    BY DEF MoveArtifact, IInv, Control, Whole
  <1>2. /\ current' \in Slots /\ tmp' \in Slots
        /\ current'.artifact = NoFile /\ current'.manifest = found
        /\ tmp'.artifact = found.of /\ tmp'.manifest = NoFile
        /\ found # NoFile /\ current.artifact # NoFile
    BY <1>1 DEF IInv, PublicationTypeOK, Slots, Empty, Whole
  <1>3. PublicationTypeOK'
    BY <1>1, <1>2 DEF IInv, PublicationTypeOK, Others, history, PublicationPlaces
  <1>4. Control' /\ Newest' /\ PreviousMatches' /\ NothingLost'
    BY <1>1, <1>2 DEF IInv, Control, Newest, PreviousMatches, NothingLost, Rotating, Writing,
       Whole, Others, history
  <1>5. Stale' /\ Calm' /\ Grows'
    BY <1>1, <1>2 DEF IInv, Stale, Fresh, Calm, Grows, Rotating, Writing, Whole, Others, history
  <1> QED
    BY <1>3, <1>4, <1>5 DEF IInv

LEMMA MoveManifestInv == ASSUME IInv, MoveManifest PROVE IInv'
  <1>1. /\ place = "moveManifest" /\ place' = "clearPrevious" /\ UNCHANGED Others
        /\ previous' = previous
        /\ tmp' = [tmp EXCEPT !.manifest = current.manifest]
        /\ current' = [current EXCEPT !.manifest = NoFile]
        /\ found # NoFile
        /\ current.artifact = NoFile /\ current.manifest = found
        /\ tmp.manifest = NoFile /\ tmp.artifact = found.of
    BY DEF MoveManifest, IInv, Control, Rotating
  <1>2. /\ current' \in Slots /\ tmp' \in Slots
        /\ current' = Empty
        /\ tmp'.artifact = found.of /\ tmp'.manifest = found
    BY <1>1 DEF IInv, PublicationTypeOK, Slots, Empty
  <1>3. Whole(tmp')
    <2>1. found.of # NoFile
      BY <1>1, NoneAssumption DEF IInv, PublicationTypeOK, Manifests
    <2> QED
      BY <1>1, <1>2, <2>1 DEF Whole
  <1>4. PublicationTypeOK'
    BY <1>1, <1>2 DEF IInv, PublicationTypeOK, Others, history, PublicationPlaces
  <1>5. Control' /\ Newest' /\ PreviousMatches' /\ NothingLost'
    BY <1>1, <1>2, <1>3, EmptySlot DEF IInv, Control, Newest, PreviousMatches, NothingLost,
       Rotating, Writing, Whole, Others, history
  <1>6. Stale' /\ Calm' /\ Grows'
    BY <1>1, <1>2, EmptySlot DEF IInv, Stale, Fresh, Calm, Grows, Rotating, Writing, Whole,
       Others, history
  <1> QED
    BY <1>4, <1>5, <1>6 DEF IInv

LEMMA ClearPreviousInv == ASSUME IInv, ClearPrevious PROVE IInv'
  <1>1. /\ place = "clearPrevious" /\ place' \in {"clearPrevious", "promote"} /\ UNCHANGED Others
        /\ current' = current /\ tmp' = tmp
        /\ previous' \in Slots
        /\ previous' = Empty \/ previous' \in Deleted(previous)
        /\ place' = "promote" => previous' = Empty
        /\ previous = Empty => previous' = Empty
    <2>1. CASE previous = Empty
      BY <2>1, EmptySlot DEF ClearPrevious
    <2>2. CASE previous # Empty
      BY <2>2, DeletedSlot DEF ClearPrevious, IInv, PublicationTypeOK
    <2> QED
      BY <2>1, <2>2
  <1>2. /\ previous'.artifact \in {previous.artifact, NoFile}
        /\ previous'.artifact = NoFile \/ previous'.manifest = NoFile
        /\ ~Whole(previous')
    BY <1>1, EmptySlot, DeletedSlot DEF IInv, PublicationTypeOK, Whole
  <1>3. PublicationTypeOK'
    BY <1>1 DEF IInv, PublicationTypeOK, Others, history, PublicationPlaces
  <1>4. Control' /\ Newest' /\ PreviousMatches' /\ NothingLost'
    BY <1>1, <1>2 DEF IInv, Control, Newest, PreviousMatches, NothingLost, Rotating, Writing,
       Whole, Others, history
  <1>5. Stale' /\ Calm' /\ Grows'
    BY <1>1, <1>2, EmptySlot DEF IInv, Stale, Fresh, Calm, Grows, Control, Rotating, Writing, Whole,
       Others, history
  <1> QED
    BY <1>3, <1>4, <1>5 DEF IInv

LEMMA PromoteInv == ASSUME IInv, Promote PROVE IInv'
  <1>1. /\ place = "promote" /\ place' = "writeArtifact" /\ UNCHANGED Others
        /\ current' = current /\ previous' = tmp /\ tmp' = Empty
        /\ current = Empty /\ Whole(tmp) /\ tmp.manifest = found
        /\ version > found.version /\ found.of = done /\ done < MaxPublished
    BY DEF Promote, IInv, Control, Newest, Rotating
  <1>2. /\ Whole(previous') /\ previous'.artifact = done /\ previous'.manifest = found
        /\ ~Whole(current')
    BY <1>1, EmptySlot DEF Whole
  <1>3. PublicationTypeOK'
    BY <1>1, EmptySlot DEF IInv, PublicationTypeOK, Others, history, PublicationPlaces
  <1>4. Control' /\ Newest' /\ PreviousMatches' /\ NothingLost'
    BY <1>1, <1>2 DEF IInv, Control, Newest, PreviousMatches, NothingLost, Rotating, Writing,
       Whole, Others, history
  <1>5. Stale'
    BY <1>1, <1>2, <1>3, BuildsAssumption, CrashesAssumption
    DEF PublicationTypeOK, Stale, Fresh, Rotating, Others, history
  <1>6. Calm'
    BY <1>1, <1>2 DEF Calm, Writing, Whole
  <1>7. Grows'
    <2>1. done # 0
      BY <1>1, <1>2, Fields, NoneAssumption DEF IInv, PublicationTypeOK, Whole, Builds
    <2> QED
      BY <1>1, <1>2, <2>1 DEF Grows, Writing, Others, history
  <1> QED
    BY <1>3, <1>4, <1>5, <1>6, <1>7 DEF IInv

LEMMA WriteArtifactInv == ASSUME IInv, WriteArtifact PROVE IInv'
  <1>1. /\ place = "writeArtifact" /\ place' = "writeManifest" /\ UNCHANGED Others
        /\ previous' = previous /\ tmp' = tmp
        /\ current' = [current EXCEPT !.artifact = done + 1]
        /\ current = Empty /\ done < MaxPublished
    BY DEF WriteArtifact, IInv, Control, Newest, Writing
  <1>2. /\ current' \in Slots /\ current'.artifact = done + 1 /\ current'.manifest = NoFile
        /\ ~Whole(current') /\ ~Whole(current) /\ current.manifest = NoFile
    BY <1>1, EmptySlot, BuildsAssumption DEF IInv, PublicationTypeOK, Slots, Empty, Whole, Builds
  <1>3. PublicationTypeOK'
    BY <1>1, <1>2 DEF IInv, PublicationTypeOK, Others, history, PublicationPlaces
  <1>4. Control' /\ Newest' /\ PreviousMatches' /\ NothingLost'
    BY <1>1, <1>2 DEF IInv, Control, Newest, PreviousMatches, NothingLost, Rotating, Writing,
       Whole, Others, history
  <1>5. Stale' /\ Calm' /\ Grows'
    BY <1>1, <1>2 DEF IInv, Stale, Fresh, Calm, Grows, Rotating, Writing, Whole, Others, history
  <1> QED
    BY <1>3, <1>4, <1>5 DEF IInv

LEMMA WriteManifestInv == ASSUME IInv, WriteManifest PROVE IInv'
  <1>1. /\ place = "writeManifest" /\ place' = "idle"
        /\ previous' = previous /\ tmp' = tmp
        /\ current' = [current EXCEPT !.manifest = [of |-> done + 1, version |-> version]]
        /\ done' = done + 1 /\ done < MaxPublished
        /\ current.artifact = done + 1 /\ current.manifest = NoFile
        /\ UNCHANGED <<found, version, crashes, startedOver, refused>>
    BY DEF WriteManifest, IInv, Control, Newest, Writing
  <1>2. /\ current' \in Slots /\ current'.artifact = done + 1
        /\ current'.manifest = [of |-> done + 1, version |-> version]
    BY <1>1, BuildsAssumption DEF IInv, PublicationTypeOK, Slots, Builds, Manifests
  <1>3. Whole(current') /\ current'.manifest.version = version
    <2>1. done + 1 # NoFile /\ [of |-> done + 1, version |-> version] # NoFile
      BY NoneAssumption, BuildsAssumption DEF IInv, PublicationTypeOK, Builds, Manifests
    <2> QED
      BY <1>2, <2>1 DEF Whole
  <1>4. PublicationTypeOK'
    BY <1>1, <1>2, BuildsAssumption DEF IInv, PublicationTypeOK, PublicationPlaces
  <1>5. Control' /\ Newest' /\ PreviousMatches' /\ NothingLost'
    BY <1>1, <1>2, <1>3 DEF IInv, Control, Newest, PreviousMatches, NothingLost, Rotating,
       Writing, Whole
  <1>6. Stale'
    <2>1. previous.artifact # NoFile => previous.artifact \in Nat /\ previous.artifact + crashes >= done
      BY <1>1, Fields DEF IInv, PublicationTypeOK, Stale, Fresh, Rotating, Builds
    <2> QED
      BY <1>1, <1>2, <1>3, <2>1, BuildsAssumption, CrashesAssumption
      DEF IInv, PublicationTypeOK, Stale, Fresh, Rotating, Whole
  <1>7. Calm'
    BY <1>1, <1>2, <1>3, BuildsAssumption DEF IInv, PublicationTypeOK, Calm, Writing, Whole
  <1>8. Grows'
    BY <1>1, <1>2, <1>3, BuildsAssumption DEF IInv, PublicationTypeOK, Grows, Writing, Whole
  <1> QED
    BY <1>4, <1>5, <1>6, <1>7, <1>8 DEF IInv

LEMMA NextInv == ASSUME IInv, [PublicationNext]_publicationVars PROVE IInv'
  <1>1. CASE UNCHANGED publicationVars
    BY <1>1 DEF publicationVars, slots, history, IInv, PublicationTypeOK, Control, Newest, PreviousMatches, Stale,
       Fresh, NothingLost, Calm, Grows, Whole
  <1>2. CASE Decline
    BY <1>2, StopInv DEF Decline, history
  <1>3. CASE PublicationDies
    BY <1>3, StopInv DEF PublicationDies
  <1> QED
    BY <1>1, <1>2, <1>3, LoadPreviousInv, PublishInv, ClearTmpInv, MoveArtifactInv,
       MoveManifestInv, ClearPreviousInv, PromoteInv, WriteArtifactInv, WriteManifestInv
    DEF PublicationNext

LEMMA SpecInv == PublicationSpec => []IInv
  BY InitInv, NextInv, PTL DEF PublicationSpec

-----------------------------------------------------------------------------

\* The types of every variable.
THEOREM TypeCorrect == PublicationSpec => []PublicationTypeOK
  BY SpecInv, PTL DEF IInv

\* previous/ never mixes the files of two builds, at any crash.
THEOREM PreviousNeverMixed == PublicationSpec => []PreviousMatches
  BY SpecInv, PTL DEF IInv

\* No sequence of interrupted runs destroys the last copy of a published build.
THEOREM LastBuildSurvives == PublicationSpec => []NothingLost
  BY SpecInv, PTL DEF IInv

LEMMA StaleOnce == IInv => StaleByCrashes
  <1> SUFFICES ASSUME IInv, Loads # NoFile PROVE Loads + 1 + crashes >= done
    BY DEF StaleByCrashes
  <1>1. done \in Nat /\ crashes \in Nat
    BY BuildsAssumption, CrashesAssumption DEF IInv, PublicationTypeOK
  <1>2. CASE Whole(current)
    BY <1>1, <1>2 DEF IInv, Newest, Loads
  <1>3. CASE ~Whole(current)
    <2>1. Loads = previous.artifact /\ previous.artifact \in Nat /\ previous.artifact # NoFile
      BY <1>3, Fields DEF IInv, PublicationTypeOK, Loads, Whole, Builds
    <2> QED
      BY <1>1, <2>1 DEF IInv, Stale
  <1> QED
    BY <1>2, <1>3

LEMMA StaleOnceNext == IInv' => StaleByCrashes'
  BY StaleOnce, PTL

\* A cold start falls behind by at most one build for every run that died.
THEOREM StalenessBounded == PublicationSpec => []StaleByCrashes
  BY SpecInv, StaleOnce, PTL

\* Without crashes a cold start finds a build from the second publication on,
\* but for the gap in which previous/ is replaced.
THEOREM FallbackGuaranteed == PublicationSpec => []FallbackKept
  <1>1. IInv => FallbackKept
    <2> SUFFICES ASSUME IInv, Whole(previous) PROVE Loads # NoFile
      BY DEF FallbackKept, IInv, Calm
    <2> QED
      BY DEF Loads, Whole
  <1> QED
    BY <1>1, SpecInv, PTL

\* Versions grow from the fallback to the current build, but for a run that
\* took itself for the first.
THEOREM VersionsAlwaysGrow == PublicationSpec => []VersionsGrow
  <1>1. IInv => VersionsGrow
    BY DEF IInv, Grows, VersionsGrow
  <1> QED
    BY <1>1, SpecInv, PTL

-----------------------------------------------------------------------------
(* The directory implements the store *)

LEMMA KeptMembers ==
  ASSUME NEW n
  PROVE n \in Kept <=>
          \/ Whole(current) /\ n = current.artifact
          \/ Whole(previous) /\ n = previous.artifact
          \/ Whole(tmp) /\ n = tmp.artifact
          \/ Moving /\ n = tmp.artifact
  BY DEF Kept

LEMMA KeptMembersNext ==
  ASSUME NEW n
  PROVE n \in Kept' <=>
          \/ Whole(current)' /\ n = current'.artifact
          \/ Whole(previous)' /\ n = previous'.artifact
          \/ Whole(tmp)' /\ n = tmp'.artifact
          \/ Moving' /\ n = tmp'.artifact
  BY DEF Kept

\* The newest build is there, wherever its files have got to.
NewestSafe == done > 0 => done \in Kept

\* A step that moves or deletes files takes no build but the newest along.
FilesMove ==
  \/ ClearTmp \/ MoveArtifact \/ MoveManifest \/ ClearPrevious \/ Promote \/ WriteArtifact

LEMMA FilesMoveKeeps ==
  ASSUME IInv, FilesMove
  PROVE /\ Kept' \subseteq Kept
        /\ NewestSafe => NewestSafe'
        /\ done' = done /\ crashes' = crashes
  <1>1. done' = done /\ crashes' = crashes
    BY DEF FilesMove, ClearTmp, MoveArtifact, MoveManifest, ClearPrevious, Promote,
       WriteArtifact, Others, history
  <1>2. CASE ClearTmp
    <2>1. /\ current' = current /\ previous' = previous /\ Whole(current)
          /\ current.artifact = done
          /\ tmp' = tmp \/ tmp' \in Deleted(tmp)
      BY <1>2 DEF ClearTmp, IInv, Control, Newest
    <2>2. Whole(current)' /\ ~Moving' /\ (tmp' = tmp \/ ~Whole(tmp)')
      BY <2>1, DeletedSlot DEF Whole, Moving, IInv, PublicationTypeOK
    <2> QED
      BY <1>1, <2>1, <2>2, KeptMembers, KeptMembersNext DEF NewestSafe, Whole
  <1>3. CASE MoveArtifact
    <2>1. /\ previous' = previous /\ Whole(current) /\ current.artifact = done
          /\ tmp = Empty /\ tmp' = [tmp EXCEPT !.artifact = current.artifact]
          /\ current' = [current EXCEPT !.artifact = NoFile]
          /\ current \in Slots /\ tmp \in Slots
      BY <1>3 DEF MoveArtifact, IInv, PublicationTypeOK, Control, Newest, Whole
    <2>2. /\ ~Whole(current)' /\ ~Whole(tmp)' /\ Moving' /\ tmp'.artifact = done
      BY <2>1 DEF Whole, Moving, Slots, Empty
    <2> QED
      BY <1>1, <2>1, <2>2, KeptMembers, KeptMembersNext DEF NewestSafe, Whole
  <1>4. CASE MoveManifest
    <2>1. /\ previous' = previous /\ current.artifact = NoFile /\ current.manifest = found
          /\ tmp.manifest = NoFile /\ tmp.artifact = found.of /\ found # NoFile /\ found.of = done
          /\ tmp' = [tmp EXCEPT !.manifest = current.manifest]
          /\ current' = [current EXCEPT !.manifest = NoFile]
          /\ current \in Slots /\ tmp \in Slots
      BY <1>4 DEF MoveManifest, IInv, PublicationTypeOK, Control, Newest, Rotating
    <2>2. found \in Manifests /\ found.of # NoFile
      BY <2>1, NoneAssumption DEF IInv, PublicationTypeOK, Manifests
    <2>3. ~Whole(current)' /\ ~Moving' /\ Whole(tmp)' /\ tmp'.artifact = done /\ Moving /\ tmp.artifact = done
      BY <2>1, <2>2 DEF Whole, Moving, Slots
    <2> QED
      BY <1>1, <2>1, <2>3, KeptMembers, KeptMembersNext DEF NewestSafe, Whole
  <1>5. CASE ClearPrevious
    <2>1. /\ current' = current /\ tmp' = tmp /\ current = Empty /\ Whole(tmp)
          /\ tmp.manifest = found /\ found.of = done
          /\ previous' = previous \/ previous' \in Deleted(previous)
      BY <1>5 DEF ClearPrevious, IInv, Control, Newest, Rotating
    <2>2. /\ Whole(tmp)' /\ tmp'.artifact = done /\ ~Moving'
          /\ previous' = previous \/ ~Whole(previous)'
      BY <2>1, DeletedSlot, EmptySlot DEF Whole, Moving, IInv, PublicationTypeOK
    <2> QED
      BY <1>1, <2>1, <2>2, KeptMembers, KeptMembersNext DEF NewestSafe, Whole
  <1>6. CASE Promote
    <2>1. /\ current' = current /\ previous' = tmp /\ tmp' = Empty
          /\ Whole(tmp) /\ tmp.manifest = found /\ found.of = done
      BY <1>6 DEF Promote, IInv, Control, Newest, Rotating
    <2>2. Whole(previous)' /\ previous'.artifact = done /\ ~Whole(tmp)' /\ ~Moving'
      BY <2>1, EmptySlot DEF Whole, Moving
    <2> QED
      BY <1>1, <2>1, <2>2, KeptMembers, KeptMembersNext DEF NewestSafe, Whole
  <1>7. CASE WriteArtifact
    <2>1. /\ previous' = previous /\ tmp' = tmp /\ current = Empty /\ current \in Slots
          /\ current' = [current EXCEPT !.artifact = done + 1]
      BY <1>7 DEF WriteArtifact, IInv, PublicationTypeOK, Control
    <2>2. ~Whole(current) /\ ~Whole(current)' /\ ~Moving /\ ~Moving'
      BY <2>1, EmptySlot DEF Whole, Moving, Slots
    <2> QED
      BY <1>1, <2>1, <2>2, KeptMembers, KeptMembersNext DEF NewestSafe, Whole
  <1> QED
    BY <1>1, <1>2, <1>3, <1>4, <1>5, <1>6, <1>7 DEF FilesMove

\* The manifest is the second file: with it the build is complete.
LEMMA WriteManifestCompletes ==
  ASSUME IInv, WriteManifest
  PROVE /\ done' = done + 1 /\ crashes' = crashes
        /\ Kept' = Kept \cup {done + 1}
        /\ Loads' = done + 1
        /\ NewestSafe'
  <1>1. /\ previous' = previous /\ tmp' = tmp /\ current \in Slots
        /\ current.artifact = done + 1 /\ current.manifest = NoFile
        /\ current' = [current EXCEPT !.manifest = [of |-> done + 1, version |-> version]]
        /\ done' = done + 1 /\ crashes' = crashes /\ done + 1 \in Builds
    BY BuildsAssumption DEF WriteManifest, IInv, PublicationTypeOK, Control, Builds
  <1>2. done + 1 # NoFile /\ [of |-> done + 1, version |-> version] # NoFile
    BY <1>1, NoneAssumption DEF IInv, PublicationTypeOK, Manifests
  <1>3. Whole(current)' /\ current'.artifact = done + 1 /\ ~Whole(current) /\ ~Moving /\ ~Moving'
    BY <1>1, <1>2 DEF Whole, Moving, Slots
  <1> QED
    BY <1>1, <1>3, KeptMembers, KeptMembersNext DEF NewestSafe, Loads, Whole

\* What a cold start loads is one of the builds kept, and no older than allowed.
LEMMA LoadsKept ==
  ASSUME IInv
  PROVE Loads \in {n \in Kept : n + 1 + crashes >= done} \cup {NoFile}
  BY KeptMembers, StaleOnce DEF StaleByCrashes, Loads

\* A step of the directory is a step of the store or leaves it as it is.
LEMMA StoreStep ==
  ASSUME IInv, IInv', NewestSafe, [PublicationNext]_publicationVars
  PROVE NewestSafe' /\ [Store!StoreNext]_<<done, Kept, Loads, crashes>>
  <1>1. Loads' \in {n \in Kept' : n + 1 + crashes' >= done'} \cup {NoFile}
    BY LoadsKept, KeptMembersNext, StaleOnceNext DEF StaleByCrashes, Loads
  <1>2. CASE FilesMove
    <2>1. Store!Rotate
      BY <1>1, <1>2, FilesMoveKeeps DEF Store!Rotate, NewestSafe
    <2> QED
      BY <1>2, <2>1, FilesMoveKeeps DEF Store!StoreNext
  <1>3. CASE WriteManifest
    BY <1>3, WriteManifestCompletes DEF Store!StoreNext, Store!Complete
  <1>4. CASE PublicationDies
    BY <1>4 DEF PublicationDies, slots, NewestSafe, Kept, Moving, Whole, Loads, Store!StoreNext, Store!Abandon
  <1>5. CASE LoadPrevious \/ Decline \/ Publish \/ UNCHANGED publicationVars
    <2>1. UNCHANGED slots /\ done' = done /\ crashes' = crashes
      BY <1>5 DEF LoadPrevious, Decline, Publish, publicationVars, history
    <2> QED
      BY <2>1 DEF slots, NewestSafe, Kept, Moving, Whole, Loads
  <1> QED
    BY <1>2, <1>3, <1>4, <1>5 DEF PublicationNext, FilesMove

\* However publications are interrupted, the slots behave as the store in which
\* builds appear at once and the newest is never lost.
THEOREM PublicationImplementsStore == PublicationSpec => ImplementsStore
  <1>1. PublicationInit => NewestSafe /\ Store!StoreInit
    BY EmptySlot DEF PublicationInit, NewestSafe, Store!StoreInit, Kept, Moving, Loads
  <1> QED
    BY <1>1, SpecInv, StoreStep, PTL DEF PublicationSpec, ImplementsStore, Store!StoreSpec, Store!storeVars

=============================================================================
