----------------------------- MODULE ProxyCustody -----------------------------
(***************************************************************************)
(* What the macOS proxy layer promises about the user's network settings,  *)
(* without saying how: before a field is changed the user's own values are *)
(* on disk, the copy on disk is replaced or dropped only while every field *)
(* is the user's again, and nobody but the user decides what the user's    *)
(* values are.  ProxySupervisor.tla is shown to implement this.            *)
(***************************************************************************)
EXTENDS Naturals

CONSTANTS
  NFields,      (* Settable proxy fields, numbered in the order they are written. *)
  Bypass,       (* The fields that are bypass lists.                              *)
  NoSnapshot    (* The snapshot file does not exist.                              *)

ASSUME NFieldsAssumption == NFields \in Nat \ {0}
ASSUME BypassAssumption == Bypass \subseteq 1..NFields

Fields == 1..NFields

(***************************************************************************)
(* "user" is a proxy (or a non-empty bypass list) of the user's, "held" a  *)
(* proxy that is switched off while its server is remembered, "off" one    *)
(* with nothing in it, "blankOn" the moment between the two networksetup   *)
(* calls that switch a proxy off, "ours" the daemon's listener.            *)
(***************************************************************************)
Values == {"user", "held", "off", "blankOn", "ours"}
Choices == {v \in [Fields -> {"user", "held", "off"}] : \A f \in Bypass : v[f] # "held"}

\* ProxyConfiguration.restore writes an enabled setting back and blanks the rest.
Restored(v) == IF v \in {"held", "blankOn"} THEN "off" ELSE v

EmptySnapshot == [f \in {} |-> "off"]
Snapshots == [Fields -> Values] \cup {EmptySnapshot, NoSnapshot}

ASSUME NoSnapshotAssumption == NoSnapshot \notin [Fields -> Values] \cup {EmptySnapshot}

VARIABLES
  settings,   (* What networksetup holds, per field.          *)
  snapshot,   (* The snapshot file.                           *)
  original    (* What the user last chose, per field.         *)

custodyVars == <<settings, snapshot, original>>

\* Every field holds what the user chose, up to what a restore preserves.
PutBack == \A f \in Fields : settings[f] \in {original[f], Restored(original[f])}

\* The file on disk says what the user chose, up to what a restore preserves.
Faithful ==
  /\ snapshot \in [Fields -> Values]
  /\ \A f \in Fields : Restored(snapshot[f]) = Restored(original[f])

CustodyInit ==
  /\ settings \in Choices
  /\ original = settings
  /\ snapshot = NoSnapshot

UserChooses ==
  /\ PutBack
  /\ settings' \in Choices
  /\ original' = settings'
  /\ UNCHANGED snapshot

TakeSnapshot ==
  /\ PutBack
  /\ snapshot' \in {settings, EmptySnapshot}
  /\ UNCHANGED <<settings, original>>

WriteField ==
  /\ Faithful
  /\ \E f \in Fields, v \in Values : settings' = [settings EXCEPT ![f] = v]
  /\ UNCHANGED <<snapshot, original>>

DropSnapshot ==
  /\ PutBack
  /\ snapshot' = NoSnapshot
  /\ UNCHANGED <<settings, original>>

CustodyNext == UserChooses \/ TakeSnapshot \/ WriteField \/ DropSnapshot

CustodySpec == CustodyInit /\ [][CustodyNext]_custodyVars

=============================================================================
