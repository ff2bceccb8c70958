----------------------------- MODULE MCScreenGuard -----------------------------
(***************************************************************************)
(* The screen guard of the Android app and the protection mode it asks       *)
(* whether to guard, for TLC: one of the two in each behaviour.  ScreenGuard   *)
(* takes every change of the answer for possible, those that Protection        *)
(* allows among them, and the mode never asks the guard.                      *)
(***************************************************************************)
EXTENDS ScreenGuard, Protection

VARIABLE part   (* the module this behaviour is one of *)

appVars == <<part, vars, protectionVars>>

AppInit ==
  /\ part \in {"guard", "mode"}
  /\ Init /\ ProtectionInit
  /\ part = "mode" => ~guardOn

AppNext ==
  /\ UNCHANGED part
  /\ \/ part = "guard" /\ Next /\ UNCHANGED protectionVars
     \/ part = "mode" /\ ProtectionNext /\ UNCHANGED vars

\* In its initial state the guard owes nothing: what is fair then is no step of its own.
AppSpec == AppInit /\ [][AppNext]_appVars /\ Fairness

=============================================================================
