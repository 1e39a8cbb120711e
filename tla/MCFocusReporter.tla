-------------------------- MODULE MCFocusReporter --------------------------
(* FocusReporter alone, for TLC. *)
EXTENDS FocusReporter
=============================================================================
