--------------------------- MODULE MCFocusLeases ---------------------------
(* A small instance of FocusLeases for TLC. *)
EXTENDS FocusLeases

Pids == {"game", "shell"}
Peers == {"gnome", "other"}
Owners == [p \in Pids |-> IF p = "game" THEN 1 ELSE 0]
PeerUids == [p \in Peers |-> IF p = "gnome" THEN 1 ELSE 0]
=============================================================================
