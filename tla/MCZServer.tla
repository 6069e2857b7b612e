----------------------------- MODULE MCZServer -----------------------------
(* Two connections, so that one may close while the other opens or is      *)
(* being sent a result; two commits and two sessions.                      *)
EXTENDS ZServer

CONSTANTS c1, c2
=============================================================================
