-------------------------- MODULE MCChannelSessions --------------------------
(***************************************************************************)
(* Two channels, so that two sessions work side by side.                   *)
(***************************************************************************)
EXTENDS ChannelSessions

CONSTANTS w1, r1, r2, i1, c1, c2
=============================================================================
