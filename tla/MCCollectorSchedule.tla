----------------------- MODULE MCCollectorSchedule -----------------------
(***************************************************************************)
(* Two channels collected by one worker, and a capability whose period is  *)
(* above the backoff limit.                                                *)
(***************************************************************************)
EXTENDS CollectorSchedule

CONSTANTS c1, c2, catalog

MCInterval == [k \in Capabilities |-> 6]
=============================================================================
