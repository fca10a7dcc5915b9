---------------------------- MODULE MCStatsCache ------------------------------
(* Instances of StatsCache with a clock of four bits: one that wraps in the    *)
(* middle of the run, and one that is negative when the device attaches.       *)
EXTENDS StatsCache

MCNearWrap == 6
MCNegative == -6
==============================================================================
