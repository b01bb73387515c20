------------------------------ MODULE MCPacer ------------------------------
(* The shape of the low and the high profile (120/200/2 ms and 60/120/1.5 ms): *)
(* releasing is faster than pacing, pacing faster than damping.             *)
EXTENDS Pacer

MCProfiles ==
  { [pacing_interval |-> 3, key_release_delay |-> 1, damping_timeout |-> 5],
    [pacing_interval |-> 2, key_release_delay |-> 1, damping_timeout |-> 3] }
=============================================================================
