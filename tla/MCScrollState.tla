--------------------------- MODULE MCScrollState ---------------------------
(* The three profiles of profile.hpp, in units of 5 ms.                     *)
EXTENDS ScrollState

Profile(idle, cooldown, fast, slow, fastDt, slowDt, leak, window, tolerance) ==
  [idle_reset |-> idle, emit_cooldown |-> cooldown, fast_threshold |-> fast,
   slow_threshold |-> slow, fast_dt |-> fastDt, slow_dt |-> slowDt,
   leak_interval |-> leak, leak_decay_shift |-> 1,
   confirmation_window |-> window, reverse_tolerance |-> tolerance]

Low    == Profile(50, 36, 2, 4, 10, 70, 30, 16, 2)
Medium == Profile(40, 20, 1, 3,  8, 50, 40, 14, 1)
High   == Profile(30, 10, 1, 2,  6, 40, 40, 12, 1)

MCProfiles == {Low, High}
OneProfile == {High}
MCNotches  == {-1, 1}
(* Inside every confirmation window, inside the low profile's alone, idle   *)
(* for the high profile, idle for both.                                     *)
MCGaps     == {5, 16, 32, 52}
ClockGaps  == {5, 10, 32}
=============================================================================
