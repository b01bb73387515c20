----------------------------- MODULE PacedKeys -----------------------------
(***************************************************************************)
(* What the pacing queue promises to the rest of the daemon, with no ring  *)
(* buffer, no timer and no clock: accepted combos wait in order in a       *)
(* bounded line that forgets its oldest member when it is full, at most    *)
(* one of them is down on the virtual keyboard, and the line may be thrown *)
(* away as a whole, keys up included.                                      *)
(***************************************************************************)
EXTENDS Naturals, Sequences

CONSTANTS
  Combos,     \* key combos with at least one key
  Capacity    \* how many combos may wait

VARIABLES
  waiting,    \* combos accepted and not yet pressed, oldest first
  down        \* combos whose keys are down on the virtual keyboard

vars == <<waiting, down>>

Init == waiting = <<>> /\ down = {}

Accept(c) ==
  /\ waiting' = Append(IF Len(waiting) = Capacity THEN Tail(waiting) ELSE waiting, c)
  /\ UNCHANGED down

Press ==
  /\ waiting # <<>>
  /\ down = {}
  /\ down' = {Head(waiting)}
  /\ waiting' = Tail(waiting)

Release ==
  /\ down # {}
  /\ down' = {}
  /\ UNCHANGED waiting

Flush == waiting' = <<>> /\ down' = {}

Next == (\E c \in Combos : Accept(c)) \/ Press \/ Release \/ Flush

Spec == Init /\ [][Next]_vars
=============================================================================
