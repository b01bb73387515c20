------------------------------- MODULE Pacer -------------------------------
(***************************************************************************)
(* The pacing queue of src/src/core/pacer.cpp, with the two callbacks of   *)
(* main.cpp that drive it (on_event's HWHEEL branch and on_timer) and the  *)
(* part of the event loop that decides when on_timer runs.                 *)
(*                                                                         *)
(* Two clocks meet here.  The timerfd counts CLOCK_MONOTONIC and is        *)
(* modelled by the ticks left until it expires.  Damping compares          *)
(* timestamps of input events; consecutive events are an arbitrary gap     *)
(* apart, whatever the timer did meanwhile, because an event may be        *)
(* handled long after it was stamped.                                      *)
(***************************************************************************)
EXTENDS Integers

CONSTANTS
  Combos,      \* key combos with at least one key
  Capacity,    \* config::max_queued_actions
  Profiles,    \* timing profiles a reload may install
  MinPacing, MaxPacing,   \* range of their pacing intervals
  MaxDamping,  \* longest damping timeout
  MaxGap       \* largest gap, in event time, between two wheel events

NoCombo == "no combo"      \* a KeyCombo{} with count = 0
Off     == -1              \* a disarmed timerfd
Slots   == 0 .. Capacity - 1

ProfileType ==
  [pacing_interval : Nat, key_release_delay : Nat, damping_timeout : Nat]

ASSUME PacerAssumption ==
  /\ Capacity \in Nat \ {0, 1}
  /\ Profiles \subseteq ProfileType
  /\ MinPacing \in Nat \ {0} /\ MaxPacing \in Nat /\ MaxDamping \in Nat
  /\ \A p \in Profiles : /\ p.pacing_interval \in MinPacing .. MaxPacing
                         /\ p.key_release_delay > 0
                         /\ p.damping_timeout \in 1 .. MaxDamping
  /\ MinPacing <= MaxPacing
  /\ NoCombo \notin Combos
  /\ MaxGap \in Nat

VARIABLES
  buffer, head, tail, count,     \* the ring of PacingQueue
  release_pending, held_combo,   \* keys are down; which ones
  profile,                       \* what the profile pointer shows: settings.profile
  silence,       \* event time since last_input_ns
  timer,         \* timerfd: Off, or ticks until it expires; 0 is an unread expiry
  reported,      \* epoll_wait returned timer_fd; on_timer has not run yet
  kbd,           \* combos whose keys are down on the virtual keyboard
  rested         \* history: ticks since keys last went up

vars == <<buffer, head, tail, count, release_pending, held_combo, profile,
          silence, timer, reported, kbd, rested>>

ring  == <<buffer, head, tail, count>>
held  == <<release_pending, held_combo>>

(* Slips: forms a definition below could take by mistake, kept to show that *)
(* each property fails when the code goes wrong.                            *)
Wrap_unmasked(n) == n
HeadAfterPush_kept == head
FirstInFlight_any(n) == n >= 1 /\ ~release_pending
RearmAfterRelease_short == IF count > 0 THEN 1 ELSE Off

(* n & mask, for an index advanced by less than one turn of the ring.       *)
Wrap(n) == IF n >= Capacity THEN n - Capacity ELSE n

(* Only comparisons with the profiles' intervals look at the two elapsed    *)
(* times, so they stop growing where no comparison changes any more.        *)
UpTo(n, bound) == IF n <= bound THEN n ELSE bound

(* A full ring drops its oldest combo to make room.                         *)
HeadAfterPush == IF count >= Capacity THEN Wrap(head + 1) ELSE head

(* A push arms the timer only if nothing else is being paced, n combos then *)
(* waiting.                                                                 *)
FirstInFlight(n) == n = 1 /\ ~release_pending

(* The keyboard after emit_combo_up(held_combo).                            *)
Lifted == kbd \ {held_combo}

(* What process_timer sets the timer to after a release, after a press.     *)
RearmAfterRelease == IF count > 0 THEN profile.pacing_interval ELSE Off
RearmAfterPress == profile.key_release_delay

-----------------------------------------------------------------------------

Init ==
  /\ buffer = [i \in Slots |-> NoCombo]
  /\ head = 0 /\ tail = 0 /\ count = 0
  /\ release_pending = FALSE /\ held_combo = NoCombo
  /\ profile \in Profiles
  /\ silence = 0
  /\ timer = Off /\ reported = FALSE
  /\ kbd = {}
  /\ rested = MaxPacing

(* A wheel event whose tick resolved to combo c: enqueue_combo.  The        *)
(* check_damping call that ends the handler sees a silence of 0 and         *)
(* returns, damping_timeout being positive.                                 *)
enqueue_combo(c) ==
  /\ silence' = 0
  /\ head' = HeadAfterPush
  /\ buffer' = [buffer EXCEPT ![tail] = c]
  /\ tail' = Wrap(tail + 1)
  /\ count' = UpTo(count + 1, Capacity)
  /\ timer' = IF FirstInFlight(count') THEN profile.pacing_interval ELSE timer
  /\ UNCHANGED <<held, profile, reported, kbd, rested>>

(* A wheel event gap after the previous one that produced no combo          *)
(* (Direction::None, or a direction the preset leaves unbound): only        *)
(* check_damping runs, and flushes when the silence lasted long enough.     *)
check_damping(gap) ==
  /\ silence' = UpTo(silence + gap, MaxDamping)
  /\ IF (count > 0 \/ release_pending) /\ silence' >= profile.damping_timeout
     THEN /\ kbd' = Lifted
          /\ rested' = IF release_pending THEN 0 ELSE rested
          /\ release_pending' = FALSE /\ held_combo' = NoCombo
          /\ head' = 0 /\ tail' = 0 /\ count' = 0
          /\ timer' = Off
          /\ UNCHANGED buffer
     ELSE UNCHANGED <<ring, held, timer, kbd, rested>>
  /\ UNCHANGED <<profile, reported>>

(* process_timer when the read fails, the expiry having been wiped by a     *)
(* timerfd_settime since epoll_wait reported it, and when there is nothing  *)
(* to press.                                                                *)
NothingDue ==
  /\ reported
  /\ timer # 0 \/ (count = 0 /\ ~release_pending)
  /\ reported' = FALSE
  /\ timer' = IF timer = 0 THEN Off ELSE timer
  /\ UNCHANGED <<ring, held, profile, silence, kbd, rested>>

(* process_timer, phase 2: keys up, then pace the next combo if any.        *)
ReleaseKeys ==
  /\ reported /\ timer = 0
  /\ release_pending
  /\ kbd' = Lifted
  /\ rested' = 0
  /\ release_pending' = FALSE /\ held_combo' = NoCombo
  /\ timer' = RearmAfterRelease
  /\ reported' = FALSE
  /\ UNCHANGED <<ring, profile, silence>>

(* process_timer, phase 1: take the oldest combo and press it.              *)
PressKeys ==
  /\ reported /\ timer = 0
  /\ ~release_pending /\ count > 0
  /\ head' = Wrap(head + 1)
  /\ count' = count - 1
  /\ kbd' = kbd \cup {buffer[head]}
  /\ release_pending' = TRUE /\ held_combo' = buffer[head]
  /\ timer' = RearmAfterPress
  /\ reported' = FALSE
  /\ UNCHANGED <<buffer, tail, profile, silence, rested>>

process_timer == NothingDue \/ ReleaseKeys \/ PressKeys

(* epoll_wait returns with timer_fd among the ready descriptors.  Device    *)
(* events of the same batch may still be handled before on_timer.           *)
ReportTimer ==
  /\ timer = 0 /\ ~reported
  /\ reported' = TRUE
  /\ UNCHANGED <<ring, held, profile, silence, timer, kbd, rested>>

(* on_reload copies another profile over settings.profile.  It runs at the  *)
(* top of the loop, never inside a batch.                                   *)
Reload(p) ==
  /\ ~reported
  /\ profile' = p
  /\ UNCHANGED <<ring, held, silence, timer, reported, kbd, rested>>

(* CLOCK_MONOTONIC advances, also while the daemon is busy elsewhere.       *)
Tick ==
  /\ timer' = IF timer > 0 THEN timer - 1 ELSE timer
  /\ rested' = UpTo(rested + 1, MaxPacing)
  /\ UNCHANGED <<ring, held, profile, silence, reported, kbd>>

Next ==
  \/ \E c \in Combos : enqueue_combo(c)
  \/ \E gap \in 0 .. MaxGap : check_damping(gap)
  \/ process_timer
  \/ ReportTimer
  \/ \E p \in Profiles : Reload(p)
  \/ Tick

Spec == Init /\ [][Next]_vars

(* Time passes, the level-triggered epoll registration reports an unread    *)
(* expiry, and the loop calls on_timer for what it was reported.  Nothing   *)
(* is assumed of the user: wheel events and reloads may come or not.        *)
Fairness == WF_vars(Tick) /\ WF_vars(ReportTimer) /\ WF_vars(process_timer)

FairSpec == Spec /\ Fairness

-----------------------------------------------------------------------------

TypeOK ==
  /\ buffer \in [Slots -> Combos \cup {NoCombo}]
  /\ head \in Slots /\ tail \in Slots /\ count \in 0 .. Capacity
  /\ release_pending \in BOOLEAN
  /\ held_combo \in Combos \cup {NoCombo}
  /\ profile \in Profiles
  /\ silence \in Nat
  /\ timer \in Nat \cup {Off}
  /\ reported \in BOOLEAN
  /\ kbd \subseteq Combos
  /\ rested \in Nat

(* The slot a push fills is always the first one behind the waiting combos. *)
RingShape == tail = Wrap(head + count)

(* The timer is armed, or has expired unread, exactly while there is work:  *)
(* a combo waiting or keys to lift.  If it could be off with work left,     *)
(* keys would stay down or queued combos would never come out, since        *)
(* nothing but the timer wakes the pacer.                                   *)
TimerCoversWork == (timer # Off) <=> (count > 0 \/ release_pending)

(* The virtual keyboard holds exactly the combo the pacer remembers, never  *)
(* two combos at once (their modifiers overlap) and never one it forgot,    *)
(* whatever mix of timer expiries and damping flushes lifted keys before.   *)
KeysAsRecorded == kbd = IF release_pending THEN {held_combo} ELSE {}

(* Every slot that is waiting to be pressed holds a real combo.             *)
WaitingAreCombos ==
  \A i \in 0 .. Capacity - 1 : i < count => buffer[Wrap(head + i)] \in Combos

(* Until the next press the timer has at least what is left of a pacing     *)
(* interval to run.                                                         *)
PressIsFarEnough == (timer # Off /\ ~release_pending) => rested + timer >= MinPacing

IInv ==
  /\ TypeOK /\ RingShape /\ TimerCoversWork /\ KeysAsRecorded
  /\ WaitingAreCombos /\ PressIsFarEnough

(* A press comes at least the shortest pacing interval after keys last went *)
(* up, even when the queue ran empty, was flushed or was refilled between.  *)
PressesArePaced == [][(kbd = {} /\ kbd' # {}) => rested >= MinPacing]_vars

(* A combo at the head of the line is not starved: either some combo gets   *)
(* pressed or the line is flushed, however fast new ticks arrive.  And every*)
(* pressed combo is released, whether or not the wheel moves again.         *)
LineMoves ==
  /\ (count > 0) ~> (count = 0 \/ release_pending)
  /\ release_pending ~> ~release_pending

(* The combos waiting in the ring, oldest first.                            *)
Waiting == [i \in 1 .. count |-> buffer[Wrap(head + (i - 1))]]

Promise == INSTANCE PacedKeys WITH waiting <- Waiting, down <- kbd

(* The ring with its timer is one way to keep the promises of PacedKeys:    *)
(* combos come out in the order they went in, only the oldest is ever lost  *)
(* to a full ring, and a flush loses all of them with the keys up.          *)

KeepsPromise == Promise!Spec
=============================================================================
