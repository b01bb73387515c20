---------------------------- MODULE ScrollState ----------------------------
(***************************************************************************)
(* The scroll heuristics of src/src/heuristics/scroll_state.cpp: one wheel *)
(* event at a time (tick_leak, then process_hwheel, as on_event calls      *)
(* them) updates the gesture state and either yields a logical tick to the *)
(* left or right or yields none.                                           *)
(*                                                                         *)
(* Timestamps are those the kernel puts on input events.  Nothing in the   *)
(* program selects another clock for the device, so they follow the        *)
(* system's wall clock, which may be set back and forward: it reads        *)
(* mono + ahead - behind, mono being the time that really passed.          *)
(***************************************************************************)
EXTENDS Integers

CONSTANTS
  Profiles,   \* config::Profile records, in some unit of time
  Notches,    \* values of a REL_HWHEEL event, after any inversion
  Gaps,       \* time that may pass between two events
  Steps,      \* by how much the wall clock may be set back at once
  Leaps,      \* by how much it may be set forward at once
  MaxTime,    \* bound on mono
  MaxCount,   \* bound on the observer's counts
  MaxBehind,  \* how far it may be set back in all; 0 when it never is
  MaxAhead    \* how far it may be set forward in all

ProfileType ==
  [idle_reset : Nat, emit_cooldown : Nat, fast_threshold : Nat, slow_threshold : Nat,
   fast_dt : Nat, slow_dt : Nat, leak_interval : Nat, leak_decay_shift : Nat,
   confirmation_window : Nat, reverse_tolerance : Nat]

ASSUME ScrollAssumption ==
  /\ Profiles \subseteq ProfileType
  /\ \A p \in Profiles : /\ p.emit_cooldown <= p.idle_reset
                         /\ p.confirmation_window < p.idle_reset
                         /\ p.confirmation_window < p.leak_interval
                         /\ p.fast_dt < p.slow_dt
                         /\ p.fast_threshold > 0 /\ p.fast_threshold <= p.slow_threshold
  /\ Notches \subseteq Int \ {0}
  /\ Gaps \subseteq Nat /\ Steps \subseteq Nat /\ Leaps \subseteq Nat
  /\ MaxTime \in Nat
  /\ \A p \in Profiles : MaxCount > p.reverse_tolerance + p.slow_threshold + 1
  /\ MaxCount \in Nat
  /\ MaxBehind \in Nat /\ MaxAhead \in Nat

VARIABLES
  scroll,     \* ScrollState
  profile,    \* the effective profile
  mono,       \* when the last event really happened
  behind,     \* how far the wall clock was set back so far
  ahead,      \* how far it was set forward so far
  tick,       \* result of the last process_hwheel: -1 left, 1 right, 0 none
  seen        \* history, see Note

vars == <<scroll, profile, mono, behind, ahead, tick, seen>>

Dirs == {-1, 1}
None == 0
Sign(n) == IF n > 0 THEN 1 ELSE -1
Abs(n) == IF n < 0 THEN -n ELSE n

Still ==
  [accumulator |-> 0, direction |-> None, pending_dir |-> None, reverse_count |-> 0,
   last_event |-> 0, last_emit |-> 0, pending_ts |-> 0]

(* Slips: forms a definition below could take by mistake, kept to show that *)
(* each property fails when the code goes wrong.                            *)
IsJitter_always(s, dir, p) == s.direction # None /\ s.direction # dir
IsJitter_offByOne(s, dir, p) ==
  s.direction # None /\ s.direction # dir /\ s.reverse_count + 1 < p.reverse_tolerance
Counted_keepsPending(s, v, ts) ==
  [s EXCEPT !.accumulator = @ + Abs(v), !.direction = Sign(v), !.reverse_count = 0,
            !.last_event = ts]
Confirms_anyTime(s, dir, ts, p) == s.pending_dir = dir
Sustains_noCooldown(s, total, ts, p) == total >= p.slow_threshold

-----------------------------------------------------------------------------
(* The steps of one call.  s is the gesture state, v the notches moved.     *)

(* tick_leak: the accumulator shifts right once per leak interval.          *)
Leaked(s, ts, p) ==
  LET periods == (ts - s.last_event) \div p.leak_interval IN
  IF s.last_event # 0 /\ periods > 0
  THEN [s EXCEPT !.accumulator = @ \div 2 ^ (periods * p.leak_decay_shift)]
  ELSE s

AfterSilence(s, ts, p) == s.last_event = 0 \/ ts - s.last_event > p.idle_reset

IdleReset(s, ts, p) ==
  IF AfterSilence(s, ts, p)
  THEN [s EXCEPT !.accumulator = 0, !.direction = None, !.reverse_count = 0]
  ELSE s

Reverses(s, dir) == s.direction # None /\ s.direction # dir

IsJitter(s, dir, p) == Reverses(s, dir) /\ s.reverse_count < p.reverse_tolerance

Counted(s, v, ts) ==
  [s EXCEPT !.accumulator = (IF Reverses(s, Sign(v)) THEN 0 ELSE @) + Abs(v),
            !.direction = Sign(v), !.reverse_count = 0, !.last_event = ts,
            !.pending_dir = None, !.pending_ts = 0]

Confirms(s, dir, ts, p) ==
  s.pending_dir = dir /\ ts - s.pending_ts <= p.confirmation_window

StartsGesture(s, ts, p) == s.last_emit = 0 \/ ts - s.last_emit > p.idle_reset

(* dynamic_threshold: a straight line between the two thresholds, flat      *)
(* outside [fast_dt, slow_dt].                                              *)
dynamic_threshold(dt, p) ==
  LET clamped == IF dt < p.fast_dt THEN p.fast_dt ELSE IF dt > p.slow_dt THEN p.slow_dt ELSE dt
  IN p.fast_threshold
     + ((p.slow_threshold - p.fast_threshold) * (clamped - p.fast_dt))
       \div (p.slow_dt - p.fast_dt)

Sustains(s, total, ts, p) ==
  /\ ts - s.last_emit >= p.emit_cooldown
  /\ total >= dynamic_threshold(ts - s.last_event, p)

(* tick_leak and process_hwheel on a wheel event of v notches at time ts.   *)
process_hwheel(v, ts, p) ==
  LET dir   == Sign(v)
      s     == IdleReset(Leaked(scroll, ts, p), ts, p)
      after == Counted(s, v, ts)
      fires == \/ Confirms(s, dir, ts, p)
               \/ ~StartsGesture(s, ts, p) /\ Sustains(s, after.accumulator, ts, p)
  IN
  \/ /\ IsJitter(s, dir, p)
     /\ scroll' = [s EXCEPT !.reverse_count = @ + 1, !.last_event = ts]
     /\ tick' = None
  \/ /\ ~IsJitter(s, dir, p)
     /\ fires
     /\ scroll' = [after EXCEPT !.accumulator = 0, !.last_emit = ts]
     /\ tick' = dir
  \/ /\ ~IsJitter(s, dir, p)
     /\ ~fires
     /\ scroll' = IF StartsGesture(s, ts, p)
                  THEN [after EXCEPT !.pending_dir = dir, !.pending_ts = ts]
                  ELSE after
     /\ tick' = None

-----------------------------------------------------------------------------
(* What an observer of the wheel and of the ticks remembers, in real time:  *)
(* when each direction last moved, when and where the last tick went (and   *)
(* how far the clock had been set forward by then), how many events in a    *)
(* row went the same way, the longest such row each way since the last      *)
(* tick, and how many events since then came in a steady run (each within   *)
(* the confirmation window of the one before, with the profile and the      *)
(* clock left alone).  Counts stop at MaxCount, which no property looks     *)
(* beyond.                                                                  *)
Unseen ==
  [moved |-> [d \in Dirs |-> -1], ticked |-> -1, ahead |-> 0, last_tick |-> None,
   facing |-> None, row |-> 0, longest |-> [d \in Dirs |-> 0], steady |-> 0]

OneMore(n) == IF n < MaxCount THEN n + 1 ELSE n

Note(dir, at, p) ==
  LET same == seen.facing = dir
      near == same /\ at - seen.moved[dir] <= p.confirmation_window
      row  == IF same THEN OneMore(seen.row) ELSE 1
      past == IF tick # None THEN Unseen.longest ELSE seen.longest
  IN seen' = [moved     |-> [seen.moved EXCEPT ![dir] = at],
              ticked    |-> IF tick' = None THEN seen.ticked ELSE at,
              ahead     |-> IF tick' = None THEN seen.ahead ELSE ahead,
              last_tick |-> IF tick' = None THEN seen.last_tick ELSE tick',
              facing    |-> dir,
              row       |-> row,
              longest   |-> [past EXCEPT ![dir] = IF row > @ THEN row ELSE @],
              steady    |-> IF tick' # None THEN 0 ELSE IF near THEN OneMore(seen.steady) ELSE 1]

Init ==
  /\ scroll = Still
  /\ profile \in Profiles
  /\ mono = 1 + MaxBehind /\ behind = 0 /\ ahead = 0
  /\ tick = None
  /\ seen = Unseen

(* The wall clock at real time `at`.                                        *)
Clock(at) == at + ahead - behind

Wheel(v, gap) ==
  /\ mono + gap <= MaxTime
  /\ mono' = mono + gap
  /\ process_hwheel(v, Clock(mono'), profile)
  /\ Note(Sign(v), mono', profile)
  /\ UNCHANGED <<profile, behind, ahead>>

(* on_reload: new settings, and the gesture state starts over.              *)
Reload(p) ==
  /\ profile' = p
  /\ scroll' = Still
  /\ tick' = None
  /\ seen' = Unseen
  /\ UNCHANGED <<mono, behind, ahead>>

(* on_event looks the focused application up on every event, so the         *)
(* effective profile may change in the middle of a gesture, which goes on   *)
(* as it is.                                                                *)
FocusChange(p) ==
  /\ p # profile
  /\ profile' = p
  /\ seen' = [seen EXCEPT !.steady = 0]
  /\ UNCHANGED <<scroll, mono, behind, ahead, tick>>

(* The system's wall clock is set (by an administrator, by NTP, after the   *)
(* machine slept): back, or forward, which to the code is a silence.        *)
SetClockBack(by) ==
  /\ behind + by <= MaxBehind
  /\ behind' = behind + by
  /\ UNCHANGED <<scroll, profile, mono, ahead, tick, seen>>

SetClockForward(by) ==
  /\ ahead + by <= MaxAhead
  /\ ahead' = ahead + by
  /\ seen' = [seen EXCEPT !.steady = 0]
  /\ UNCHANGED <<scroll, profile, mono, behind, tick>>

Next ==
  \/ \E v \in Notches, gap \in Gaps : Wheel(v, gap)
  \/ \E p \in Profiles : Reload(p) \/ FocusChange(p)
  \/ \E by \in Steps : SetClockBack(by)
  \/ \E by \in Leaps : SetClockForward(by)

Spec == Init /\ [][Next]_vars

-----------------------------------------------------------------------------

(* What a wall clock that was set forward when this one was, and never back,*)
(* would say has passed since the last tick: the time that really passed    *)
(* when nobody set the clock forward in between.                            *)
Passed(at) == (at - seen.ticked) + (ahead - seen.ahead)

TypeOK ==
  /\ scroll = [accumulator |-> scroll.accumulator, direction |-> scroll.direction,
               pending_dir |-> scroll.pending_dir, reverse_count |-> scroll.reverse_count,
               last_event |-> scroll.last_event, last_emit |-> scroll.last_emit,
               pending_ts |-> scroll.pending_ts]
  /\ {scroll.direction, scroll.pending_dir, tick} \subseteq Dirs \cup {None}
  /\ {scroll.accumulator, scroll.reverse_count, scroll.last_event, scroll.last_emit, scroll.pending_ts} \subseteq Nat
  /\ profile \in Profiles
  /\ mono \in Nat /\ mono > MaxBehind /\ behind \in 0 .. MaxBehind
  /\ ahead \in 0 .. MaxAhead /\ seen.ahead \in 0 .. ahead
  /\ seen = [moved |-> seen.moved, ticked |-> seen.ticked, ahead |-> seen.ahead,
             last_tick |-> seen.last_tick, facing |-> seen.facing, row |-> seen.row,
             longest |-> seen.longest, steady |-> seen.steady]
  /\ seen.moved \in [Dirs -> Int] /\ seen.longest \in [Dirs -> Nat]
  /\ seen.ticked \in Int /\ {seen.row, seen.steady} \subseteq 0 .. MaxCount
  /\ {seen.last_tick, seen.facing} \subseteq Dirs \cup {None}

(* A gesture start that waits for confirmation points where the gesture     *)
(* points; a stale one never survives a change of direction.                *)
PendingAgrees == scroll.pending_dir # None => scroll.pending_dir = scroll.direction

(* The timestamps the code keeps are those of what really happened, as the  *)
(* clock stood then, give or take how far it was set back since.            *)
EmitIsTick ==
  /\ scroll.last_emit # 0 <=> seen.ticked >= 0
  /\ seen.ticked >= 0 =>
       /\ seen.ticked + seen.ahead - behind <= scroll.last_emit
       /\ scroll.last_emit <= seen.ticked + seen.ahead
       /\ seen.ticked + seen.ahead - behind <= scroll.last_event /\ scroll.last_event > 0
       /\ seen.ticked <= mono
  /\ tick # None => seen.steady = 0

(* A gesture start waits since the wheel last moved its way at the latest,  *)
(* and there was idle time before it, or the clock was set forward by as    *)
(* much.                                                                    *)
PendingIsMove ==
  scroll.pending_dir # None =>
    /\ scroll.pending_ts <= seen.moved[scroll.pending_dir] + ahead
    /\ seen.moved[scroll.pending_dir] \in 0 .. mono
    /\ seen.ticked >= 0 => \E p \in Profiles : Passed(mono) > p.idle_reset

(* Reverse events are counted as they come in a row, and the direction is   *)
(* that of the last tick unless there were too many of them since.          *)
ReversesAreRow ==
  /\ \A d \in Dirs : seen.facing = d => seen.row > 0 /\ seen.longest[d] >= seen.row
  /\ scroll.reverse_count > 0 =>
       /\ scroll.direction # None /\ seen.facing = -scroll.direction
       /\ seen.row >= scroll.reverse_count \/ seen.row = MaxCount

Turned == tick = None /\ \E p \in Profiles : seen.longest[-seen.last_tick] > p.reverse_tolerance

DirectionIsTick ==
  /\ seen.last_tick = None <=> seen.ticked < 0
  /\ seen.last_tick # None /\ (\A p \in Profiles : Passed(mono) <= p.idle_reset) =>
       scroll.direction = seen.last_tick \/ Turned

(* The cooldown of the last tick runs, or ended less than `more` ago, give  *)
(* or take how far the clock was set.                                       *)
Cooling(more) == seen.ticked >= 0 /\ Passed(mono) < profile.emit_cooldown + behind + more

(* A steady run one way either still passes for jitter, one reverse event   *)
(* counted for each of its own, or has turned the gesture and moved the     *)
(* accumulator on with every event since.  There it is held up by the       *)
(* threshold, by the cooldown, or, for its last event only, because a start *)
(* waits for confirmation.                                                  *)
SteadyIsCounted ==
  seen.steady > 0 =>
    /\ seen.facing # None /\ seen.moved[seen.facing] = mono
    /\ scroll.last_event > 0 /\ Clock(mono) <= scroll.last_event
    /\ \/ /\ scroll.direction = -seen.facing
          /\ seen.steady <= scroll.reverse_count
          /\ scroll.reverse_count <= profile.reverse_tolerance
       \/ /\ scroll.direction = seen.facing
          /\ seen.steady <= profile.reverse_tolerance + scroll.accumulator
          /\ \/ /\ scroll.pending_dir = None
                /\ scroll.accumulator < profile.slow_threshold \/ Cooling(0)
             \/ /\ scroll.pending_dir = seen.facing /\ scroll.pending_ts = scroll.last_event
                /\ \/ seen.steady <= profile.reverse_tolerance + profile.slow_threshold
                   \/ Cooling(profile.confirmation_window)

(* The inductive invariant: what makes the filters right.                   *)
IInv ==
  /\ TypeOK /\ PendingAgrees /\ EmitIsTick /\ PendingIsMove /\ ReversesAreRow /\ DirectionIsTick
  /\ SteadyIsCounted

(* What a tick takes: the wheel moved the same way within the confirmation  *)
(* window, or ticked within idle_reset.                                     *)
Earned ==
  \/ seen.moved[tick'] >= 0 /\ mono' - seen.moved[tick'] <= profile.confirmation_window
  \/ seen.ticked >= 0 /\ mono' - seen.ticked <= profile.idle_reset

(* Ghost filter: one isolated twitch of a finger resting on the wheel never *)
(* produces a tick.                                                         *)
NoGhostTicks == [][tick' # None => Earned]_<<mono, seen>>

(* The same as long as the clock was not set back, however often it was set *)
(* forward.                                                                 *)
NoGhostTicksYet == [][tick' # None /\ behind = 0 => Earned]_<<mono, seen>>

(* Two ticks are never closer than emit_cooldown, the confirmation path,    *)
(* which does not look at the cooldown, included: what keeps that path from *)
(* firing is the idle time before the gesture's start, which an application *)
(* with a shorter one may have cut short.  A clock set back never brings    *)
(* two ticks closer; one set forward does, by what it was set forward       *)
(* between them and no more.                                                *)
TicksAreSpaced ==
  [][tick' # None /\ seen.ticked >= 0 =>
       \/ Passed(mono') >= profile.emit_cooldown
       \/ \E p \in Profiles : Passed(mono') > p.idle_reset]_<<mono, seen>>

(* Inside what every profile takes for one gesture, as the clock goes, a    *)
(* tick may go against the tick before it only if more reverse events came  *)
(* in a row since then than the least patient profile tolerates as jitter,  *)
(* whatever profiles the applications had in between.                       *)
NoBounce ==
  [][tick' # None /\ seen.last_tick = -tick' /\ (\A p \in Profiles : Passed(mono') <= p.idle_reset)
       => \E p \in Profiles : seen'.longest[tick'] > p.reverse_tolerance]_<<mono, seen>>

(* The filters never swallow a real swipe: a steady run of events one way,  *)
(* under one profile, yields a tick, once the cooldown is over, within as   *)
(* many events as the debounce and the slow threshold can cost; or the      *)
(* event after, when the gesture ran out of its idle time between the last  *)
(* event in the cooldown and the one that would tick, so that this one is a *)
(* start to be confirmed.  A clock set back prolongs the cooldown by as     *)
(* much as it was set back, and no more; one set forward shortens it.       *)
Responsive ==
  seen.steady > profile.reverse_tolerance + profile.slow_threshold =>
    \/ Cooling(0)
    \/ scroll.pending_dir = seen.facing /\ Cooling(profile.confirmation_window)
=============================================================================
