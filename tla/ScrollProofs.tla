---------------------------- MODULE ScrollProofs ----------------------------
(***************************************************************************)
(* Theorems about ScrollState, for every set of profiles that satisfies    *)
(* ScrollAssumption, every set of gaps and notches, and every clock,       *)
(* however it is set back and forward.                                     *)
(***************************************************************************)
EXTENDS ScrollState, FiniteSetTheorems, TLAPS

(* The wheel moved dir at time ts: what becomes of the gesture state, field *)
(* by field, in the three cases of process_hwheel.                          *)
Silent(ts) == AfterSilence(scroll, ts, profile)

Jitters(dir, ts) ==
  /\ ~Silent(ts)
  /\ scroll.direction # None /\ scroll.direction # dir
  /\ scroll.reverse_count < profile.reverse_tolerance

Starts(ts) == scroll.last_emit = 0 \/ ts - scroll.last_emit > profile.idle_reset

Absorbed(dir, ts) ==
  /\ Jitters(dir, ts) /\ tick' = None
  /\ scroll'.direction = scroll.direction
  /\ scroll'.pending_dir = scroll.pending_dir /\ scroll'.pending_ts = scroll.pending_ts
  /\ scroll'.reverse_count = scroll.reverse_count + 1
  /\ scroll'.last_emit = scroll.last_emit

Follows(dir) == scroll'.direction = dir /\ scroll'.reverse_count = 0

Fired(dir, ts) ==
  /\ ~Jitters(dir, ts) /\ tick' = dir /\ Follows(dir)
  /\ scroll'.pending_dir = None /\ scroll'.pending_ts = 0
  /\ scroll'.last_emit = ts
  /\ \/ scroll.pending_dir = dir /\ ts - scroll.pending_ts <= profile.confirmation_window
     \/ ~Starts(ts) /\ ts - scroll.last_emit >= profile.emit_cooldown

(* No tick although no start waits: the threshold or the cooldown.          *)
HeldUp(ts) ==
  \/ scroll'.accumulator < profile.slow_threshold
  \/ scroll.last_emit # 0 /\ ts - scroll.last_emit < profile.emit_cooldown

(* A counted event moves the accumulator on, from where it was if there was *)
(* no time for it to leak and no reason to start over.                      *)
Grown(dir, ts) ==
  /\ scroll'.accumulator > 0
  /\ (~Silent(ts) /\ ts - scroll.last_event < profile.leak_interval /\ scroll.direction = dir) =>
       scroll'.accumulator > scroll.accumulator

Held(dir, ts) ==
  /\ ~Jitters(dir, ts) /\ tick' = None /\ Follows(dir)
  /\ scroll'.last_emit = scroll.last_emit
  /\ \/ Starts(ts) /\ scroll'.pending_dir = dir /\ scroll'.pending_ts = ts
     \/ scroll'.pending_dir = None /\ scroll'.pending_ts = 0 /\ HeldUp(ts)
  /\ ~(scroll.pending_dir = dir /\ ts - scroll.pending_ts <= profile.confirmation_window)
  /\ Grown(dir, ts)

Shaped(s) ==
  s = [accumulator |-> s.accumulator, direction |-> s.direction, pending_dir |-> s.pending_dir,
       reverse_count |-> s.reverse_count, last_event |-> s.last_event, last_emit |-> s.last_emit,
       pending_ts |-> s.pending_ts]

-----------------------------------------------------------------------------
LEMMA SignIsDir == \A v \in Notches : Sign(v) \in Dirs
  BY ScrollAssumption DEF Sign, Dirs

LEMMA SomeNotches == \A v \in Notches : Abs(v) \in Nat /\ Abs(v) > 0
  BY ScrollAssumption DEF Abs

(* The numbers of the profile in force.                                     *)
LEMMA ProfileIs ==
  ASSUME TypeOK
  PROVE  /\ profile.idle_reset \in Nat /\ profile.emit_cooldown \in Nat
         /\ profile.fast_threshold \in Nat /\ profile.slow_threshold \in Nat
         /\ profile.fast_dt \in Nat /\ profile.slow_dt \in Nat
         /\ profile.leak_interval \in Nat /\ profile.leak_decay_shift \in Nat
         /\ profile.confirmation_window \in Nat /\ profile.reverse_tolerance \in Nat
         /\ profile.confirmation_window < profile.idle_reset
         /\ profile.confirmation_window < profile.leak_interval
         /\ profile.fast_dt < profile.slow_dt /\ profile.slow_threshold > 0
         /\ profile.fast_threshold <= profile.slow_threshold
  BY ScrollAssumption DEF TypeOK, ProfileType

(* A power of two is the number of subsets of so many elements, hence a     *)
(* number that can be divided by.                                           *)
LEMMA PowersArePositive == \A n \in Nat : 2 ^ n \in Nat /\ 2 ^ n > 0
<1> SUFFICES ASSUME NEW n \in Nat PROVE 2 ^ n \in Nat /\ 2 ^ n > 0
  OBVIOUS
<1>1. IsFiniteSet(1 .. n) /\ Cardinality(1 .. n) = n
  BY FS_Interval
<1>2. IsFiniteSet(SUBSET (1 .. n)) /\ Cardinality(SUBSET (1 .. n)) = 2 ^ n
  BY <1>1, FS_SUBSET
<1>3. 2 ^ n \in Nat
  BY <1>2, FS_CardinalityType
<1>4. 2 ^ n # 0
  BY <1>2, FS_EmptySet
<1> QED  BY <1>3, <1>4

(* Shifting right leaves a number.                                          *)
LEMMA ShiftIsNat ==
  ASSUME NEW a \in Nat, NEW n \in Nat
  PROVE  a \div 2 ^ n \in Nat
<1> DEFINE d == 2 ^ n
<1>1. d \in Nat /\ d > 0
  BY PowersArePositive
<1> HIDE DEF d
<1>2. a \div d \in Nat
  BY <1>1
<1> QED  BY <1>2 DEF d

(* The part of a that b is of c.                                            *)
LEMMA ShareIsSmaller ==
  ASSUME NEW a \in Nat, NEW b \in Nat, NEW c \in Nat, c > 0, b <= c
  PROVE  (a * b) \div c \in Nat /\ (a * b) \div c <= a
<1> DEFINE q == (a * b) \div c
<1>1. a * b \in Nat /\ a * c \in Nat /\ a * b <= a * c
  OBVIOUS
<1>2. q \in Int /\ q * c <= a * b /\ a * b < q * c + c
  BY <1>1
<1> HIDE DEF q
<1>3. q <= a /\ q >= 0
  BY <1>1, <1>2
<1> QED  BY <1>2, <1>3 DEF q

(* However fast or slow the wheel moves, the threshold is no higher than    *)
(* the slow one.                                                            *)
LEMMA ThresholdIsBounded ==
  ASSUME TypeOK, NEW dt \in Int
  PROVE  /\ dynamic_threshold(dt, profile) \in Nat
         /\ dynamic_threshold(dt, profile) <= profile.slow_threshold
<1> DEFINE clamped == IF dt < profile.fast_dt THEN profile.fast_dt
                      ELSE IF dt > profile.slow_dt THEN profile.slow_dt ELSE dt
           a == profile.slow_threshold - profile.fast_threshold
           b == clamped - profile.fast_dt
           c == profile.slow_dt - profile.fast_dt
<1>1. a \in Nat /\ b \in Nat /\ c \in Nat /\ c > 0 /\ b <= c
  BY ProfileIs
<1>2. dynamic_threshold(dt, profile) = profile.fast_threshold + (a * b) \div c
  BY DEF dynamic_threshold
<1>3. profile.fast_threshold + a = profile.slow_threshold
  BY ProfileIs
<1> HIDE DEF a, b, c
<1>4. (a * b) \div c \in Nat /\ (a * b) \div c <= a
  BY <1>1, ShareIsSmaller
<1> QED  BY <1>1, <1>2, <1>3, <1>4, ProfileIs

(* What tick_leak and the idle reset leave alone.                           *)
LEMMA Prepared ==
  ASSUME TypeOK, NEW ts \in Int, NEW s, s = IdleReset(Leaked(scroll, ts, profile), ts, profile)
  PROVE  /\ Shaped(s)
         /\ s.direction = (IF Silent(ts) THEN None ELSE scroll.direction)
         /\ s.reverse_count = (IF Silent(ts) THEN 0 ELSE scroll.reverse_count)
         /\ s.pending_dir = scroll.pending_dir /\ s.pending_ts = scroll.pending_ts
         /\ s.last_event = scroll.last_event /\ s.last_emit = scroll.last_emit
         /\ s.accumulator \in Nat
         /\ ~Silent(ts) /\ ts - scroll.last_event < profile.leak_interval =>
              s.accumulator = scroll.accumulator
<1> DEFINE k == Leaked(scroll, ts, profile)
<1>1. /\ Shaped(k)
      /\ k.direction = scroll.direction /\ k.reverse_count = scroll.reverse_count
      /\ k.pending_dir = scroll.pending_dir /\ k.pending_ts = scroll.pending_ts
      /\ k.last_event = scroll.last_event /\ k.last_emit = scroll.last_emit
  BY DEF Leaked, TypeOK, Shaped
<1>0. /\ k.accumulator \in Nat
      /\ ts - scroll.last_event < profile.leak_interval => k.accumulator = scroll.accumulator
  <2> DEFINE periods == (ts - scroll.last_event) \div profile.leak_interval
  <2>1. /\ periods \in Int /\ scroll.accumulator \in Nat /\ Shaped(scroll)
        /\ ts - scroll.last_event < profile.leak_interval => ~(periods > 0)
    BY ProfileIs DEF TypeOK, Shaped
  <2>2. k = IF scroll.last_event # 0 /\ periods > 0
            THEN [scroll EXCEPT !.accumulator = @ \div 2 ^ (periods * profile.leak_decay_shift)]
            ELSE scroll
    BY DEF Leaked
  <2> HIDE DEF k, periods
  <2>3. CASE ~(scroll.last_event # 0 /\ periods > 0)
    BY <2>1, <2>2, <2>3
  <2>4. CASE scroll.last_event # 0 /\ periods > 0
    <3>1. periods * profile.leak_decay_shift \in Nat
      BY <2>1, <2>4, ProfileIs
    <3>2. k.accumulator = scroll.accumulator \div 2 ^ (periods * profile.leak_decay_shift)
      BY <2>1, <2>2, <2>4 DEF Shaped
    <3> QED  BY <2>1, <2>4, <3>1, <3>2, ShiftIsNat
  <2> QED  BY <2>3, <2>4
<1>2. AfterSilence(k, ts, profile) <=> Silent(ts)
  BY <1>1 DEF AfterSilence, Silent
<1> HIDE DEF k
<1>3. s = IdleReset(k, ts, profile)
  BY DEF k
<1>4. CASE Silent(ts)
  <2>1. s = [k EXCEPT !.accumulator = 0, !.direction = None, !.reverse_count = 0]
    BY <1>2, <1>3, <1>4 DEF IdleReset
  <2>2. /\ Shaped(s) /\ s.direction = None /\ s.reverse_count = 0 /\ s.accumulator = 0
        /\ s.pending_dir = k.pending_dir /\ s.pending_ts = k.pending_ts
        /\ s.last_event = k.last_event /\ s.last_emit = k.last_emit
    BY <1>1, <2>1 DEF Shaped
  <2> QED  BY <1>1, <1>4, <2>2
<1>5. CASE ~Silent(ts)
  <2>1. s = k
    BY <1>2, <1>3, <1>5 DEF IdleReset
  <2> QED  BY <1>0, <1>1, <1>5, <2>1
<1>6. QED
  BY <1>4, <1>5

LEMMA CountedShape ==
  ASSUME NEW s, Shaped(s), NEW v, NEW ts
  PROVE  LET after == Counted(s, v, ts) IN
         /\ Shaped(after) /\ after.direction = Sign(v) /\ after.reverse_count = 0
         /\ after.last_event = ts /\ after.last_emit = s.last_emit
         /\ after.pending_dir = None /\ after.pending_ts = 0
         /\ after.accumulator = (IF Reverses(s, Sign(v)) THEN 0 ELSE s.accumulator) + Abs(v)
<1> DEFINE total == (IF Reverses(s, Sign(v)) THEN 0 ELSE s.accumulator) + Abs(v)
           dir   == Sign(v)
<1>1. Counted(s, v, ts) = [accumulator |-> total, direction |-> dir, pending_dir |-> None,
                           reverse_count |-> 0, last_event |-> ts, last_emit |-> s.last_emit,
                           pending_ts |-> 0]
  <2>1. Counted(s, v, ts) = [s EXCEPT !.accumulator = total, !.direction = dir,
                                      !.reverse_count = 0, !.last_event = ts,
                                      !.pending_dir = None, !.pending_ts = 0]
    BY DEF Counted
  <2> HIDE DEF total, dir
  <2>2. QED
    BY <2>1 DEF Shaped
<1> HIDE DEF total
<1>2. Counted(s, v, ts).accumulator = total
  BY <1>1
<1>3. QED
  BY <1>1, <1>2 DEF Shaped, total

(* Every wheel event has one of the three outcomes.                         *)
LEMMA Outcome ==
  ASSUME TypeOK, NEW v \in Notches, NEW ts \in Int, process_hwheel(v, ts, profile)
  PROVE  /\ Shaped(scroll') /\ scroll'.last_event = ts /\ scroll'.accumulator \in Nat
         /\ \/ Absorbed(Sign(v), ts) \/ Fired(Sign(v), ts) \/ Held(Sign(v), ts)
<1> DEFINE dir   == Sign(v)
           s     == IdleReset(Leaked(scroll, ts, profile), ts, profile)
           after == Counted(s, v, ts)
           fires == \/ Confirms(s, dir, ts, profile)
                    \/ /\ ~StartsGesture(s, ts, profile)
                       /\ Sustains(s, after.accumulator, ts, profile)
<1>1. /\ Shaped(s)
      /\ s.direction = (IF Silent(ts) THEN None ELSE scroll.direction)
      /\ s.reverse_count = (IF Silent(ts) THEN 0 ELSE scroll.reverse_count)
      /\ s.pending_dir = scroll.pending_dir /\ s.pending_ts = scroll.pending_ts
      /\ s.last_event = scroll.last_event /\ s.last_emit = scroll.last_emit
      /\ s.accumulator \in Nat
      /\ ~Silent(ts) /\ ts - scroll.last_event < profile.leak_interval =>
           s.accumulator = scroll.accumulator
  BY Prepared
<1>2. IsJitter(s, dir, profile) <=> Jitters(dir, ts)
  BY <1>1 DEF IsJitter, Reverses, Jitters
<1>3. StartsGesture(s, ts, profile) <=> Starts(ts)
  BY <1>1 DEF StartsGesture, Starts
<1>4. fires => \/ scroll.pending_dir = dir /\ ts - scroll.pending_ts <= profile.confirmation_window
               \/ ~Starts(ts) /\ ts - scroll.last_emit >= profile.emit_cooldown
  BY <1>1, <1>3 DEF Confirms, Sustains
<1>5. /\ Shaped(after) /\ after.direction = dir /\ after.reverse_count = 0
      /\ after.last_event = ts /\ after.last_emit = scroll.last_emit
      /\ after.pending_dir = None /\ after.pending_ts = 0
      /\ after.accumulator = (IF Reverses(s, dir) THEN 0 ELSE s.accumulator) + Abs(v)
  BY <1>1, CountedShape
<1>10. after.accumulator \in Nat /\ after.accumulator > 0
  BY <1>1, <1>5, SomeNotches
<1>11. ~Silent(ts) /\ ts - scroll.last_event < profile.leak_interval /\ scroll.direction = dir
         => after.accumulator > scroll.accumulator
  BY <1>1, <1>5, SomeNotches DEF Reverses
<1>12. ~fires => ~(/\ scroll.pending_dir = dir
                   /\ ts - scroll.pending_ts <= profile.confirmation_window)
  BY <1>1 DEF Confirms
<1>13. ~fires /\ ~Starts(ts) =>
         \/ after.accumulator < profile.slow_threshold
         \/ scroll.last_emit # 0 /\ ts - scroll.last_emit < profile.emit_cooldown
  <2>1. ASSUME ~fires, ~Starts(ts), ts - scroll.last_emit >= profile.emit_cooldown
        PROVE  after.accumulator < profile.slow_threshold
    <3>1. ~(after.accumulator >= dynamic_threshold(ts - scroll.last_event, profile))
      BY <1>1, <1>3, <2>1 DEF Sustains
    <3>2. ts - scroll.last_event \in Int
      BY DEF TypeOK
    <3> HIDE DEF after
    <3> QED  BY <1>10, <3>1, <3>2, ThresholdIsBounded, ProfileIs
  <2>2. ts - scroll.last_emit \in Int /\ profile.emit_cooldown \in Nat
    BY ProfileIs DEF TypeOK
  <2>3. ~Starts(ts) => scroll.last_emit # 0
    BY DEF Starts
  <2>4. CASE ts - scroll.last_emit >= profile.emit_cooldown
    BY <2>1, <2>4
  <2>5. CASE ts - scroll.last_emit < profile.emit_cooldown
    BY <2>3, <2>5
  <2> QED  BY <2>2, <2>4, <2>5
<1>6. \/ /\ IsJitter(s, dir, profile)
         /\ scroll' = [s EXCEPT !.reverse_count = @ + 1, !.last_event = ts] /\ tick' = None
      \/ /\ ~IsJitter(s, dir, profile) /\ fires
         /\ scroll' = [after EXCEPT !.accumulator = 0, !.last_emit = ts] /\ tick' = dir
      \/ /\ ~IsJitter(s, dir, profile) /\ ~fires /\ tick' = None
         /\ scroll' = IF StartsGesture(s, ts, profile)
                      THEN [after EXCEPT !.pending_dir = dir, !.pending_ts = ts] ELSE after
  BY DEF process_hwheel
<1> HIDE DEF s, after, fires, dir
<1>7. CASE /\ IsJitter(s, dir, profile)
           /\ scroll' = [s EXCEPT !.reverse_count = @ + 1, !.last_event = ts] /\ tick' = None
  <2>1. Shaped(scroll') /\ scroll'.last_event = ts /\ Absorbed(dir, ts)
    BY <1>1, <1>2, <1>7 DEF Shaped, Absorbed, Jitters
  <2>3. scroll'.accumulator \in Nat
    BY <1>1, <1>7 DEF Shaped
  <2>2. QED
    BY <2>1, <2>3 DEF dir
<1>8. CASE /\ ~IsJitter(s, dir, profile) /\ fires
           /\ scroll' = [after EXCEPT !.accumulator = 0, !.last_emit = ts] /\ tick' = dir
  <2>1. Shaped(scroll') /\ scroll'.last_event = ts /\ Fired(dir, ts)
    BY <1>2, <1>4, <1>5, <1>8 DEF Shaped, Fired, Follows
  <2>3. scroll'.accumulator \in Nat
    BY <1>5, <1>8 DEF Shaped
  <2>2. QED
    BY <2>1, <2>3 DEF dir
<1>9. CASE /\ ~IsJitter(s, dir, profile) /\ ~fires /\ tick' = None
           /\ scroll' = IF StartsGesture(s, ts, profile)
                        THEN [after EXCEPT !.pending_dir = dir, !.pending_ts = ts] ELSE after
  <2>1. /\ Shaped(scroll') /\ scroll'.last_event = ts /\ Follows(dir)
        /\ scroll'.accumulator = after.accumulator /\ scroll'.last_emit = scroll.last_emit
        /\ \/ Starts(ts) /\ scroll'.pending_dir = dir /\ scroll'.pending_ts = ts
           \/ ~Starts(ts) /\ scroll'.pending_dir = None /\ scroll'.pending_ts = 0
    BY <1>3, <1>5, <1>9 DEF Shaped, Follows
  <2>2. Grown(dir, ts)
    BY <1>10, <1>11, <2>1 DEF Grown
  <2>3. ~Starts(ts) => HeldUp(ts)
    BY <1>9, <1>13, <2>1 DEF HeldUp
  <2>4. Held(dir, ts)
    BY <1>2, <1>9, <1>12, <2>1, <2>2, <2>3 DEF Held
  <2>5. QED
    BY <1>10, <2>1, <2>4 DEF dir
<1>14. QED
  BY <1>6, <1>7, <1>8, <1>9

-----------------------------------------------------------------------------
(* One wheel event of v notches, dir being where it points: what it leaves  *)
(* of the gesture, and what the observer notes.                             *)
Moved(dir, gap) ==
  /\ gap \in Nat /\ dir \in Dirs
  /\ mono' = mono + gap /\ behind' = behind /\ ahead' = ahead /\ profile' = profile
  /\ Shaped(scroll') /\ scroll'.last_event = Clock(mono') /\ scroll'.accumulator \in Nat
  /\ \/ Absorbed(dir, Clock(mono'))
     \/ Fired(dir, Clock(mono'))
     \/ Held(dir, Clock(mono'))

Noted(dir) ==
  /\ seen' = [moved |-> seen'.moved, ticked |-> seen'.ticked, ahead |-> seen'.ahead,
              last_tick |-> seen'.last_tick, facing |-> seen'.facing, row |-> seen'.row,
              longest |-> seen'.longest, steady |-> seen'.steady]
  /\ seen'.moved \in [Dirs -> Int]
  /\ seen'.moved[dir] = mono' /\ seen'.moved[-dir] = seen.moved[-dir]
  /\ seen'.ticked = (IF tick' = None THEN seen.ticked ELSE mono')
  /\ seen'.ahead = (IF tick' = None THEN seen.ahead ELSE ahead)
  /\ seen'.last_tick = (IF tick' = None THEN seen.last_tick ELSE tick')
  /\ seen'.facing = dir
  /\ seen'.row \in 1 .. MaxCount
  /\ seen.facing = dir => seen'.row = MaxCount \/ seen'.row = seen.row + 1
  /\ seen'.longest \in [Dirs -> Nat]
  /\ seen'.longest[dir] >= seen'.row
  /\ tick = None => \A d \in Dirs : seen'.longest[d] >= seen.longest[d]
  /\ seen'.steady \in 0 .. MaxCount
  /\ tick' # None => seen'.steady = 0
  /\ \/ seen'.steady <= 1
     \/ /\ seen.steady > 0 /\ seen'.steady <= seen.steady + 1
        /\ seen.facing = dir /\ mono' - seen.moved[dir] <= profile.confirmation_window

LEMMA CountIsPositive == (MaxCount \in Nat /\ MaxCount > 0) \/ Profiles = {}
  BY ScrollAssumption DEF ProfileType

LEMMA WheelNotes ==
  ASSUME TypeOK, NEW dir \in Dirs, mono' \in Int, Note(dir, mono', profile)
  PROVE  Noted(dir)
<1> DEFINE at    == mono'
           same  == seen.facing = dir
           near  == same /\ at - seen.moved[dir] <= profile.confirmation_window
           row   == IF same THEN OneMore(seen.row) ELSE 1
           past  == IF tick # None THEN Unseen.longest ELSE seen.longest
           long  == [past EXCEPT ![dir] = IF row > @ THEN row ELSE @]
           there == [seen.moved EXCEPT ![dir] = at]
           run   == IF tick' # None THEN 0 ELSE IF near THEN OneMore(seen.steady) ELSE 1
<1>1. MaxCount \in Nat /\ MaxCount > 0
  BY CountIsPositive DEF TypeOK
<1>2. row \in 1 .. MaxCount /\ (same => row = MaxCount \/ row = seen.row + 1)
  BY <1>1 DEF TypeOK, OneMore
<1>3. run \in 0 .. MaxCount /\ (tick' # None => run = 0)
      /\ (run <= 1 \/ (seen.steady > 0 /\ run <= seen.steady + 1 /\ near))
  BY <1>1 DEF TypeOK, OneMore
<1>4. past \in [Dirs -> Nat] /\ (tick = None => past = seen.longest)
  BY DEF TypeOK, Unseen
<1>5. there \in [Dirs -> Int] /\ there[dir] = at /\ there[-dir] = seen.moved[-dir]
  BY DEF TypeOK, Dirs
<1>6. seen' = [moved |-> there, ticked |-> IF tick' = None THEN seen.ticked ELSE at,
               ahead |-> IF tick' = None THEN seen.ahead ELSE ahead,
               last_tick |-> IF tick' = None THEN seen.last_tick ELSE tick',
               facing |-> dir, row |-> row, longest |-> long, steady |-> run]
  BY DEF Note
<1> HIDE DEF row, run, past
<1>7. long \in [Dirs -> Nat] /\ long[dir] >= row /\ \A d \in Dirs : long[d] >= past[d]
  BY <1>2, <1>4
<1> HIDE DEF long, there
<1>8. QED
  BY <1>2, <1>3, <1>4, <1>5, <1>6, <1>7 DEF Noted

LEMMA WheelStep ==
  ASSUME TypeOK, NEW v \in Notches, NEW gap \in Gaps, Wheel(v, gap)
  PROVE  Moved(Sign(v), gap) /\ Noted(Sign(v))
<1>1. gap \in Nat /\ Sign(v) \in Dirs /\ mono' = mono + gap /\ Clock(mono') \in Int
      /\ mono' \in Int /\ ahead' = ahead
  BY SignIsDir, ScrollAssumption DEF Wheel, TypeOK, Clock
<1>2. Shaped(scroll') /\ scroll'.last_event = Clock(mono') /\ scroll'.accumulator \in Nat
      /\ \/ Absorbed(Sign(v), Clock(mono'))
         \/ Fired(Sign(v), Clock(mono'))
         \/ Held(Sign(v), Clock(mono'))
  BY <1>1, Outcome DEF Wheel
<1>3. Noted(Sign(v))
  BY <1>1, WheelNotes DEF Wheel
<1>4. QED
  BY <1>1, <1>2, <1>3 DEF Moved, Wheel

-----------------------------------------------------------------------------
(* A turn that was not taken for jitter took more reverse events in a row   *)
(* than the profile tolerates.                                              *)
LEMMA TurnTakesRow ==
  ASSUME IInv, NEW v \in Notches, NEW gap \in Gaps, Wheel(v, gap),
         seen.last_tick = -Sign(v), ~Jitters(Sign(v), Clock(mono')),
         \A p \in Profiles : Passed(mono') <= p.idle_reset
  PROVE  \E p \in Profiles : seen'.longest[Sign(v)] > p.reverse_tolerance
<1> DEFINE dir == Sign(v)
<1>1. Moved(dir, gap) /\ Noted(dir) /\ TypeOK /\ dir \in Dirs
  BY WheelStep, SignIsDir DEF IInv
<1>2. /\ profile \in Profiles /\ profile.reverse_tolerance \in Nat
      /\ profile.idle_reset \in Nat /\ MaxCount > profile.reverse_tolerance
      /\ \A p \in Profiles : p.idle_reset \in Nat
  BY <1>1, ScrollAssumption DEF TypeOK, ProfileType
<1> HIDE DEF dir
<1>3. seen.last_tick = -dir /\ -dir # None /\ -(-dir) = dir /\ ~Jitters(dir, Clock(mono'))
      /\ seen.ticked >= 0
  BY <1>1 DEF dir, IInv, DirectionIsTick, Dirs, None, TypeOK
<1>4. CASE Turned
  <2>1. tick = None /\ \E p \in Profiles : seen.longest[dir] > p.reverse_tolerance
    BY <1>3, <1>4 DEF Turned
  <2>2. \A p \in Profiles : p.reverse_tolerance \in Nat
    BY ScrollAssumption DEF ProfileType
  <2>3. seen.longest[dir] \in Nat /\ seen'.longest[dir] \in Nat
        /\ seen'.longest[dir] >= seen.longest[dir]
    BY <1>1, <2>1 DEF Noted, TypeOK
  <2>4. \E p \in Profiles : seen'.longest[dir] > p.reverse_tolerance
    BY <2>1, <2>2, <2>3
  <2>5. QED
    BY <2>4 DEF dir
<1>5. CASE ~Turned
  <2>1. \A p \in Profiles : Passed(mono) <= p.idle_reset
    BY <1>1, <1>2 DEF Moved, TypeOK, Passed
  <2>2. scroll.direction = -dir
    BY <1>3, <1>5, <2>1 DEF IInv, DirectionIsTick
  <2>3. ~Silent(Clock(mono'))
    BY <1>1, <1>2, <1>3 DEF IInv, EmitIsTick, TypeOK, Silent, AfterSilence, Moved, Clock, Passed
  <2>4. scroll.reverse_count >= profile.reverse_tolerance
    BY <1>1, <1>2, <1>3, <2>2, <2>3 DEF Jitters, TypeOK, Dirs, None
  <2>5. seen'.row > profile.reverse_tolerance
    <3>1. CASE scroll.reverse_count = 0
      BY <1>1, <1>2, <2>4, <3>1 DEF Noted
    <3>2. CASE scroll.reverse_count > 0
      BY <1>1, <1>2, <1>3, <2>2, <2>4, <3>2 DEF IInv, ReversesAreRow, Noted, TypeOK
    <3>3. QED
      BY <1>1, <3>1, <3>2 DEF TypeOK
  <2>6. seen'.longest[dir] > profile.reverse_tolerance
    BY <1>1, <1>2, <2>5 DEF Noted
  <2>7. QED
    BY <1>2, <2>6 DEF dir
<1>6. QED
  BY <1>4, <1>5

LEMMA InitInv == Init => IInv
<1> SUFFICES ASSUME Init PROVE IInv
  OBVIOUS
<1>1. MaxBehind \in Nat /\ MaxAhead \in Nat /\ MaxCount \in Nat
  BY ScrollAssumption
<1>2. TypeOK
  BY <1>1 DEF Init, TypeOK, Still, Unseen, Dirs, None
<1>3. /\ PendingAgrees /\ EmitIsTick /\ PendingIsMove /\ ReversesAreRow /\ DirectionIsTick
      /\ SteadyIsCounted
  BY DEF Init, PendingAgrees, EmitIsTick, PendingIsMove, ReversesAreRow, DirectionIsTick,
     SteadyIsCounted, Still, Unseen, Dirs, None
<1>4. QED
  BY <1>2, <1>3 DEF IInv

(* A steady run with one more event: absorbed, counted or a start.          *)
LEMMA WheelSteady ==
  ASSUME IInv, NEW v \in Notches, NEW gap \in Gaps, Wheel(v, gap)
  PROVE  SteadyIsCounted'
<1> DEFINE dir == Sign(v)
           ts  == Clock(mono')
           R   == profile.reverse_tolerance
           S   == profile.slow_threshold
           W   == profile.confirmation_window
<1>1. Moved(dir, gap) /\ Noted(dir) /\ dir \in Dirs /\ TypeOK
  BY WheelStep, SignIsDir DEF IInv
<1>2. /\ R \in Nat /\ S \in Nat /\ S > 0 /\ W \in Nat /\ profile.idle_reset \in Nat
      /\ profile.leak_interval \in Nat /\ profile.emit_cooldown \in Nat
      /\ W < profile.idle_reset /\ W < profile.leak_interval
  BY <1>1, ProfileIs
<1>3. /\ mono \in Nat /\ gap \in Nat /\ behind \in Nat /\ mono' = mono + gap /\ behind' = behind
      /\ ahead \in Nat /\ ahead' = ahead /\ seen.ahead \in Nat /\ ts = mono + gap + ahead - behind
      /\ ts \in Nat /\ ts > 0 /\ Clock(mono)' = ts /\ profile' = profile
      /\ scroll'.last_event = ts /\ scroll'.accumulator \in Nat /\ scroll.accumulator \in Nat
      /\ scroll.reverse_count \in Nat /\ scroll.last_event \in Nat /\ scroll.last_emit \in Nat
      /\ seen.ticked \in Int /\ seen.steady \in Nat /\ seen'.steady \in Nat
  BY <1>1, ScrollAssumption DEF Moved, Noted, TypeOK, Clock
<1>4. /\ dir # None /\ -dir # dir /\ -dir # None
      /\ \A d \in Dirs \cup {None} : d \in {dir, -dir, None}
  BY <1>1 DEF Dirs, None
<1>5. seen'.facing = dir /\ seen'.moved[dir] = mono'
  BY <1>1 DEF Noted
<1>6. Absorbed(dir, ts) \/ Fired(dir, ts) \/ Held(dir, ts)
  BY <1>1 DEF Moved
<1>7. \/ seen'.steady <= 1
      \/ /\ seen.steady > 0 /\ seen'.steady <= seen.steady + 1
         /\ seen.facing = dir /\ mono' - seen.moved[dir] <= W
  BY <1>1 DEF Noted
<1>8. seen.ticked >= 0 => /\ seen.ticked + seen.ahead - behind <= scroll.last_emit
                          /\ scroll.last_emit <= seen.ticked + seen.ahead
  BY DEF IInv, EmitIsTick
<1>9. scroll.last_emit # 0 <=> seen.ticked >= 0
  BY DEF IInv, EmitIsTick
<1>10. /\ Fired(dir, ts) => seen'.steady = 0
       /\ ~Fired(dir, ts) => seen'.ticked = seen.ticked /\ seen'.ahead = seen.ahead
  BY <1>1, <1>4, <1>6 DEF Noted, Fired, Absorbed, Held
<1> HIDE DEF dir, ts, R, S, W
<1>11. ASSUME seen.steady > 0, seen.facing = dir, mono' - seen.moved[dir] <= W
       PROVE  /\ ~Silent(ts) /\ ts - scroll.last_event < profile.leak_interval
              /\ ts - scroll.last_event <= W /\ gap <= W
  <2>1. seen.moved[dir] = mono /\ scroll.last_event > 0 /\ Clock(mono) <= scroll.last_event
    BY <1>11 DEF IInv, SteadyIsCounted
  <2>2. ts - scroll.last_event <= W /\ gap <= W
    BY <1>2, <1>3, <1>11, <2>1 DEF Clock
  <2> QED  BY <1>2, <1>3, <2>1, <2>2 DEF Silent, AfterSilence
<1>12. CASE Absorbed(dir, ts)
  <2>1. /\ scroll'.direction = -dir /\ scroll'.reverse_count = scroll.reverse_count + 1
        /\ scroll.direction = -dir /\ scroll.reverse_count < R
    BY <1>1, <1>4, <1>12 DEF Absorbed, Jitters, TypeOK, R
  <2>2. seen'.steady <= scroll'.reverse_count
    <3>1. CASE seen'.steady <= 1
      BY <1>3, <2>1, <3>1
    <3>2. CASE /\ seen.steady > 0 /\ seen'.steady <= seen.steady + 1
               /\ seen.facing = dir /\ mono' - seen.moved[dir] <= W
      <4>1. seen.steady <= scroll.reverse_count
        BY <1>4, <2>1, <3>2 DEF IInv, SteadyIsCounted
      <4> QED  BY <1>3, <2>1, <3>2, <4>1
    <3> QED  BY <1>7, <3>1, <3>2
  <2>3. scroll'.reverse_count <= profile'.reverse_tolerance
    BY <1>2, <1>3, <2>1 DEF R
  <2> QED  BY <1>2, <1>3, <1>4, <1>5, <2>1, <2>2, <2>3 DEF SteadyIsCounted
<1>13. CASE Fired(dir, ts)
  BY <1>10, <1>13 DEF SteadyIsCounted
<1>14. CASE Held(dir, ts)
  <2>1. /\ scroll'.direction = dir /\ scroll'.accumulator > 0
        /\ seen'.ticked = seen.ticked /\ seen'.ahead = seen.ahead
        /\ ~(scroll.pending_dir = dir /\ ts - scroll.pending_ts <= W)
        /\ Grown(dir, ts)
    BY <1>1, <1>4, <1>14 DEF Held, Follows, Grown, Noted, W
  <2> DEFINE Late(n) == seen.ticked >= 0 /\ Passed(mono') < profile.emit_cooldown + behind + n
  <2>2. /\ seen'.steady <= R + scroll'.accumulator
        /\ seen'.steady <= R + S \/ Late(W)
    <3>1. CASE seen'.steady <= 1
      BY <1>2, <1>3, <2>1, <3>1
    <3>2. CASE /\ seen.steady > 0 /\ seen'.steady <= seen.steady + 1
               /\ seen.facing = dir /\ mono' - seen.moved[dir] <= W
      <4>1. /\ ~Silent(ts) /\ ts - scroll.last_event < profile.leak_interval
            /\ ts - scroll.last_event <= W /\ gap <= W
        BY <1>11, <3>2
      <4>2. CASE scroll.direction = -dir
        <5>1. seen.steady <= R
          BY <1>2, <1>3, <1>4, <3>2, <4>2 DEF IInv, SteadyIsCounted, R
        <5> QED  BY <1>2, <1>3, <2>1, <3>2, <5>1
      <4>3. CASE scroll.direction # -dir
        <5>1. /\ scroll.direction = dir /\ seen.steady <= R + scroll.accumulator
              /\ \/ /\ scroll.pending_dir = None
                    /\ scroll.accumulator < S \/ Cooling(0)
                 \/ scroll.pending_dir = dir /\ scroll.pending_ts = scroll.last_event
          BY <3>2, <4>3 DEF IInv, SteadyIsCounted, R, S
        <5>2. scroll'.accumulator > scroll.accumulator
          BY <2>1, <4>1, <5>1 DEF Grown
        <5>3. scroll.accumulator < S \/ Cooling(0)
          BY <2>1, <4>1, <5>1
        <5>4. Cooling(0) => Late(W)
          BY <1>2, <1>3, <2>1, <4>1 DEF Cooling, Passed
        <5> QED  BY <1>2, <1>3, <3>2, <5>1, <5>2, <5>3, <5>4
      <4> QED  BY <4>2, <4>3
    <3> QED  BY <1>7, <3>1, <3>2
  <2> HIDE DEF Late
  <2>3. /\ profile'.reverse_tolerance = R /\ profile'.slow_threshold = S
        /\ Cooling(0)' <=> Late(0)
        /\ Cooling(profile.confirmation_window)' <=> Late(W)
    BY <1>3, <2>1 DEF R, S, W, Late, Cooling, Passed
  <2>4. CASE scroll'.pending_dir = dir /\ scroll'.pending_ts = ts
    BY <1>3, <1>4, <1>5, <2>1, <2>2, <2>3, <2>4 DEF SteadyIsCounted
  <2>5. CASE scroll'.pending_dir = None /\ HeldUp(ts)
    <3>1. scroll'.accumulator < S \/ Late(0)
      BY <1>2, <1>3, <1>8, <1>9, <2>5 DEF HeldUp, Late, S, Passed
    <3> QED  BY <1>3, <1>4, <1>5, <2>1, <2>2, <2>3, <2>5, <3>1 DEF SteadyIsCounted
  <2> QED  BY <1>14, <2>4, <2>5 DEF Held
<1> QED  BY <1>6, <1>12, <1>13, <1>14

LEMMA WheelInv ==
  ASSUME IInv, NEW v \in Notches, NEW gap \in Gaps, Wheel(v, gap)
  PROVE  IInv'
<1> DEFINE dir == Sign(v)
           ts  == Clock(mono')
<1>a. Moved(dir, gap) /\ Noted(dir) /\ dir \in Dirs
  BY WheelStep, SignIsDir DEF IInv
<1>b. /\ TypeOK /\ PendingAgrees /\ EmitIsTick /\ PendingIsMove
      /\ ReversesAreRow /\ DirectionIsTick
  BY DEF IInv
<1>c. /\ profile \in Profiles /\ profile.idle_reset \in Nat
      /\ \A p \in Profiles : p.idle_reset \in Nat
      /\ MaxCount \in Nat /\ MaxBehind \in Nat /\ MaxAhead \in Nat
  BY <1>b, ScrollAssumption DEF TypeOK, ProfileType
<1>d. ts \in Nat /\ ts > 0 /\ ts = mono + gap + ahead - behind /\ mono' \in Nat /\ mono' = mono + gap
      /\ mono \in Nat /\ gap \in Nat /\ mono' > MaxBehind /\ behind \in Nat
      /\ ahead \in Nat /\ ahead \in 0 .. MaxAhead /\ ahead' = ahead
      /\ seen.ahead \in Nat /\ seen.ahead <= ahead
  BY <1>a, <1>b, <1>c DEF Moved, TypeOK, Clock
<1>e. /\ Shaped(scroll') /\ scroll'.last_event = ts /\ scroll'.accumulator \in Nat
      /\ behind' = behind /\ profile' = profile
      /\ Absorbed(dir, ts) \/ Fired(dir, ts) \/ Held(dir, ts)
  BY <1>a DEF Moved
<1>f. dir # None /\ -dir \in Dirs /\ -dir # dir /\ \A d \in Dirs : d = dir \/ d = -dir
  BY <1>a DEF Dirs, None
<1>g. Wheel(v, gap) /\ dir = Sign(v)
  OBVIOUS
<1> HIDE DEF dir, ts
<1>1. TypeOK'
  <2>1. /\ scroll' = [accumulator |-> scroll'.accumulator, direction |-> scroll'.direction,
                     pending_dir |-> scroll'.pending_dir, reverse_count |-> scroll'.reverse_count,
                     last_event |-> scroll'.last_event, last_emit |-> scroll'.last_emit,
                     pending_ts |-> scroll'.pending_ts]
    BY <1>e DEF Shaped
  <2>2. {scroll'.direction, scroll'.pending_dir, tick'} \subseteq Dirs \cup {None}
    BY <1>a, <1>b, <1>e DEF TypeOK, Absorbed, Fired, Held, Follows
  <2>3. {scroll'.accumulator, scroll'.reverse_count, scroll'.last_event, scroll'.last_emit,
         scroll'.pending_ts} \subseteq Nat
    BY <1>b, <1>d, <1>e DEF TypeOK, Absorbed, Fired, Held, Follows
  <2>4. profile' \in Profiles /\ mono' \in Nat /\ mono' > MaxBehind /\ behind' \in 0 .. MaxBehind
    BY <1>b, <1>d, <1>e DEF TypeOK
  <2>5. {seen'.last_tick, seen'.facing} \subseteq Dirs \cup {None} /\ seen'.ticked \in Int
    BY <1>a, <1>b, <1>d, <2>2 DEF Noted, TypeOK
  <2>6. ahead' \in 0 .. MaxAhead /\ seen'.ahead \in 0 .. ahead'
    BY <1>a, <1>d DEF Noted
  <2>7. QED
    BY <1>a, <1>c, <2>1, <2>2, <2>3, <2>4, <2>5, <2>6 DEF TypeOK, Noted
<1>2. PendingAgrees'
  BY <1>b, <1>e DEF PendingAgrees, Absorbed, Fired, Held, Follows
<1>3. EmitIsTick'
  <2>1. CASE Fired(dir, ts)
    <3>1. /\ scroll'.last_emit = ts /\ seen'.ticked = mono' /\ seen'.ahead = ahead
          /\ tick' # None => seen'.steady = 0
      BY <1>a, <1>f, <2>1 DEF Fired, Noted
    <3>2. QED
      BY <1>d, <1>e, <3>1 DEF EmitIsTick
  <2>2. CASE Absorbed(dir, ts) \/ Held(dir, ts)
    <3>1. /\ scroll'.last_emit = scroll.last_emit /\ tick' = None
          /\ seen'.ticked = seen.ticked /\ seen'.ahead = seen.ahead
      BY <1>a, <2>2 DEF Absorbed, Held, Noted
    <3>2. QED
      BY <1>b, <1>d, <1>e, <3>1 DEF EmitIsTick, TypeOK
  <2>3. QED
    BY <1>e, <2>1, <2>2
<1>4. PendingIsMove'
  <2>1. CASE Fired(dir, ts)
    BY <2>1 DEF Fired, PendingIsMove
  <2>2. CASE Absorbed(dir, ts)
    <3>1. CASE scroll.pending_dir = None
      BY <2>2, <3>1 DEF Absorbed, PendingIsMove
    <3>2. CASE scroll.pending_dir # None
      <4>1. scroll.pending_dir = -dir
        BY <1>b, <1>f, <2>2, <3>2 DEF Absorbed, Jitters, PendingAgrees, TypeOK
      <4>2. /\ scroll'.pending_dir = scroll.pending_dir /\ scroll'.pending_ts = scroll.pending_ts
            /\ seen'.moved[scroll.pending_dir] = seen.moved[scroll.pending_dir]
            /\ seen'.ticked = seen.ticked /\ seen'.ahead = seen.ahead
        BY <1>a, <2>2, <4>1 DEF Absorbed, Noted
      <4>3. /\ scroll.pending_ts <= seen.moved[scroll.pending_dir] + ahead
            /\ seen.moved[scroll.pending_dir] \in 0 .. mono
            /\ seen.ticked >= 0 => \E p \in Profiles : Passed(mono) > p.idle_reset
        BY <1>b, <3>2 DEF PendingIsMove
      <4>4. seen.ticked \in Int /\ seen.moved[scroll.pending_dir] \in Int
        BY <1>b, <1>f, <4>1 DEF TypeOK
      <4>5. seen.ticked >= 0 => \E p \in Profiles : Passed(mono') > p.idle_reset
        BY <1>c, <1>d, <4>3, <4>4 DEF Passed
      <4>6. seen.moved[scroll.pending_dir] \in 0 .. mono'
        BY <1>d, <4>3, <4>4
      <4>7. Passed(mono)' = Passed(mono')
        BY <1>d, <4>2 DEF Passed
      <4>8. QED
        BY <1>d, <4>2, <4>3, <4>5, <4>6, <4>7 DEF PendingIsMove
    <3>3. QED
      BY <3>1, <3>2
  <2>3. CASE Held(dir, ts)
    <3>1. CASE scroll'.pending_dir = None
      BY <3>1 DEF PendingIsMove
    <3>2. CASE Starts(ts) /\ scroll'.pending_dir = dir /\ scroll'.pending_ts = ts
      <4>1. /\ seen'.moved[dir] = mono' /\ ts <= mono' + ahead
            /\ seen'.ticked = seen.ticked /\ seen'.ahead = seen.ahead
        BY <1>a, <1>d, <2>3 DEF Noted, Held
      <4>2. seen.ticked >= 0 => Passed(mono') > profile.idle_reset
        BY <1>b, <1>c, <1>d, <3>2 DEF Starts, EmitIsTick, TypeOK, Passed
      <4>3. mono' \in 0 .. mono' /\ Passed(mono)' = Passed(mono')
        BY <1>d, <4>1 DEF Passed
      <4>4. QED
        BY <1>c, <1>d, <3>2, <4>1, <4>2, <4>3 DEF PendingIsMove
    <3>3. QED
      BY <2>3, <3>1, <3>2 DEF Held
  <2>4. QED
    BY <1>e, <2>1, <2>2, <2>3
<1>5. ReversesAreRow'
  <2>1. \A d \in Dirs : seen'.facing = d => seen'.row > 0 /\ seen'.longest[d] >= seen'.row
    BY <1>a, <1>c DEF Noted
  <2>2. CASE Absorbed(dir, ts)
    <3>1. scroll'.reverse_count = scroll.reverse_count + 1 /\ scroll'.direction = -dir
      BY <1>b, <1>f, <2>2 DEF Absorbed, Jitters, TypeOK
    <3>2. seen'.facing = dir /\ -(-dir) = dir /\ -dir # None
      BY <1>a DEF Noted, Dirs, None
    <3>3. scroll.direction = -dir
      BY <2>2, <3>1 DEF Absorbed
    <3>4. seen'.row >= scroll'.reverse_count \/ seen'.row = MaxCount
      <4>1. CASE scroll.reverse_count = 0
        BY <1>a, <1>c, <3>1, <4>1 DEF Noted
      <4>2. CASE scroll.reverse_count > 0
        BY <1>a, <1>b, <1>c, <3>1, <3>2, <3>3, <4>2 DEF Noted, ReversesAreRow, TypeOK
      <4>3. QED
        BY <1>b, <4>1, <4>2 DEF TypeOK
    <3>5. QED
      BY <2>1, <3>1, <3>2, <3>4 DEF ReversesAreRow
  <2>3. CASE Fired(dir, ts) \/ Held(dir, ts)
    BY <2>1, <2>3 DEF ReversesAreRow, Fired, Held, Follows
  <2>4. QED
    BY <1>e, <2>2, <2>3
<1>6. DirectionIsTick'
  <2>1. CASE Fired(dir, ts)
    <3>1. seen'.last_tick = dir /\ scroll'.direction = dir /\ seen'.ticked = mono'
      BY <1>a, <1>f, <2>1 DEF Fired, Noted, Follows
    <3>2. QED
      BY <1>d, <1>f, <3>1 DEF DirectionIsTick
  <2>2. CASE Absorbed(dir, ts) \/ Held(dir, ts)
    <3>1. /\ seen'.last_tick = seen.last_tick /\ tick' = None
          /\ seen'.ticked = seen.ticked /\ seen'.ahead = seen.ahead
      BY <1>a, <2>2 DEF Absorbed, Held, Noted
    <3>2. seen'.last_tick = None <=> seen'.ticked < 0
      BY <1>b, <3>1 DEF DirectionIsTick
    <3>3. ASSUME seen.last_tick # None, \A p \in Profiles : Passed(mono') <= p.idle_reset
          PROVE  scroll'.direction = seen.last_tick \/ Turned'
      <4>1. \A p \in Profiles : Passed(mono) <= p.idle_reset
        BY <1>b, <1>c, <1>d, <3>3 DEF TypeOK, Passed
      <4>2. scroll.direction = seen.last_tick \/ Turned
        BY <1>b, <3>3, <4>1 DEF DirectionIsTick
      <4>3. -seen.last_tick \in Dirs
        BY <1>b, <3>3 DEF TypeOK, Dirs, None
      <4>4. CASE Turned
        <5>1. \E p \in Profiles : seen.longest[-seen.last_tick] > p.reverse_tolerance
          BY <4>4 DEF Turned
        <5>2. seen'.longest[-seen.last_tick] >= seen.longest[-seen.last_tick]
          BY <1>a, <4>3, <4>4 DEF Turned, Noted
        <5>3. seen.longest[-seen.last_tick] \in Nat /\ seen'.longest[-seen.last_tick] \in Nat
          BY <1>a, <1>b, <4>3 DEF Noted, TypeOK
        <5>4. \A p \in Profiles : p.reverse_tolerance \in Nat
          BY ScrollAssumption DEF ProfileType
        <5>5. \E p \in Profiles : seen'.longest[-seen.last_tick] > p.reverse_tolerance
          BY <5>1, <5>2, <5>3, <5>4
        <5>6. QED
          BY <3>1, <5>5 DEF Turned
      <4>5. CASE Absorbed(dir, ts)
        BY <4>2, <4>4, <4>5 DEF Absorbed
      <4>6. CASE Held(dir, ts) /\ dir = seen.last_tick
        BY <4>6 DEF Held, Follows
      <4>7. CASE Held(dir, ts) /\ dir # seen.last_tick
        <5>1. seen.last_tick = -dir /\ -seen.last_tick = dir
          BY <1>a, <1>b, <3>3, <4>7 DEF TypeOK, Dirs, None
        <5>2. ~Jitters(dir, ts)
          BY <4>7 DEF Held
        <5>3. \E p \in Profiles : seen'.longest[dir] > p.reverse_tolerance
          BY <1>g, <3>3, <5>1, <5>2, TurnTakesRow DEF ts
        <5>4. QED
          BY <3>1, <5>1, <5>3 DEF Turned
      <4>8. QED
        BY <2>2, <4>5, <4>6, <4>7
    <3>4. Passed(mono)' = Passed(mono')
      BY <1>d, <3>1 DEF Passed
    <3>5. QED
      BY <3>1, <3>2, <3>3, <3>4 DEF DirectionIsTick
  <2>3. QED
    BY <1>e, <2>1, <2>2
<1>7. SteadyIsCounted'
  BY <1>g, WheelSteady
<1>8. QED
  BY <1>1, <1>2, <1>3, <1>4, <1>5, <1>6, <1>7 DEF IInv

LEMMA ReloadInv ==
  ASSUME IInv, NEW p \in Profiles, Reload(p)
  PROVE  IInv'
<1>1. TypeOK'
  BY ScrollAssumption DEF IInv, TypeOK, Reload, Still, Unseen, Dirs, None
<1>2. /\ PendingAgrees' /\ EmitIsTick' /\ PendingIsMove' /\ ReversesAreRow' /\ DirectionIsTick'
      /\ SteadyIsCounted'
  BY DEF Reload, PendingAgrees, EmitIsTick, PendingIsMove, ReversesAreRow, DirectionIsTick,
     SteadyIsCounted, Still, Unseen, Dirs, None
<1>3. QED
  BY <1>1, <1>2 DEF IInv

(* A change of focus only ends the observer's steady run.                   *)
LEMMA FocusKeeps ==
  ASSUME TypeOK, NEW p \in Profiles, FocusChange(p)
  PROVE  /\ seen' = [moved |-> seen.moved, ticked |-> seen.ticked,
                     ahead |-> seen.ahead, last_tick |-> seen.last_tick,
                     facing |-> seen.facing, row |-> seen.row, longest |-> seen.longest,
                     steady |-> 0]
         /\ scroll' = scroll /\ mono' = mono /\ behind' = behind /\ ahead' = ahead /\ tick' = tick
         /\ profile' \in Profiles
  BY DEF TypeOK, FocusChange

LEMMA FocusInv ==
  ASSUME IInv, NEW p \in Profiles, FocusChange(p)
  PROVE  IInv'
<1>1. /\ seen' = [moved |-> seen.moved, ticked |-> seen.ticked,
                  ahead |-> seen.ahead, last_tick |-> seen.last_tick,
                  facing |-> seen.facing, row |-> seen.row, longest |-> seen.longest,
                  steady |-> 0]
      /\ scroll' = scroll /\ mono' = mono /\ behind' = behind /\ ahead' = ahead /\ tick' = tick
      /\ profile' \in Profiles
  BY FocusKeeps DEF IInv
<1>2. TypeOK'
  BY <1>1, ScrollAssumption DEF IInv, TypeOK
<1>3. (PendingAgrees /\ EmitIsTick /\ PendingIsMove /\ ReversesAreRow)'
  BY <1>1 DEF IInv, PendingAgrees, EmitIsTick, PendingIsMove, ReversesAreRow, Passed
<1>4. DirectionIsTick'
  BY <1>1 DEF IInv, DirectionIsTick, Turned, Passed
<1>5. SteadyIsCounted'
  BY <1>1 DEF SteadyIsCounted
<1>6. QED
  BY <1>2, <1>3, <1>4, <1>5 DEF IInv

LEMMA ClockInv ==
  ASSUME IInv, NEW by \in Steps, SetClockBack(by)
  PROVE  IInv'
<1>1. /\ by \in Nat /\ behind' = behind + by /\ behind + by <= MaxBehind
      /\ scroll' = scroll /\ profile' = profile /\ mono' = mono /\ ahead' = ahead /\ tick' = tick
      /\ seen' = seen /\ MaxBehind \in Nat
  BY ScrollAssumption DEF SetClockBack
<1>2. TypeOK'
  BY <1>1 DEF IInv, TypeOK
<1>3. (PendingAgrees /\ PendingIsMove /\ ReversesAreRow)'
  BY <1>1 DEF IInv, PendingAgrees, PendingIsMove, ReversesAreRow, Passed
<1>4. EmitIsTick'
  BY <1>1 DEF IInv, TypeOK, EmitIsTick
<1>5. DirectionIsTick'
  BY <1>1 DEF IInv, DirectionIsTick, Turned, Passed
<1>6. SteadyIsCounted'
  <2>1. /\ profile.emit_cooldown \in Nat /\ profile.confirmation_window \in Nat
        /\ mono \in Nat /\ behind \in Nat /\ ahead \in Nat /\ seen.ticked \in Int
        /\ seen.ahead \in Nat /\ scroll.last_event \in Nat
    BY ProfileIs, ScrollAssumption DEF IInv, TypeOK
  <2>2. /\ Cooling(0) => Cooling(0)'
        /\ Cooling(profile.confirmation_window) => Cooling(profile.confirmation_window)'
        /\ Clock(mono) <= scroll.last_event => Clock(mono)' <= scroll'.last_event
    BY <1>1, <2>1 DEF Cooling, Passed, Clock
  <2> QED  BY <1>1, <2>2 DEF IInv, SteadyIsCounted
<1>7. QED
  BY <1>2, <1>3, <1>4, <1>5, <1>6 DEF IInv

(* To the gesture a clock set forward is time that passed; the observer's   *)
(* steady run ends.                                                         *)
LEMMA LeapInv ==
  ASSUME IInv, NEW by \in Leaps, SetClockForward(by)
  PROVE  IInv'
<1>1. /\ by \in Nat /\ ahead' = ahead + by /\ ahead + by <= MaxAhead
      /\ seen' = [moved |-> seen.moved, ticked |-> seen.ticked, ahead |-> seen.ahead,
                  last_tick |-> seen.last_tick, facing |-> seen.facing, row |-> seen.row,
                  longest |-> seen.longest, steady |-> 0]
      /\ scroll' = scroll /\ profile' = profile /\ mono' = mono /\ behind' = behind /\ tick' = tick
      /\ MaxAhead \in Nat
  BY ScrollAssumption DEF IInv, TypeOK, SetClockForward
<1>2. /\ mono \in Nat /\ ahead \in Nat /\ seen.ticked \in Int /\ seen.ahead \in 0 .. ahead
      /\ scroll.pending_ts \in Nat /\ \A p \in Profiles : p.idle_reset \in Nat
  BY ScrollAssumption DEF IInv, TypeOK, ProfileType
<1>3. TypeOK'
  <2>1. ahead' \in 0 .. MaxAhead /\ seen'.ahead \in 0 .. ahead'
    BY <1>1, <1>2
  <2>2. QED
    BY <1>1, <2>1, ScrollAssumption DEF IInv, TypeOK
<1>4. (PendingAgrees /\ EmitIsTick /\ ReversesAreRow)'
  BY <1>1 DEF IInv, PendingAgrees, EmitIsTick, ReversesAreRow
<1>5. Passed(mono)' = Passed(mono) + by /\ Passed(mono) \in Int
  BY <1>1, <1>2 DEF Passed
<1>6. PendingIsMove'
  <2>1. CASE scroll.pending_dir = None
    BY <1>1, <2>1 DEF PendingIsMove
  <2>2. CASE scroll.pending_dir # None
    <3>1. /\ scroll.pending_dir \in Dirs /\ seen.moved[scroll.pending_dir] \in Int
          /\ scroll.pending_ts <= seen.moved[scroll.pending_dir] + ahead
          /\ seen.moved[scroll.pending_dir] \in 0 .. mono
          /\ seen.ticked >= 0 => \E p \in Profiles : Passed(mono) > p.idle_reset
      BY <2>2 DEF IInv, TypeOK, PendingIsMove
    <3>2. seen.ticked >= 0 => \E p \in Profiles : Passed(mono)' > p.idle_reset
      BY <1>1, <1>2, <1>5, <3>1
    <3>3. scroll.pending_ts <= seen.moved[scroll.pending_dir] + ahead'
      BY <1>1, <1>2, <3>1
    <3>4. QED
      BY <1>1, <3>1, <3>2, <3>3 DEF PendingIsMove
  <2>3. QED
    BY <2>1, <2>2
<1>7. DirectionIsTick'
  <2>1. (\A p \in Profiles : Passed(mono)' <= p.idle_reset)
          => \A p \in Profiles : Passed(mono) <= p.idle_reset
    BY <1>1, <1>2, <1>5
  <2>2. QED
    BY <1>1, <2>1 DEF IInv, DirectionIsTick, Turned
<1>8. SteadyIsCounted'
  BY <1>1 DEF SteadyIsCounted
<1>9. QED
  BY <1>3, <1>4, <1>6, <1>7, <1>8 DEF IInv

LEMMA StutterInv ==
  ASSUME IInv, UNCHANGED vars
  PROVE  IInv'
<1>1. scroll' = scroll /\ profile' = profile /\ mono' = mono /\ behind' = behind
      /\ ahead' = ahead /\ tick' = tick /\ seen' = seen
  BY DEF vars
<1>2. QED
  BY <1>1 DEF IInv, TypeOK, PendingAgrees, EmitIsTick, PendingIsMove, ReversesAreRow,
     DirectionIsTick, Turned, SteadyIsCounted, Cooling, Passed, Clock

LEMMA NextInv == IInv /\ [Next]_vars => IInv'
  BY WheelInv, ReloadInv, FocusInv, ClockInv, LeapInv, StutterInv DEF Next

(* What the daemon remembers of a gesture is what happened: its timestamps  *)
(* are those of the last tick and the waiting start, give or take the time  *)
(* the clock was set back by, the reverse events it counts came in a row,   *)
(* and it points where the last tick went unless the wheel turned since.    *)
THEOREM ScrollInvariant == Spec => []IInv
<1>1. QED
  BY InitInv, NextInv, PTL DEF Spec

-----------------------------------------------------------------------------
(* Only a wheel event yields a tick an observer sees.                       *)
LEMMA TicksAreWheels ==
  ASSUME IInv, [Next]_vars, tick' # None, ~UNCHANGED <<mono, seen>>
  PROVE  \E v \in Notches, gap \in Gaps : Wheel(v, gap)
<1>1. ASSUME NEW p \in Profiles, Reload(p) PROVE FALSE
  BY <1>1 DEF Reload
<1>2. ASSUME NEW p \in Profiles, FocusChange(p) PROVE FALSE
  <2>1. seen' = [moved |-> seen.moved, ticked |-> seen.ticked,
                 ahead |-> seen.ahead, last_tick |-> seen.last_tick,
                 facing |-> seen.facing, row |-> seen.row, longest |-> seen.longest,
                 steady |-> 0]
        /\ mono' = mono /\ tick # None
    BY <1>2, FocusKeeps DEF IInv
  <2>2. seen.steady = 0
    BY <2>1 DEF IInv, EmitIsTick
  <2>3. seen' = seen
    BY <2>1, <2>2 DEF IInv, TypeOK
  <2>4. QED
    BY <2>1, <2>3
<1>3. ASSUME NEW by \in Steps, SetClockBack(by) PROVE FALSE
  BY <1>3 DEF SetClockBack
<1>4. ASSUME NEW by \in Leaps, SetClockForward(by) PROVE FALSE
  <2>1. seen.steady = 0 /\ mono' = mono
    BY <1>4 DEF IInv, EmitIsTick, SetClockForward
  <2>2. seen' = seen
    BY <1>4, <2>1 DEF IInv, TypeOK, SetClockForward
  <2>3. QED
    BY <2>1, <2>2
<1>5. CASE UNCHANGED vars
  BY <1>5 DEF vars
<1>6. QED
  BY <1>1, <1>2, <1>3, <1>4, <1>5 DEF Next

(* The tick of a wheel event, with what the invariant says of it.           *)
LEMMA TickStep ==
  ASSUME IInv, [Next]_vars, tick' # None, ~UNCHANGED <<mono, seen>>
  PROVE  \E v \in Notches, gap \in Gaps :
           /\ Wheel(v, gap) /\ tick' = Sign(v) /\ Sign(v) \in Dirs
           /\ Moved(Sign(v), gap) /\ Noted(Sign(v)) /\ Fired(Sign(v), Clock(mono'))
<1>1. PICK v \in Notches, gap \in Gaps : Wheel(v, gap)
  BY TicksAreWheels
<1>2. Moved(Sign(v), gap) /\ Noted(Sign(v)) /\ Sign(v) \in Dirs
  BY <1>1, WheelStep, SignIsDir DEF IInv
<1>3. Fired(Sign(v), Clock(mono'))
  BY <1>2 DEF Moved, Absorbed, Held
<1>4. tick' = Sign(v)
  BY <1>3 DEF Fired
<1>5. QED
  BY <1>1, <1>2, <1>3, <1>4

LEMMA ProfileNumbers ==
  \A p \in Profiles : /\ p.idle_reset \in Nat /\ p.emit_cooldown \in Nat
                      /\ p.confirmation_window \in Nat
  BY ScrollAssumption DEF ProfileType

(* As long as the clock is not set back, however it is set forward, an      *)
(* isolated twitch never produces a tick: there was another event the same  *)
(* way within the confirmation window, or a tick within the idle time.      *)
THEOREM GhostNeverTicksYet == Spec => NoGhostTicksYet
<1>1. ASSUME IInv, [Next]_vars, tick' # None, behind = 0, ~UNCHANGED <<mono, seen>>
      PROVE  Earned
  <2>1. PICK v \in Notches, gap \in Gaps :
          /\ tick' = Sign(v) /\ Sign(v) \in Dirs
          /\ Moved(Sign(v), gap) /\ Fired(Sign(v), Clock(mono'))
    BY <1>1, TickStep
  <2> DEFINE dir == Sign(v)
  <2>2. /\ TypeOK /\ profile \in Profiles /\ mono' \in Nat /\ mono' = mono + gap
        /\ ahead \in Nat /\ seen.ahead \in 0 .. ahead
        /\ Clock(mono') = mono' + ahead /\ seen.moved[dir] \in Int /\ seen.ticked \in Int
        /\ scroll.pending_ts \in Nat /\ scroll.last_emit \in Nat
        /\ profile.idle_reset \in Nat /\ profile.confirmation_window \in Nat
    BY <1>1, <2>1, ProfileNumbers DEF Moved, IInv, TypeOK, Clock
  <2>3. tick' = dir /\ dir # None /\ Fired(dir, Clock(mono'))
    BY <2>1, <2>2 DEF Dirs, None
  <2> HIDE DEF dir
  <2>4. CASE scroll.pending_dir = dir /\ Clock(mono') - scroll.pending_ts <= profile.confirmation_window
    <3>1. scroll.pending_ts <= seen.moved[dir] + ahead /\ seen.moved[dir] >= 0
      BY <1>1, <2>3, <2>4 DEF IInv, PendingIsMove
    <3>2. seen.moved[dir] >= 0 /\ mono' - seen.moved[dir] <= profile.confirmation_window
      BY <2>2, <2>4, <3>1
    <3>3. QED
      BY <2>3, <3>2 DEF Earned
  <2>5. CASE ~Starts(Clock(mono'))
    <3>1. scroll.last_emit # 0 /\ Clock(mono') - scroll.last_emit <= profile.idle_reset
      BY <2>2, <2>5 DEF Starts
    <3>2. seen.ticked >= 0 /\ scroll.last_emit <= seen.ticked + seen.ahead
      BY <1>1, <3>1 DEF IInv, EmitIsTick
    <3>3. QED
      BY <2>2, <3>1, <3>2 DEF Earned
  <2>6. QED
    BY <2>3, <2>4, <2>5 DEF Fired
<1>2. QED
  BY <1>1, ScrollInvariant, PTL DEF Spec, NoGhostTicksYet

(* Two ticks are never closer than the cooldown, by either path, less what  *)
(* the clock was set forward between them, unless an application with a     *)
(* shorter idle time cut the gesture short.                                 *)
THEOREM TicksAlwaysSpaced == Spec => TicksAreSpaced
<1>1. ASSUME IInv, [Next]_vars, tick' # None, seen.ticked >= 0, ~UNCHANGED <<mono, seen>>
      PROVE  \/ Passed(mono') >= profile.emit_cooldown
             \/ \E p \in Profiles : Passed(mono') > p.idle_reset
  <2>1. PICK v \in Notches, gap \in Gaps :
          /\ tick' = Sign(v) /\ Sign(v) \in Dirs
          /\ Moved(Sign(v), gap) /\ Fired(Sign(v), Clock(mono'))
    BY <1>1, TickStep
  <2>2. /\ TypeOK /\ profile \in Profiles /\ mono \in Nat /\ gap \in Nat /\ mono' = mono + gap
        /\ behind \in Nat /\ ahead \in Nat /\ seen.ahead \in 0 .. ahead
        /\ seen.ticked \in Int /\ scroll.last_emit \in Nat /\ profile.emit_cooldown \in Nat
    BY <1>1, <2>1, ProfileNumbers, ScrollAssumption DEF Moved, IInv, TypeOK
  <2>3. CASE scroll.pending_dir = Sign(v)
    <3>1. \E p \in Profiles : Passed(mono) > p.idle_reset
      BY <1>1, <2>1, <2>3 DEF IInv, PendingIsMove, Dirs, None
    <3>2. QED
      BY <2>2, <3>1, ProfileNumbers DEF Passed
  <2>4. CASE Clock(mono') - scroll.last_emit >= profile.emit_cooldown
    <3>1. seen.ticked + seen.ahead - behind <= scroll.last_emit
      BY <1>1 DEF IInv, EmitIsTick
    <3>2. QED
      BY <2>2, <2>4, <3>1 DEF Passed, Clock
  <2>5. QED
    BY <2>1, <2>3, <2>4 DEF Fired
<1>2. QED
  BY <1>1, ScrollInvariant, PTL DEF Spec, TicksAreSpaced

(* Jitter never makes the pointer bounce back: inside one gesture, as long  *)
(* as it is by a clock that may have been set forward, a tick against the   *)
(* last one took more reverse events in a row than tolerated.               *)
THEOREM NeverBounces == Spec => NoBounce
<1>1. ASSUME IInv, [Next]_vars, tick' # None, seen.last_tick = -tick',
             \A p \in Profiles : Passed(mono') <= p.idle_reset, ~UNCHANGED <<mono, seen>>
      PROVE  \E p \in Profiles : seen'.longest[tick'] > p.reverse_tolerance
  <2>1. PICK v \in Notches, gap \in Gaps :
          /\ Wheel(v, gap) /\ tick' = Sign(v) /\ Fired(Sign(v), Clock(mono'))
    BY <1>1, TickStep
  <2>2. ~Jitters(Sign(v), Clock(mono'))
    BY <2>1 DEF Fired
  <2>3. QED
    BY <1>1, <2>1, <2>2, TurnTakesRow
<1>2. QED
  BY <1>1, ScrollInvariant, PTL DEF Spec, NoBounce

(* The filters never swallow a swipe: every steady run that is longer than  *)
(* the debounce and the slow threshold can cost waits for the cooldown or,  *)
(* with its last event, for the next one to confirm the start it is.        *)
THEOREM SwipesAreHeard == Spec => []Responsive
<1>1. ASSUME IInv PROVE Responsive
  <2> SUFFICES ASSUME seen.steady > profile.reverse_tolerance + profile.slow_threshold
               PROVE  \/ Cooling(0)
                      \/ scroll.pending_dir = seen.facing /\ Cooling(profile.confirmation_window)
    BY DEF Responsive
  <2>1. /\ profile.reverse_tolerance \in Nat /\ profile.slow_threshold \in Nat
        /\ seen.steady \in Nat /\ scroll.reverse_count \in Nat /\ scroll.accumulator \in Nat
    BY <1>1, ProfileIs, ScrollAssumption DEF IInv, TypeOK
  <2>2. CASE scroll.direction = -seen.facing /\ seen.steady <= profile.reverse_tolerance
    BY <2>1, <2>2
  <2>3. CASE /\ seen.steady <= profile.reverse_tolerance + scroll.accumulator
             /\ scroll.accumulator < profile.slow_threshold
    BY <2>1, <2>3
  <2> QED  BY <1>1, <2>1, <2>2, <2>3 DEF IInv, SteadyIsCounted
<1>2. QED
  BY <1>1, ScrollInvariant, PTL
=============================================================================
