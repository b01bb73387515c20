---------------------------- MODULE PacerProofs ----------------------------
(***************************************************************************)
(* Proofs about Pacer, for every capacity, every set of combos and every   *)
(* set of timing profiles its assumption admits.                           *)
(***************************************************************************)
EXTENDS Pacer, SequenceTheorems, TLAPS

(* An index stays inside the ring, and stepping it twice is stepping it by  *)
(* the sum: what makes head + count and tail name the same slot.            *)
LEMMA WrapInSlots ==
  ASSUME NEW n \in 0 .. 2 * Capacity - 1
  PROVE  Wrap(n) \in Slots
BY PacerAssumption DEF Wrap, Slots

LEMMA WrapAdds ==
  ASSUME NEW h \in Slots, NEW n \in 0 .. Capacity - 1
  PROVE  /\ Wrap(Wrap(h + n) + 1) = Wrap(h + (n + 1))
         /\ Wrap(Wrap(h + 1) + n) = Wrap(h + (n + 1))
BY PacerAssumption DEF Wrap, Slots

(* Different waiting positions are different slots.                         *)
LEMMA WrapInjective ==
  ASSUME NEW h \in Slots, NEW i \in Slots, NEW j \in Slots, Wrap(h + i) = Wrap(h + j)
  PROVE  i = j
BY PacerAssumption DEF Wrap, Slots

LEMMA InitInv == Init => IInv
<1> SUFFICES ASSUME Init PROVE IInv
  OBVIOUS
<1>1. TypeOK
  <2>1. buffer \in [Slots -> Combos \cup {NoCombo}]
    BY DEF Init
  <2>2. 0 \in Slots /\ 0 \in 0 .. Capacity /\ MaxPacing \in Nat
    BY PacerAssumption DEF Slots
  <2>3. QED
    BY <2>1, <2>2 DEF Init, TypeOK
<1>2. RingShape /\ TimerCoversWork /\ KeysAsRecorded /\ WaitingAreCombos /\ PressIsFarEnough
  BY PacerAssumption DEF Init, RingShape, TimerCoversWork, KeysAsRecorded,
     WaitingAreCombos, PressIsFarEnough, Wrap, Off
<1>3. QED
  BY <1>1, <1>2 DEF IInv

LEMMA EnqueueInv ==
  ASSUME IInv, NEW c \in Combos, enqueue_combo(c)
  PROVE  IInv'
<1> USE DEF enqueue_combo, HeadAfterPush, FirstInFlight, UpTo, held, ring
<1> DEFINE full == count >= Capacity
<1>a. TypeOK /\ RingShape /\ TimerCoversWork /\ KeysAsRecorded
      /\ WaitingAreCombos /\ PressIsFarEnough
  BY DEF IInv
<1>b. profile.pacing_interval \in Nat /\ profile.pacing_interval >= MinPacing
  BY <1>a, PacerAssumption DEF TypeOK
<1>1. TypeOK'
  <2>1. Wrap(head + 1) \in Slots /\ Wrap(tail + 1) \in Slots
    BY <1>a, PacerAssumption DEF TypeOK, Wrap, Slots
  <2>2. QED
    BY <1>a, <1>b, <2>1, PacerAssumption DEF TypeOK, Slots
<1>2. RingShape'
  BY <1>a, PacerAssumption DEF TypeOK, RingShape, Wrap, Slots
<1>3. TimerCoversWork'
  BY <1>a, <1>b, PacerAssumption DEF TypeOK, TimerCoversWork, Off
<1>4. KeysAsRecorded'
  BY <1>a DEF KeysAsRecorded
<1>5. WaitingAreCombos'
  <2> SUFFICES ASSUME NEW i \in 0 .. Capacity - 1, i < count'
               PROVE  buffer'[Wrap(head' + i)] \in Combos
    BY DEF WaitingAreCombos, Wrap
  <2>1. Wrap(head' + i) \in Slots
    BY <1>a, PacerAssumption DEF TypeOK, Wrap, Slots
  <2>2. CASE Wrap(head' + i) = tail
    BY <1>a, <2>1, <2>2 DEF TypeOK
  <2>3. CASE Wrap(head' + i) # tail
    <3>1. \E j \in 0 .. Capacity - 1 : j < count /\ Wrap(head' + i) = Wrap(head + j)
      <4>1. CASE ~full
        <5>1. i # count
          BY <1>a, <2>3, <4>1 DEF RingShape
        <5>2. i < count
          BY <1>a, <4>1, <5>1, PacerAssumption DEF TypeOK
        <5>3. QED
          BY <4>1, <5>2
      <4>2. CASE full
        <5>1. count = Capacity /\ count' = Capacity /\ head' = Wrap(head + 1)
          BY <1>a, <4>2, PacerAssumption DEF TypeOK
        <5>2. tail = head
          BY <1>a, <5>1, PacerAssumption DEF TypeOK, RingShape, Wrap, Slots
        <5>3. Wrap(head' + i) = Wrap(head + (i + 1))
          BY <1>a, <5>1, WrapAdds DEF TypeOK
        <5>4. i + 1 # Capacity
          BY <1>a, <2>3, <5>2, <5>3, PacerAssumption DEF TypeOK, Wrap, Slots
        <5>5. i + 1 \in 0 .. Capacity - 1
          BY <5>4, PacerAssumption
        <5>6. QED
          BY <5>1, <5>3, <5>5, PacerAssumption
      <4>3. QED
        BY <4>1, <4>2
    <3>2. buffer'[Wrap(head' + i)] = buffer[Wrap(head' + i)]
      BY <1>a, <2>1, <2>3 DEF TypeOK
    <3>3. QED
      BY <1>a, <3>1, <3>2 DEF WaitingAreCombos
  <2>4. QED
    BY <2>2, <2>3
<1>6. PressIsFarEnough'
  BY <1>a, <1>b, PacerAssumption DEF TypeOK, PressIsFarEnough, TimerCoversWork, Off
<1>7. QED
  BY <1>1, <1>2, <1>3, <1>4, <1>5, <1>6 DEF IInv

LEMMA DampingInv ==
  ASSUME IInv, NEW gap \in 0 .. MaxGap, check_damping(gap)
  PROVE  IInv'
<1> USE DEF check_damping, Lifted, held, ring
<1>a. TypeOK /\ RingShape /\ TimerCoversWork /\ KeysAsRecorded
      /\ WaitingAreCombos /\ PressIsFarEnough
  BY DEF IInv
<1>s. silence' \in Nat
  BY <1>a, PacerAssumption DEF TypeOK, UpTo
<1>1. CASE (count > 0 \/ release_pending) /\ silence' >= profile.damping_timeout
  <2>1. TypeOK'
    <3>1. 0 \in Slots /\ 0 \in 0 .. Capacity
      BY PacerAssumption DEF Slots
    <3>2. kbd' \subseteq Combos /\ rested' \in Nat
      BY <1>a, <1>1 DEF TypeOK
    <3>3. QED
      BY <1>a, <1>s, <1>1, <3>1, <3>2 DEF TypeOK
  <2>2. RingShape' /\ TimerCoversWork' /\ WaitingAreCombos' /\ PressIsFarEnough'
    BY <1>1, PacerAssumption DEF RingShape, TimerCoversWork, WaitingAreCombos,
         PressIsFarEnough, Wrap, Off
  <2>3. KeysAsRecorded'
    BY <1>a, <1>1 DEF KeysAsRecorded
  <2>4. QED
    BY <2>1, <2>2, <2>3 DEF IInv
<1>2. CASE ~((count > 0 \/ release_pending) /\ silence' >= profile.damping_timeout)
  <2>1. UNCHANGED <<ring, held, timer, kbd, rested>>
    BY <1>2 DEF ring, held
  <2>2. TypeOK'
    BY <1>a, <1>s, <2>1, <1>2 DEF TypeOK
  <2>3. RingShape' /\ WaitingAreCombos' /\ KeysAsRecorded'
    BY <1>a, <2>1 DEF RingShape, WaitingAreCombos, KeysAsRecorded, Wrap
  <2>4. TimerCoversWork' /\ PressIsFarEnough'
    BY <1>a, <2>1 DEF TimerCoversWork, PressIsFarEnough
  <2>5. QED
    BY <2>2, <2>3, <2>4 DEF IInv
<1>3. QED
  BY <1>1, <1>2

LEMMA ProcessTimerInv ==
  ASSUME IInv, process_timer
  PROVE  IInv'
<1> USE DEF held, ring
<1>a. TypeOK /\ RingShape /\ TimerCoversWork /\ KeysAsRecorded
      /\ WaitingAreCombos /\ PressIsFarEnough
  BY DEF IInv
<1>b. /\ profile.pacing_interval \in Nat /\ profile.pacing_interval >= MinPacing
      /\ profile.pacing_interval > 0
      /\ profile.key_release_delay \in Nat /\ profile.key_release_delay > 0
  BY <1>a, PacerAssumption DEF TypeOK, ProfileType
<1>1. CASE NothingDue
  <2> USE <1>1 DEF NothingDue
  <2>1. UNCHANGED <<timer, ring, held, profile, silence, kbd, rested>>
    BY <1>a DEF TimerCoversWork, TypeOK, Off
  <2>2. TypeOK'
    BY <1>a, <2>1 DEF TypeOK
  <2>3. RingShape' /\ WaitingAreCombos' /\ KeysAsRecorded'
    BY <1>a, <2>1 DEF RingShape, WaitingAreCombos, KeysAsRecorded, Wrap
  <2>4. TimerCoversWork' /\ PressIsFarEnough'
    BY <1>a, <2>1 DEF TimerCoversWork, PressIsFarEnough
  <2>5. QED
    BY <2>2, <2>3, <2>4 DEF IInv
<1>2. CASE ReleaseKeys
  <2> USE <1>2 DEF ReleaseKeys, Lifted, RearmAfterRelease
  <2>1. TypeOK'
    BY <1>a, <1>b DEF TypeOK, Off
  <2>2. RingShape' /\ WaitingAreCombos'
    BY <1>a DEF RingShape, WaitingAreCombos, Wrap
  <2>3. TimerCoversWork' /\ PressIsFarEnough'
    BY <1>a, <1>b, PacerAssumption DEF TypeOK, TimerCoversWork, PressIsFarEnough, Off
  <2>4. KeysAsRecorded'
    BY <1>a DEF KeysAsRecorded
  <2>5. QED
    BY <2>1, <2>2, <2>3, <2>4 DEF IInv
<1>3. CASE PressKeys
  <2> USE <1>3 DEF PressKeys, RearmAfterPress
  <2>1. buffer[head] \in Combos
    <3>1. Wrap(head + 0) = head
      BY <1>a, PacerAssumption DEF TypeOK, Wrap, Slots
    <3>2. QED
      BY <1>a, <3>1, PacerAssumption DEF TypeOK, WaitingAreCombos
  <2>2. TypeOK'
    <3>1. Wrap(head + 1) \in Slots
      BY <1>a, PacerAssumption DEF TypeOK, Wrap, Slots
    <3>2. kbd' \subseteq Combos /\ held_combo' \in Combos /\ UNCHANGED buffer
      BY <1>a, <2>1 DEF TypeOK
    <3>3. head' \in Slots /\ count' \in 0 .. Capacity /\ timer' \in Nat
      BY <1>a, <1>b, <3>1, PacerAssumption DEF TypeOK
    <3>4. QED
      BY <1>a, <3>2, <3>3 DEF TypeOK
  <2>3. RingShape'
    BY <1>a, PacerAssumption DEF TypeOK, RingShape, Wrap, Slots
  <2>4. WaitingAreCombos'
    <3> SUFFICES ASSUME NEW i \in 0 .. Capacity - 1, i < count'
                 PROVE  buffer'[Wrap(head' + i)] \in Combos
      BY DEF WaitingAreCombos, Wrap
    <3>1. i + 1 \in 0 .. Capacity - 1 /\ i + 1 < count
      BY <1>a, PacerAssumption DEF TypeOK
    <3>2. Wrap(head' + i) = Wrap(head + (i + 1))
      BY <1>a, WrapAdds DEF TypeOK
    <3>3. QED
      BY <1>a, <3>1, <3>2 DEF WaitingAreCombos
  <2>5. TimerCoversWork' /\ PressIsFarEnough'
    BY <1>a, <1>b DEF TypeOK, TimerCoversWork, PressIsFarEnough, Off
  <2>6. KeysAsRecorded'
    BY <1>a DEF KeysAsRecorded
  <2>7. QED
    BY <2>2, <2>3, <2>4, <2>5, <2>6 DEF IInv
<1>4. QED
  BY <1>1, <1>2, <1>3 DEF process_timer

LEMMA EnvironmentInv ==
  ASSUME IInv, ReportTimer \/ (\E p \in Profiles : Reload(p)) \/ Tick \/ UNCHANGED vars
  PROVE  IInv'
<1>a. TypeOK /\ RingShape /\ TimerCoversWork /\ KeysAsRecorded
      /\ WaitingAreCombos /\ PressIsFarEnough
  BY DEF IInv
<1>1. UNCHANGED <<ring, held, kbd>>
  BY DEF ReportTimer, Reload, Tick, vars, ring, held
<1>2. RingShape' /\ WaitingAreCombos' /\ KeysAsRecorded'
  BY <1>a, <1>1 DEF RingShape, WaitingAreCombos, KeysAsRecorded, Wrap, ring, held
<1>3. TypeOK' /\ TimerCoversWork' /\ PressIsFarEnough'
  <2>1. CASE Tick
    BY <1>a, <2>1, PacerAssumption DEF Tick, TypeOK, TimerCoversWork, PressIsFarEnough,
         UpTo, ring, held, Off
  <2>2. CASE ReportTimer
    BY <1>a, <2>2 DEF ReportTimer, TypeOK, TimerCoversWork, PressIsFarEnough, ring, held
  <2>3. CASE \E p \in Profiles : Reload(p)
    BY <1>a, <2>3 DEF Reload, TypeOK, TimerCoversWork, PressIsFarEnough, ring, held
  <2>4. CASE UNCHANGED vars
    BY <1>a, <2>4 DEF vars, TypeOK, TimerCoversWork, PressIsFarEnough
  <2>5. QED
    BY <2>1, <2>2, <2>3, <2>4
<1>4. QED
  BY <1>2, <1>3 DEF IInv

LEMMA NextInv == IInv /\ [Next]_vars => IInv'
BY EnqueueInv, DampingInv, ProcessTimerInv, EnvironmentInv DEF Next

(* The pacer's invariant: the ring has its shape, waiting slots hold        *)
(* combos, the timer runs exactly while there is work, the keyboard holds   *)
(* what is recorded, and the next press is a pacing interval away.          *)
THEOREM PacerInvariant == Spec => []IInv
<1>1. Init => IInv
  BY InitInv
<1>2. IInv /\ [Next]_vars => IInv'
  BY NextInv
<1>3. QED
  BY <1>1, <1>2, PTL DEF Spec

(* Nothing that has to happen (a press, a release) is ever left without a   *)
(* timer that will make it happen, and no timer runs for nothing.           *)
THEOREM TimerAlwaysCoversWork == Spec => []TimerCoversWork
<1>1. IInv => TimerCoversWork
  BY DEF IInv
<1>2. QED
  BY <1>1, PacerInvariant, PTL

(* The keys that are down are the keys the pacer will lift.                 *)
THEOREM KeysAlwaysAsRecorded == Spec => []KeysAsRecorded
<1>1. IInv => KeysAsRecorded
  BY DEF IInv
<1>2. QED
  BY <1>1, PacerInvariant, PTL

(* Presses are spaced by the shortest pacing interval.                      *)
THEOREM PressesAreAlwaysPaced == Spec => PressesArePaced
<1>1. IInv /\ [Next]_vars => [(kbd = {} /\ kbd' # {}) => rested >= MinPacing]_vars
  <2> SUFFICES ASSUME IInv, Next, kbd = {}, kbd' # {}
               PROVE  rested >= MinPacing
    OBVIOUS
  <2>1. PressKeys
    BY DEF Next, enqueue_combo, check_damping, process_timer, NothingDue, ReleaseKeys,
         ReportTimer, Reload, Tick, Lifted, held
  <2>2. rested + 0 >= MinPacing
    BY <2>1 DEF PressKeys, IInv, PressIsFarEnough, Off
  <2>3. QED
    BY <2>2, PacerAssumption DEF IInv, TypeOK
<1>2. QED
  BY <1>1, PacerInvariant, PTL DEF Spec, PressesArePaced

-----------------------------------------------------------------------------
(* The refinement.  n waiting slots of a ring b, read from slot h on, are a *)
(* sequence of n combos.                                                    *)
Line(b, h, n) == [i \in 1 .. n |-> b[Wrap(h + (i - 1))]]

LEMMA LineIsSeq ==
  ASSUME NEW b, NEW h, NEW n \in 0 .. Capacity,
         \A i \in 0 .. Capacity - 1 : i < n => b[Wrap(h + i)] \in Combos
  PROVE  Line(b, h, n) \in Seq(Combos) /\ Len(Line(b, h, n)) = n
<1>1. n \in Nat
  BY PacerAssumption
<1>2. ASSUME NEW i \in 1 .. n PROVE b[Wrap(h + (i - 1))] \in Combos
  <2>1. i - 1 \in 0 .. Capacity - 1 /\ i - 1 < n
    BY PacerAssumption
  <2>2. QED
    BY <2>1
<1>3. Line(b, h, n) \in [1 .. n -> Combos]
  BY <1>2 DEF Line
<1>4. QED
  BY <1>1, <1>3

LEMMA WaitingSeq ==
  IInv => Waiting \in Seq(Combos) /\ Len(Waiting) = count
<1> SUFFICES ASSUME IInv PROVE Waiting \in Seq(Combos) /\ Len(Waiting) = count
  OBVIOUS
<1>1. /\ count \in 0 .. Capacity
      /\ \A i \in 0 .. Capacity - 1 : i < count => buffer[Wrap(head + i)] \in Combos
  BY DEF IInv, TypeOK, WaitingAreCombos
<1>2. QED
  <2>1. Waiting = Line(buffer, head, count)
    BY DEF Waiting, Line
  <2>2. QED
    BY <1>1, <2>1, LineIsSeq

LEMMA NextWaitingSeq ==
  IInv' => Waiting' \in Seq(Combos) /\ Len(Waiting') = count'
<1> SUFFICES ASSUME IInv' PROVE Waiting' \in Seq(Combos) /\ Len(Waiting') = count'
  OBVIOUS
<1>1. /\ count' \in 0 .. Capacity
      /\ \A i \in 0 .. Capacity - 1 : i < count' => buffer'[Wrap(head' + i)] \in Combos
  BY DEF IInv, TypeOK, WaitingAreCombos, Wrap
<1>2. Waiting' = Line(buffer', head', count')
  BY DEF Waiting, Line, Wrap
<1>3. QED
  BY <1>1, <1>2, LineIsSeq

LEMMA EnqueueAccepts ==
  ASSUME IInv, IInv', NEW c \in Combos, enqueue_combo(c)
  PROVE  Promise!Accept(c)
<1> USE DEF enqueue_combo, HeadAfterPush, UpTo
<1>a. TypeOK /\ RingShape
  BY DEF IInv
<1>b. Capacity \in Nat /\ Capacity > 1 /\ count \in 0 .. Capacity /\ head \in Slots
  BY <1>a, PacerAssumption DEF TypeOK
<1> DEFINE kept == IF Len(Waiting) = Capacity THEN Tail(Waiting) ELSE Waiting
<1>1. Waiting \in Seq(Combos) /\ Len(Waiting) = count
  BY WaitingSeq
<1>2. Waiting' \in Seq(Combos) /\ Len(Waiting') = count'
  BY NextWaitingSeq
<1>3. kept \in Seq(Combos) /\ Len(kept) = count' - 1
  <2>1. CASE count = Capacity
    <3>1. Waiting # << >>
      BY <1>b, <1>1, <2>1, EmptySeq
    <3>2. QED
      BY <1>b, <1>1, <2>1, <3>1, HeadTailProperties
  <2>2. CASE count # Capacity
    BY <1>b, <1>1, <2>2
  <2>3. QED
    BY <2>1, <2>2
<1>4. Append(kept, c) \in Seq(Combos) /\ Len(Append(kept, c)) = count'
  BY <1>b, <1>3, AppendProperties
<1>5. ASSUME NEW i \in 1 .. count'
      PROVE  Waiting'[i] = Append(kept, c)[i]
  <2>1. Waiting'[i] = buffer'[Wrap(head' + (i - 1))]
    BY DEF Waiting, Wrap
  <2>2. CASE i = count'
    <3>1. Wrap(head' + (i - 1)) = tail
      BY <1>a, <1>b, <2>2 DEF TypeOK, RingShape, Wrap, Slots
    <3>2. buffer'[tail] = c
      BY <1>a DEF TypeOK
    <3>3. Append(kept, c)[i] = c
      BY <1>3, <2>2, AppendProperties
    <3>4. QED
      BY <2>1, <3>1, <3>2, <3>3
  <2>3. CASE i # count'
    <3>1. i \in 1 .. count' - 1
      BY <1>b, <2>3
    <3>2. Append(kept, c)[i] = kept[i]
      BY <1>3, <3>1, AppendProperties
    <3>3. Wrap(head' + (i - 1)) # tail /\ Wrap(head' + (i - 1)) \in Slots
      BY <1>a, <1>b, <3>1 DEF TypeOK, RingShape, Wrap, Slots
    <3>4. Waiting'[i] = buffer[Wrap(head' + (i - 1))]
      BY <1>a, <2>1, <3>3 DEF TypeOK
    <3>5. CASE count = Capacity
      <4>1. Waiting # << >>
        BY <1>b, <1>1, <3>5, EmptySeq
      <4>2. kept[i] = Waiting[i + 1]
        BY <1>b, <1>1, <3>1, <3>5, <4>1, HeadTailProperties
      <4>3. Waiting[i + 1] = buffer[Wrap(head + i)]
        BY <1>b, <3>1, <3>5 DEF Waiting
      <4>4. Wrap(head' + (i - 1)) = Wrap(head + i)
        BY <1>b, <3>1, <3>5 DEF Wrap, Slots
      <4>5. QED
        BY <3>2, <3>4, <4>2, <4>3, <4>4
    <3>6. CASE count # Capacity
      <4>1. kept[i] = buffer[Wrap(head + (i - 1))]
        BY <1>b, <1>1, <3>1, <3>6 DEF Waiting
      <4>2. head' = head
        BY <1>b, <3>6
      <4>3. buffer[Wrap(head' + (i - 1))] = buffer[Wrap(head + (i - 1))]
        BY <4>2
      <4>4. QED
        BY <3>2, <3>4, <4>1, <4>3
    <3>7. QED
      BY <3>5, <3>6
  <2>4. QED
    BY <2>2, <2>3
<1> HIDE DEF kept
<1>6. Waiting' = Append(kept, c)
  BY <1>2, <1>4, <1>5, SeqEqual
<1>7. QED
  BY <1>6 DEF kept, Promise!Accept

LEMMA PressPresses ==
  ASSUME IInv, IInv', PressKeys
  PROVE  Promise!Press
<1> USE DEF PressKeys
<1>a. TypeOK /\ KeysAsRecorded
  BY DEF IInv
<1>b. Capacity \in Nat /\ Capacity > 1 /\ count \in 1 .. Capacity /\ head \in Slots
  BY <1>a, PacerAssumption DEF TypeOK
<1>1. Waiting \in Seq(Combos) /\ Len(Waiting) = count
  BY WaitingSeq
<1>2. Waiting' \in Seq(Combos) /\ Len(Waiting') = count'
  BY NextWaitingSeq
<1>3. Waiting # << >>
  BY <1>b, <1>1, EmptySeq
<1>4. Tail(Waiting) \in Seq(Combos) /\ Len(Tail(Waiting)) = count'
      /\ \A i \in 1 .. count' : Tail(Waiting)[i] = Waiting[i + 1]
  BY <1>b, <1>1, <1>3, HeadTailProperties
<1>5. ASSUME NEW i \in 1 .. count'
      PROVE  Waiting'[i] = Tail(Waiting)[i]
  <2>1. Waiting'[i] = buffer[Wrap(head' + (i - 1))]
    BY DEF Waiting, Wrap
  <2>2. Waiting[i + 1] = buffer[Wrap(head + i)]
    BY <1>b DEF Waiting
  <2>3. Wrap(head' + (i - 1)) = Wrap(head + i)
    BY <1>b DEF Wrap, Slots
  <2>4. QED
    BY <1>4, <2>1, <2>2, <2>3
<1>6. Waiting' = Tail(Waiting)
  BY <1>2, <1>4, <1>5, SeqEqual
<1>7. Head(Waiting) = buffer[head]
  <2>1. Waiting[1] = buffer[Wrap(head + 0)]
    BY <1>b DEF Waiting
  <2>2. Wrap(head + 0) = head
    BY <1>b DEF Wrap, Slots
  <2>3. QED
    BY <1>1, <1>3, <2>1, <2>2, HeadTailProperties
<1>8. kbd = {} /\ kbd' = {Head(Waiting)}
  BY <1>a, <1>7 DEF KeysAsRecorded
<1>9. QED
  BY <1>3, <1>6, <1>8 DEF Promise!Press

(* Steps that leave the ring alone leave the waiting line alone.            *)
LEMMA SameRing == UNCHANGED <<buffer, head, count>> => Waiting' = Waiting
BY DEF Waiting, Wrap

LEMMA StepKeepsPromise ==
  ASSUME IInv, IInv', [Next]_vars
  PROVE  [Promise!Next]_<<Waiting, kbd>>
<1>1. ASSUME NEW c \in Combos, enqueue_combo(c) PROVE Promise!Next
  BY <1>1, EnqueueAccepts DEF Promise!Next
<1>2. ASSUME NEW gap \in 0 .. MaxGap, check_damping(gap)
      PROVE  [Promise!Next]_<<Waiting, kbd>>
  <2>1. CASE (count > 0 \/ release_pending) /\ silence' >= profile.damping_timeout
    <3>1. Waiting' = << >>
      BY <1>2, <2>1 DEF check_damping, Waiting
    <3>2. kbd' = {}
      BY <1>2, <2>1 DEF check_damping, Lifted, IInv, KeysAsRecorded
    <3>3. QED
      BY <3>1, <3>2 DEF Promise!Next, Promise!Flush
  <2>2. CASE ~((count > 0 \/ release_pending) /\ silence' >= profile.damping_timeout)
    BY <1>2, <2>2, SameRing DEF check_damping, ring
  <2>3. QED
    BY <2>1, <2>2
<1>3. CASE PressKeys
  BY <1>3, PressPresses DEF Promise!Next
<1>4. CASE ReleaseKeys
  <2>1. kbd # {} /\ kbd' = {}
    BY <1>4 DEF ReleaseKeys, Lifted, IInv, KeysAsRecorded
  <2>2. Waiting' = Waiting
    BY <1>4, SameRing DEF ReleaseKeys, ring
  <2>3. QED
    BY <2>1, <2>2 DEF Promise!Next, Promise!Release
<1>5. CASE NothingDue \/ ReportTimer \/ (\E p \in Profiles : Reload(p)) \/ Tick
           \/ UNCHANGED vars
  BY <1>5, SameRing DEF NothingDue, ReportTimer, Reload, Tick, ring, vars
<1>6. QED
  BY <1>1, <1>2, <1>3, <1>4, <1>5 DEF Next, process_timer

(* Every behaviour of the pacer is a behaviour of PacedKeys: first in first *)
(* out, the oldest lost first, one combo down at a time.                    *)
THEOREM PacerKeepsPromise == Spec => KeepsPromise
<1>1. Init => Promise!Init
  <2>1. Init => Waiting = << >>
    BY DEF Init, Waiting
  <2>2. QED
    BY <2>1 DEF Init, Promise!Init
<1>2. IInv /\ IInv' /\ [Next]_vars => [Promise!Next]_(Promise!vars)
  BY StepKeepsPromise DEF Promise!vars
<1>3. QED
  BY <1>1, <1>2, PacerInvariant, PTL DEF Spec, KeepsPromise, Promise!Spec
=============================================================================
