---------------------------- MODULE RuleProofs -----------------------------
(***************************************************************************)
(* Proofs about RuleTable, for every capacity, every hash function and     *)
(* every file: the probing is sound, so the last line that gives an app a  *)
(* rule wins unless the table had to refuse a line.                        *)
(***************************************************************************)
EXTENDS RuleTable, FiniteSetTheorems, WellFoundedInduction, TLAPS

(* A probe examines slots only, and the same slot never twice.              *)
LEMMA AtInSlots == ASSUME NEW h \in Nat, NEW s \in Slots PROVE At(h, s) \in Slots
  BY RuleAssumption DEF At, Slots

LEMMA AtInjective ==
  ASSUME NEW h \in Nat, NEW s \in Slots, NEW u \in Slots, At(h, s) = At(h, u)
  PROVE  s = u
<1>1. PICK k \in 0 .. Capacity - 1 : k = h % Capacity  BY RuleAssumption
<1>2. At(h, s) = IF k + s < Capacity THEN k + s ELSE k + s - Capacity
  BY <1>1, RuleAssumption DEF At, Slots
<1>3. At(h, u) = IF k + u < Capacity THEN k + u ELSE k + u - Capacity
  BY <1>1, RuleAssumption DEF At, Slots
<1>4. (IF k + s < Capacity THEN k + s ELSE k + s - Capacity)
        = IF k + u < Capacity THEN k + u ELSE k + u - Capacity
  BY <1>2, <1>3
<1>5. s \in 0 .. Capacity - 1 /\ u \in 0 .. Capacity - 1 /\ Capacity \in Nat
  BY RuleAssumption DEF Slots
<1> QED  BY <1>4, <1>5

(* A probe that can stop has a first step at which it does.                 *)
LEMMA FirstStops ==
  ASSUME NEW t, NEW h, Stops(t, h) # {}
  PROVE  First(t, h) \in Stops(t, h) /\ \A u \in Stops(t, h) : First(t, h) <= u
<1> DEFINE less == OpToRel(<, Nat)
<1>1. Stops(t, h) \subseteq Nat  BY DEF Stops, Slots
<1>2. \A u, s \in Nat : u < s => <<u, s>> \in less  BY DEF OpToRel
<1>3. IsWellFoundedOn(less, Nat)  BY NatLessThanWellFounded
<1> HIDE DEF less
<1>4. PICK s \in Stops(t, h) : \A u \in Stops(t, h) : ~(<<u, s>> \in less)
  BY <1>1, <1>3, WFMin, Zenon
<1>5. \A u \in Stops(t, h) : ~(u < s)
  BY <1>1, <1>2, <1>4, Zenon
<1>6. \A u \in Stops(t, h) : s <= u
  BY <1>1, <1>5
<1> QED  BY <1>6 DEF First

LEMMA FirstInSlots ==
  ASSUME NEW t, NEW h, Stops(t, h) # {}
  PROVE  First(t, h) \in Slots
  BY FirstStops DEF Stops

LEMMA HashType == ASSUME NEW h \in Hashes PROVE h \in Nat /\ h # Empty
  BY RuleAssumption DEF Hashes

(* From any home slot a probe can reach every slot of the table.            *)
LEMMA AtReaches ==
  ASSUME NEW h \in Nat, NEW i \in Slots
  PROVE  \E s \in Slots : At(h, s) = i
<1>1. PICK k \in 0 .. Capacity - 1 : k = h % Capacity  BY RuleAssumption
<1> DEFINE s == IF i >= k THEN i - k ELSE i - k + Capacity
<1>2. s \in Slots  BY <1>1, RuleAssumption DEF Slots
<1>3. At(h, s) = i  BY <1>1, RuleAssumption DEF At, Slots
<1> QED  BY <1>2, <1>3

(* A hash found on an unbroken chain is where the probe stops first.        *)
LEMMA Hit ==
  ASSUME NEW t \in Table, Unbroken(t), NEW h \in Hashes,
         NEW s \in Slots, t[At(h, s)].app_hash = h
  PROVE  Found(t, h) /\ First(t, h) = s /\ lookup(t, h) = t[At(h, s)].rule
<1>1. s \in Stops(t, h)  BY DEF Stops
<1>2. First(t, h) \in Stops(t, h) /\ First(t, h) <= s /\ First(t, h) \in Slots
  BY <1>1, FirstStops, FirstInSlots
<1>3. \A u \in Slots : u < s => u \notin Stops(t, h)
  BY DEF Unbroken, Stops
<1>4. First(t, h) = s
  BY <1>2, <1>3, RuleAssumption DEF Slots
<1> QED  BY <1>1, <1>4, HashType DEF Found, lookup

LEMMA Miss ==
  ASSUME NEW t, NEW h, \A s \in Slots : t[At(h, s)].app_hash # h
  PROVE  lookup(t, h) = NoRule
  BY FirstInSlots DEF Found, lookup

(* A free slot anywhere ends every probe.                                   *)
LEMMA FreeSlotStops ==
  ASSUME NEW t, NEW h \in Nat, NEW i \in Slots, t[i].app_hash = Empty
  PROVE  Stops(t, h) # {}
  BY AtReaches DEF Stops

(* One insertion: the chains stay unbroken, the hash gets its rule, and     *)
(* every other hash keeps the rule it had or had not.                       *)
LEMMA InsertKeeps ==
  ASSUME NEW t \in Table, Unbroken(t), NEW h \in Hashes, Stops(t, h) # {}, NEW r \in Rules
  PROVE  /\ Written(t, h, r) \in Table
         /\ Unbroken(Written(t, h, r))
         /\ lookup(Written(t, h, r), h) = r
         /\ \A g \in Hashes \ {h} : lookup(Written(t, h, r), g) = lookup(t, g)
<1> DEFINE n == Written(t, h, r)
           f == First(t, h)
           p == At(h, f)
<1>1. f \in Slots /\ f \in Stops(t, h) /\ \A u \in Stops(t, h) : f <= u
  BY FirstStops, FirstInSlots
<1>2. p \in Slots  BY <1>1, HashType, AtInSlots
<1>3. t[p].app_hash \in {Empty, h}  BY <1>1 DEF Stops
<1> HIDE DEF f, p, n
<1>4. n \in Table /\ n[p] = [app_hash |-> h, rule |-> r]
      /\ \A i \in Slots : i # p => n[i] = t[i]
  BY <1>2 DEF Table, f, p, n, Written
<1>5. \A g \in Hashes, s \in Slots : At(g, s) \in Slots
  BY HashType, AtInSlots
<1>6. Unbroken(n)
  <2> SUFFICES ASSUME NEW g \in Hashes, NEW s \in Slots, n[At(g, s)].app_hash = g,
                      NEW u \in Slots, u < s
               PROVE  n[At(g, u)].app_hash \notin {Empty, g}
    BY DEF Unbroken
  <2>1. CASE g = h
    <3>1. s <= f
      <4> SUFFICES ASSUME s # f PROVE s <= f  BY <1>1, RuleAssumption DEF Slots
      <4>1. At(h, s) # p  BY <1>1, HashType, AtInjective DEF p
      <4>2. t[At(h, s)].app_hash = h  BY <4>1, <1>4, <1>5, <2>1
      <4> QED  BY <4>2, Hit DEF f
    <3>2. u \notin Stops(t, h)
      BY <1>1, <3>1, RuleAssumption DEF Slots
    <3>3. At(h, u) # p
      BY <1>1, <3>1, HashType, AtInjective, RuleAssumption DEF p, Slots
    <3> QED  BY <3>2, <3>3, <1>4, <1>5, <2>1 DEF Stops
  <2>2. CASE g # h
    <3>1. At(g, s) # p  BY <1>4, <2>2
    <3>2. t[At(g, s)].app_hash = g  BY <3>1, <1>4, <1>5
    <3>3. t[At(g, u)].app_hash \notin {Empty, g}  BY <3>2 DEF Unbroken
    <3> QED  BY <3>3, <1>4, <1>5, <2>2, HashType
  <2> QED  BY <2>1, <2>2
<1>7. lookup(n, h) = r
  <2>1. n[At(h, f)].app_hash = h /\ n[At(h, f)].rule = r  BY <1>4 DEF p
  <2> QED  BY <2>1, <1>1, <1>4, <1>6, Hit
<1>8. ASSUME NEW g \in Hashes \ {h} PROVE lookup(n, g) = lookup(t, g)
  <2>1. \A s \in Slots : t[At(g, s)].app_hash = g => n[At(g, s)] = t[At(g, s)]
    BY <1>3, <1>4, <1>5, HashType
  <2>2. \A s \in Slots : n[At(g, s)].app_hash = g => t[At(g, s)].app_hash = g
    BY <1>4, <1>5
  <2>3. CASE \E s \in Slots : t[At(g, s)].app_hash = g
    <3>1. PICK s \in Slots : t[At(g, s)].app_hash = g  BY <2>3
    <3>2. lookup(t, g) = t[At(g, s)].rule  BY <3>1, Hit
    <3>3. n[At(g, s)] = t[At(g, s)]  BY <2>1, <3>1
    <3>4. n \in Table /\ n[At(g, s)].app_hash = g  BY <3>1, <3>3, <1>4
    <3>5. lookup(n, g) = n[At(g, s)].rule  BY <3>4, <1>6, Hit
    <3> QED  BY <3>2, <3>3, <3>5
  <2>4. CASE \A s \in Slots : t[At(g, s)].app_hash # g
    <3>1. \A s \in Slots : n[At(g, s)].app_hash # g  BY <2>2, <2>4
    <3>2. lookup(n, g) = NoRule  BY <3>1, Miss
    <3>3. lookup(t, g) = NoRule  BY <2>4, Miss
    <3> QED  BY <3>2, <3>3
  <2> QED  BY <2>3, <2>4
<1> QED  BY <1>4, <1>6, <1>7, <1>8 DEF n
-----------------------------------------------------------------------------
(* The invariant.                                                           *)

LEMMA SlotsFinite == IsFiniteSet(Slots) /\ Cardinality(Slots) = Capacity
  BY FS_Interval, RuleAssumption DEF Slots

LEMMA LimitBelowCapacity == Limit \in Nat /\ Limit < Capacity
  BY RuleAssumption DEF Limit

(* Below the load limit there is a free slot.                               *)
LEMMA RoomLeavesFreeSlot ==
  ASSUME TypeOK, CountIsOccupied
  PROVE  \E i \in Slots : slots[i].app_hash = Empty
<1> SUFFICES ASSUME Occupied = Slots PROVE FALSE
  BY DEF Occupied
<1> QED  BY SlotsFinite, LimitBelowCapacity, RuleAssumption DEF CountIsOccupied, TypeOK

LEMMA EmptyTable ==
  ASSUME NEW t \in Table, \A i \in Slots : t[i].app_hash = Empty
  PROVE  Unbroken(t) /\ \A h \in Hashes : lookup(t, h) = NoRule
<1>1. \A h \in Hashes, s \in Slots : t[At(h, s)].app_hash # h
  BY HashType, AtInSlots
<1> QED  BY <1>1, Miss DEF Unbroken

LEMMA InitInv == Init => IInv
<1> SUFFICES ASSUME Init PROVE IInv
  OBVIOUS
<1>1. TypeOK  BY DEF Init, TypeOK, Table, FreeSlot
<1>2. \A i \in Slots : slots[i].app_hash = Empty  BY DEF Init, FreeSlot
<1>3. Occupied = {}  BY <1>2 DEF Occupied
<1>4. CountIsOccupied  BY <1>3, FS_EmptySet, LimitBelowCapacity DEF Init, CountIsOccupied
<1>5. ChainsUnbroken /\ \A h \in Hashes : lookup(slots, h) = NoRule
  BY <1>1, <1>2, EmptyTable DEF TypeOK, ChainsUnbroken
<1>6. InUseHoldsRule  BY <1>2 DEF InUseHoldsRule
<1>7. LastLineWins /\ RefusedAtLimit  BY <1>5 DEF LastLineWins, RefusedAtLimit, Init
<1> QED  BY <1>1, <1>4, <1>5, <1>6, <1>7 DEF IInv

LEMMA StartInv == IInv /\ StartLoad => IInv'
<1> SUFFICES ASSUME IInv, StartLoad PROVE IInv'
  OBVIOUS
<1> USE DEF IInv
<1>1. slots' \in Table /\ \A i \in Slots : slots'[i].app_hash = Empty
  BY DEF StartLoad, Cleared, TypeOK, Table
<1>2. TypeOK'  BY <1>1 DEF StartLoad, TypeOK
<1>3. Occupied' = {}  BY <1>1 DEF Occupied
<1>4. CountIsOccupied'
  BY <1>3, FS_EmptySet, LimitBelowCapacity DEF StartLoad, CountIsOccupied
<1>5. ChainsUnbroken' /\ \A h \in Hashes : lookup(slots', h) = NoRule
  BY <1>1, EmptyTable DEF ChainsUnbroken
<1>6. InUseHoldsRule'  BY <1>1 DEF InUseHoldsRule
<1>7. LastLineWins' /\ RefusedAtLimit'  BY <1>5 DEF LastLineWins, RefusedAtLimit, StartLoad
<1> QED  BY <1>2, <1>4, <1>5, <1>6, <1>7

LEMMA RuleOfType == ASSUME NEW line \in Lines, Gives(line)
                    PROVE  RuleOf(line) \in Rules /\ hash_app[line.app] \in Hashes
<1>1. /\ line.app \in Apps /\ line.preset \in Presets
      /\ line.mode \in Modes \cup {Inherit, Blank, Unknown}
      /\ line.invert \in Inverts \cup {Blank, Unknown}
  BY RuleAssumption DEF Gives
<1> QED  BY <1>1 DEF RuleOf, Rules, OrInherit, Hashes, Inverts

LEMMA RuleLineInv ==
  ASSUME IInv, NEW line \in Lines, RuleLine(line)
  PROVE  IInv'
<1> DEFINE h == hash_app[line.app]
           r == RuleOf(line)
           p == At(h, First(slots, h))
<1>1. h \in Hashes /\ r \in Rules /\ h \in Nat /\ h # Empty
  BY RuleOfType, HashType DEF RuleLine
<1>2. /\ insert(h, r) /\ wanted' = [wanted EXCEPT ![h] = r] /\ loading' = loading
      /\ refused' = (refused \/ ~Accepts(h))
      /\ TypeOK /\ CountIsOccupied /\ ChainsUnbroken /\ InUseHoldsRule
      /\ RefusedAtLimit /\ LastLineWins
  BY DEF RuleLine, IInv
<1> HIDE DEF h, r
<1>3. CASE ~Accepts(h)
  <2>1. UNCHANGED <<slots, count>>  BY <1>2, <1>3 DEF insert
  <2>2. Stops(slots, h) # {}
    BY <1>1, <1>2, RoomLeavesFreeSlot, FreeSlotStops
  <2>3. ~Room'  BY <1>1, <1>3, <2>1, <2>2 DEF Accepts, Room
  <2>4. LastLineWins' /\ RefusedAtLimit'
    BY <1>2, <1>3, <2>3 DEF LastLineWins, RefusedAtLimit
  <2>5. TypeOK'  BY <1>1, <1>2, <2>1 DEF TypeOK
  <2>6. CountIsOccupied'  BY <1>2, <2>1 DEF CountIsOccupied, Occupied
  <2>7. ChainsUnbroken' /\ InUseHoldsRule'
    BY <1>2, <2>1 DEF ChainsUnbroken, InUseHoldsRule
  <2> QED  BY <2>4, <2>5, <2>6, <2>7 DEF IInv
<1>4. CASE Accepts(h)
  <2>1. /\ Stops(slots, h) # {} /\ Room
        /\ slots' = Written(slots, h, r)
        /\ count' = CountAfter(h)
    BY <1>2, <1>4 DEF insert, Accepts
  <2>2. slots \in Table /\ Unbroken(slots)  BY <1>2 DEF TypeOK, ChainsUnbroken
  <2>3. /\ slots' \in Table /\ Unbroken(slots') /\ lookup(slots', h) = r
        /\ \A g \in Hashes \ {h} : lookup(slots', g) = lookup(slots, g)
    BY <1>1, <2>1, <2>2, InsertKeeps
  <2>4. p \in Slots /\ slots[p].app_hash \in {Empty, h}
    BY <1>1, <2>1, FirstStops, FirstInSlots, AtInSlots DEF Stops
  <2> HIDE DEF p
  <2>5. /\ slots'[p] = [app_hash |-> h, rule |-> r]
        /\ \A i \in Slots : i # p => slots'[i] = slots[i]
    BY <2>1, <2>2, <2>4 DEF Table, Written, p
  <2>6. TypeOK'
    <3>1. count' \in Nat  BY <1>2, <2>1 DEF TypeOK, CountAfter
    <3> QED  BY <3>1, <1>1, <1>2, <2>3 DEF TypeOK
  <2>7. CountIsOccupied'
    <3>1. Occupied' = Occupied \cup {p}
      BY <1>1, <2>4, <2>5 DEF Occupied
    <3>2. p \in Occupied <=> Found(slots, h)
      BY <1>1, <2>1, <2>4 DEF Occupied, Found, p
    <3>3. IsFiniteSet(Occupied)
      BY SlotsFinite, FS_Subset DEF Occupied
    <3>4. Cardinality(Occupied') = count'
      BY <3>1, <3>2, <3>3, <1>2, <2>1, FS_AddElement DEF CountIsOccupied, CountAfter
    <3>5. count' <= Limit
      BY <1>2, <2>1, LimitBelowCapacity DEF CountIsOccupied, CountAfter, Room, TypeOK
    <3> QED  BY <3>4, <3>5 DEF CountIsOccupied
  <2>8. InUseHoldsRule'
    BY <1>1, <1>2, <2>5 DEF InUseHoldsRule
  <2>9. LastLineWins' /\ RefusedAtLimit'
    BY <1>1, <1>2, <1>4, <2>1, <2>3 DEF LastLineWins, RefusedAtLimit, TypeOK
  <2> QED  BY <2>3, <2>6, <2>7, <2>8, <2>9 DEF IInv, ChainsUnbroken
<1> QED  BY <1>3, <1>4

LEMMA SameTableInv ==
  ASSUME IInv, UNCHANGED <<slots, count, wanted, refused>>, loading' \in BOOLEAN
  PROVE  IInv'
  BY DEF IInv, TypeOK, CountIsOccupied, Occupied, ChainsUnbroken, InUseHoldsRule,
         RefusedAtLimit, LastLineWins, Room

LEMMA NextInv == IInv /\ [Next]_vars => IInv'
<1> SUFFICES ASSUME IInv, [Next]_vars PROVE IInv'
  OBVIOUS
<1>1. CASE StartLoad  BY <1>1, StartInv
<1>2. ASSUME NEW line \in Lines, RuleLine(line) PROVE IInv'
  BY <1>2, RuleLineInv
<1>3. CASE UNCHANGED vars  BY <1>3, SameTableInv DEF vars, IInv, TypeOK
<1>4. CASE EndLoad  BY <1>4, SameTableInv DEF EndLoad
<1>5. ASSUME NEW line \in Lines, OtherLine(line) PROVE IInv'
  BY <1>3, <1>5 DEF OtherLine
<1> QED  BY <1>1, <1>2, <1>3, <1>4, <1>5 DEF Next, vars

(* The table is sound after every line of every file: its counter counts    *)
(* the slots in use, no probe chain is broken, and unless a line was        *)
(* refused the last line that gave an app a rule wins.                      *)
THEOREM RuleTableInvariant == Spec => []IInv
<1> QED  BY InitInv, NextInv, PTL DEF Spec

(* insert and clear keep the counter exact and half of the table free.      *)
THEOREM CountIsAlwaysOccupied == Spec => []CountIsOccupied
<1>1. IInv => CountIsOccupied  BY DEF IInv
<1> QED  BY <1>1, RuleTableInvariant, PTL

(* Lookups obey the last line of the file unless a line was refused.        *)
THEOREM LastLineAlwaysWins == Spec => []LastLineWins
<1>1. IInv => LastLineWins  BY DEF IInv
<1> QED  BY <1>1, RuleTableInvariant, PTL

LEMMA StepKeepsRules ==
  ASSUME IInv, [Next]_vars, NEW h \in Hashes,
         loading, lookup(slots, h) # NoRule, wanted'[h] = wanted[h]
  PROVE  lookup(slots', h) = lookup(slots, h)
<1>1. CASE UNCHANGED slots  BY <1>1
<1>2. ASSUME NEW line \in Lines, RuleLine(line), ~UNCHANGED slots
      PROVE  lookup(slots', h) = lookup(slots, h)
  <2> DEFINE g == hash_app[line.app]
             r == RuleOf(line)
  <2>1. g \in Hashes /\ r \in Rules  BY <1>2, RuleOfType DEF RuleLine
  <2>2. Accepts(g) /\ slots' = Written(slots, g, r)
    BY <1>2 DEF RuleLine, insert
  <2>3. Stops(slots, g) # {} /\ Room  BY <2>2 DEF Accepts
  <2>4. wanted' = [wanted EXCEPT ![g] = r]  BY <1>2 DEF RuleLine
  <2>5. /\ slots \in Table /\ Unbroken(slots) /\ LastLineWins /\ RefusedAtLimit
        /\ wanted \in [Hashes -> Rules \cup {NoRule}]
    BY DEF IInv, TypeOK, ChainsUnbroken
  <2> HIDE DEF g, r
  <2>6. /\ lookup(slots', g) = r
        /\ \A k \in Hashes \ {g} : lookup(slots', k) = lookup(slots, k)
    BY <2>1, <2>2, <2>3, <2>5, InsertKeeps
  <2>7. CASE h # g  BY <2>6, <2>7
  <2>8. CASE h = g
    BY <2>1, <2>3, <2>4, <2>5, <2>6, <2>8 DEF LastLineWins, RefusedAtLimit
  <2> QED  BY <2>7, <2>8
<1> QED
  BY <1>1, <1>2 DEF Next, StartLoad, EndLoad, OtherLine, vars

(* No line of a file hides or alters a rule an earlier line gave an app,    *)
(* unless it gives that very app another one.                               *)
THEOREM RulesAlwaysStay == Spec => RulesStay
<1>1. IInv /\ [Next]_vars
        => [\A h \in Hashes : loading /\ lookup(slots, h) # NoRule /\ wanted'[h] = wanted[h]
              => lookup(slots', h) = lookup(slots, h)]_vars
  BY StepKeepsRules
<1> QED  BY <1>1, RuleTableInvariant, PTL DEF Spec, RulesStay
=============================================================================
