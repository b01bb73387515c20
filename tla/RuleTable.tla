----------------------------- MODULE RuleTable -----------------------------
(***************************************************************************)
(* The per-app rules: the open-addressing table of src/src/scope/rules.hpp *)
(* and rules.cpp, and load_rules of rules_loader.cpp, which refills it     *)
(* from app_rules.txt on start and on every reload.                        *)
(*                                                                         *)
(* A line of the file is a record of its fields, each already cut out and  *)
(* trimmed.  The loader's loop is modelled one line per step, so that the  *)
(* table is also examined half filled.                                     *)
(***************************************************************************)
EXTENDS Integers, FiniteSets

CONSTANTS
  Capacity,    \* rule_capacity
  Apps,        \* app names a line may start with
  hash_app,    \* the hash of each app name
  Presets,     \* preset ids the daemon knows, "none" included
  Modes,       \* sensitivity modes a rule may force
  Lines        \* lines the file may hold

Empty   == 0            \* app_hash of a free slot
Blank   == ""           \* a field left out
Unknown == "?"          \* a field with text the parser does not know
NoApp   == "no app"     \* comment, blank line, no '=', or nothing before it
Inherit == "inherit"
Inverts == {"on", "off", Inherit}
Rules   == [preset : Presets, mode : Modes \cup {Inherit}, invert : Inverts]
NoRule  == [preset |-> Blank, mode |-> Inherit, invert |-> Inherit]
Limit   == Capacity \div 2
Slots   == 0 .. Capacity - 1

ASSUME RuleAssumption ==
  /\ Capacity \in Nat \ {0, 1}
  /\ hash_app \in [Apps -> Nat \ {Empty}]
  /\ NoApp \notin Apps
  /\ Blank \notin Presets /\ Unknown \notin Presets
  /\ Lines \subseteq [app    : Apps \cup {NoApp},
                      preset : Presets \cup {Blank, Unknown},
                      mode   : Modes \cup {Inherit, Blank, Unknown},
                      invert : Inverts \cup {Blank, Unknown}]

Hashes   == {hash_app[a] : a \in Apps}
FreeSlot == [app_hash |-> Empty, rule |-> NoRule]
Table    == [Slots -> [app_hash : Hashes \cup {Empty}, rule : Rules \cup {NoRule}]]

VARIABLES
  slots,       \* RuleTable::slots
  count,       \* RuleTable::count
  loading,     \* load_rules is between clear and its return
  wanted,      \* history: per hash, the rule of the last line that gave it one
  refused      \* history: insert refused a line of this load

vars == <<slots, count, loading, wanted, refused>>

(* Slips: forms a definition below could take by mistake, kept to show that *)
(* each property fails when the code goes wrong.                            *)
Stops_home(t, h) == {0}
First_last(t, h) ==
  LET stops == {s \in Slots : t[((h % Capacity) + s) % Capacity].app_hash \in {Empty, h}}
  IN CHOOSE s \in stops : \A u \in stops : s >= u

-----------------------------------------------------------------------------
(* The slot a probe for hash h examines at each step.                       *)
At(h, step) == ((h % Capacity) + step) % Capacity

(* The steps at which a probe for h ends, on a hit or on a free slot, and   *)
(* the first of them.                                                       *)
Stops(t, h) == {s \in Slots : t[At(h, s)].app_hash \in {Empty, h}}
First(t, h) == CHOOSE s \in Stops(t, h) : \A u \in Stops(t, h) : s <= u

Found(t, h) == Stops(t, h) # {} /\ t[At(h, First(t, h))].app_hash = h

lookup(t, h) ==
  IF h # Empty /\ Found(t, h) THEN t[At(h, First(t, h))].rule ELSE NoRule

(* insert: below the load limit, and with somewhere to put the rule.        *)
Room == count < Limit
Accepts(h) == h # Empty /\ Room /\ Stops(slots, h) # {}
Written(t, h, r) == [t EXCEPT ![At(h, First(t, h))] = [app_hash |-> h, rule |-> r]]
CountAfter(h) == IF Found(slots, h) THEN count ELSE count + 1

insert(h, r) ==
  IF Accepts(h)
  THEN /\ slots' = Written(slots, h, r)
       /\ count' = CountAfter(h)
  ELSE UNCHANGED <<slots, count>>

(* clear frees the slots; what they held stays behind, unread.              *)
Cleared == [i \in Slots |-> [slots[i] EXCEPT !.app_hash = Empty]]

-----------------------------------------------------------------------------
(* A line gives its app a rule if it names an app and a preset the daemon   *)
(* knows.  Overrides it does not understand fall back to inherit.           *)
Gives(line) == line.app # NoApp /\ line.preset \in Presets

OrInherit(field) == IF field \in {Blank, Unknown} THEN Inherit ELSE field

RuleOf(line) ==
  [preset |-> line.preset, mode |-> OrInherit(line.mode), invert |-> OrInherit(line.invert)]

Init ==
  /\ slots = [i \in Slots |-> FreeSlot]
  /\ count = 0
  /\ loading = FALSE
  /\ wanted = [h \in Hashes |-> NoRule]
  /\ refused = FALSE

(* load_rules begins, whether or not the file turns out to be there.        *)
StartLoad ==
  /\ ~loading
  /\ slots' = Cleared
  /\ count' = 0
  /\ loading' = TRUE
  /\ wanted' = [h \in Hashes |-> NoRule]
  /\ refused' = FALSE

(* One turn of its loop, on a line that gives a rule and on one that does   *)
(* not (comment, malformed, unknown preset, or an app that is only tracked).*)
RuleLine(line) ==
  /\ loading
  /\ Gives(line)
  /\ insert(hash_app[line.app], RuleOf(line))
  /\ wanted' = [wanted EXCEPT ![hash_app[line.app]] = RuleOf(line)]
  /\ refused' = (refused \/ ~Accepts(hash_app[line.app]))
  /\ UNCHANGED loading

OtherLine(line) ==
  /\ loading
  /\ ~Gives(line)
  /\ UNCHANGED vars

(* End of the file, or of the first 4095 bytes of it.                       *)
EndLoad == loading /\ loading' = FALSE /\ UNCHANGED <<slots, count, wanted, refused>>

Next ==
  \/ StartLoad
  \/ \E line \in Lines : RuleLine(line) \/ OtherLine(line)
  \/ EndLoad

Spec == Init /\ [][Next]_vars

-----------------------------------------------------------------------------

TypeOK ==
  /\ slots \in Table
  /\ count \in Nat
  /\ loading \in BOOLEAN
  /\ wanted \in [Hashes -> Rules \cup {NoRule}]
  /\ refused \in BOOLEAN

Occupied == {i \in Slots : slots[i].app_hash # Empty}

(* The counter that enforces the load factor counts the slots in use, and   *)
(* leaves at least half of the table free: every probe, also one for an     *)
(* app without a rule, ends at a free slot.                                 *)
CountIsOccupied == count = Cardinality(Occupied) /\ count <= Limit

(* Nothing a probe could stop at precedes the slot that holds a hash: each  *)
(* rule is stored once, and no probe misses it.                             *)
Unbroken(t) ==
  \A h \in Hashes, s \in Slots :
    t[At(h, s)].app_hash = h => \A u \in Slots : u < s => t[At(h, u)].app_hash \notin {Empty, h}

ChainsUnbroken == Unbroken(slots)

(* A slot in use holds a rule, though clear leaves stale ones behind.       *)
InUseHoldsRule == \A i \in Slots : slots[i].app_hash # Empty => slots[i].rule \in Rules

(* A line is refused only by a table that has reached its limit.            *)
RefusedAtLimit == refused => ~Room

(* Unless a line was refused, the wheel obeys for every app the last line   *)
(* of the file that gave that app a rule, and no rule where no line did:    *)
(* nothing of an earlier load survives, and no insertion hides or changes   *)
(* the rule of another app.                                                 *)
LastLineWins == ~refused => \A h \in Hashes : lookup(slots, h) = wanted[h]

IInv ==
  /\ TypeOK /\ CountIsOccupied /\ ChainsUnbroken /\ InUseHoldsRule
  /\ RefusedAtLimit /\ LastLineWins

(* A rule once found is found until the next load begins: lines of other    *)
(* apps neither hide nor alter it, however full the table gets.             *)
RulesStay ==
  [][\A h \in Hashes :
       loading /\ lookup(slots, h) # NoRule /\ wanted'[h] = wanted[h]
         => lookup(slots', h) = lookup(slots, h)]_vars
=============================================================================
