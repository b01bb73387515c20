------------------------------ MODULE HotPath -------------------------------
(***************************************************************************)
(* What one step of the thumb wheel comes to: on_event of src/src/main.cpp *)
(* with all that decides it.  The settings start as defaults, are read     *)
(* from config.json, overridden by the command line once, and read again   *)
(* on every reload; the rules are those of RuleTable; the application is   *)
(* whichever the listener thread published last.                           *)
(*                                                                         *)
(* A file is modelled as it is parsed, entry by entry, so it may hold      *)
(* anything.  The heuristics yield a tick the way the wheel moved, or none *)
(* (ScrollState); the combo goes to the pacer (Pacer).                     *)
(***************************************************************************)
EXTENDS RuleTable

CONSTANTS
  profile_for,   \* the timing profile of each sensitivity
  Values         \* values of a REL_HWHEEL event

None     == "none"          \* PresetId::None
Left     == "left"
Right    == "right"
NoCombo  == <<>>

Choices  == [mode : Modes, invert_hwheel : BOOLEAN, active_preset : Presets]
Settings == [mode : Modes, invert_hwheel : BOOLEAN, active_preset : Presets,
             profile : {profile_for[m] : m \in Modes}]
Legal    == [mode |-> Modes, invert_hwheel |-> BOOLEAN, active_preset |-> Presets]

ASSUME HotAssumption ==
  /\ "medium" \in Modes /\ {Inherit, Blank} \cap Modes = {}
  /\ {"tab_nav", None} \subseteq Presets
  /\ Values \subseteq Int \ {0}

VARIABLES
  pc,        \* in main, on_reload: "open", "parse", "rules", "cli"; or in the loop: "serving"
  started,   \* the loop has begun
  settings,  \* AppContext::settings
  tmp,       \* the scratch copy a config.json is parsed into
  said,      \* history: what was last said of each setting, in a file that parsed
             \* to its end, on the command line, or by default
  saying,    \* history: the same with the entries of the file that is being parsed
  did        \* the last wheel event and what it came to, until something else happens

conf    == <<pc, started, settings, tmp, said, saying>>
hotVars == <<vars, conf, did>>

Defaults == [mode |-> "medium", invert_hwheel |-> TRUE, active_preset |-> "tab_nav"]

(* apply_mode: the profile is a copy that has to follow the mode.           *)
apply_mode(s) ==
  [mode |-> s.mode, invert_hwheel |-> s.invert_hwheel, active_preset |-> s.active_preset,
   profile |-> profile_for[s.mode]]

Quietly == did' = {}

-----------------------------------------------------------------------------
(* load_settings, at the start and on every reload.                         *)

(* The file is missing, unreadable or empty; or it is read and parsed.      *)
NoConfig ==
  /\ pc = "open"
  /\ pc' = "rules"
  /\ UNCHANGED <<vars, started, settings, tmp, said, saying>> /\ Quietly

OpenConfig ==
  /\ pc = "open"
  /\ pc' = "parse"
  /\ tmp' = settings /\ saying' = said
  /\ UNCHANGED <<vars, started, settings, said>> /\ Quietly

(* An entry it understands.                                                 *)
(* Slip: it goes into the settings at once.                                 *)
apply_value_atOnce(key, value) ==
  /\ pc = "parse"
  /\ settings' = [settings EXCEPT ![key] = value]
  /\ tmp' = [tmp EXCEPT ![key] = value]
  /\ saying' = [saying EXCEPT ![key] = value]
  /\ UNCHANGED <<vars, pc, started, said>> /\ Quietly

apply_value(key, value) ==
  /\ pc = "parse"
  /\ tmp' = [tmp EXCEPT ![key] = value]
  /\ saying' = [saying EXCEPT ![key] = value]
  /\ UNCHANGED <<vars, pc, started, settings, said>> /\ Quietly

(* An entry it does not, or the end of a file that is torn or over 4 KiB:   *)
(* the settings stay as they were.                                          *)
ParseFails ==
  /\ pc = "parse"
  /\ pc' = "rules"
  /\ UNCHANGED <<vars, started, settings, tmp, said, saying>> /\ Quietly

(* The closing brace.                                                       *)
Commit ==
  /\ pc = "parse"
  /\ pc' = "rules"
  /\ settings' = apply_mode(tmp)
  /\ said' = saying
  /\ UNCHANGED <<vars, started, tmp, saying>> /\ Quietly

-----------------------------------------------------------------------------
(* load_rules, then the command line at the start, or the loop.             *)

load_rules ==
  /\ pc = "rules"
  /\ \/ StartLoad /\ UNCHANGED pc
     \/ \E line \in Lines : (RuleLine(line) \/ OtherLine(line)) /\ UNCHANGED pc
     \/ EndLoad /\ pc' = IF started THEN "serving" ELSE "cli"
  /\ UNCHANGED <<started, settings, tmp, said, saying>> /\ Quietly

(* main: --mode and --invert, where given; Blank where not.                 *)
Overridden(s, mode, invert) ==
  [mode          |-> IF mode = Blank THEN s.mode ELSE mode,
   invert_hwheel |-> invert = "true" \/ (invert = Blank /\ s.invert_hwheel),
   active_preset |-> s.active_preset]

ApplyCli(mode, invert) ==
  /\ pc = "cli"
  /\ pc' = "serving" /\ started' = TRUE
  /\ settings' = apply_mode(Overridden(settings, mode, invert))
  /\ said' = Overridden(said, mode, invert)
  /\ UNCHANGED <<vars, tmp, saying>> /\ Quietly

(* on_reload begins.                                                        *)
on_reload ==
  /\ pc = "serving"
  /\ pc' = "open"
  /\ UNCHANGED <<vars, started, settings, tmp, said, saying>> /\ Quietly

-----------------------------------------------------------------------------
(* on_event, for REL_HWHEEL.  app is the hash it loads.                     *)

Ruled(app) == lookup(slots, app) # NoRule

effective_preset(app) ==
  IF Ruled(app) THEN lookup(slots, app).preset ELSE settings.active_preset

effective_profile(app) ==
  IF Ruled(app) /\ lookup(slots, app).mode # Inherit
  THEN profile_for[lookup(slots, app).mode] ELSE settings.profile

effective_invert(app) ==
  IF Ruled(app) /\ lookup(slots, app).invert # Inherit
  THEN lookup(slots, app).invert = "on" ELSE settings.invert_hwheel

(* resolve: each preset has a combo for each direction.                     *)
resolve(preset, dir) == <<preset, dir>>

Along(value) == IF value > 0 THEN Right ELSE Left

(* Passed on as it is, or given to the heuristics under a profile, which    *)
(* yield a tick or not.                                                     *)
Passed(app, value) ==
  [app |-> app, value |-> value, passed |-> TRUE, profile |-> Blank, combo |-> NoCombo]
Felt(app, value, profile, combo) ==
  [app |-> app, value |-> value, passed |-> FALSE, profile |-> profile, combo |-> combo]

Turned(value, invert) == IF invert THEN -value ELSE value

on_event(app, value) ==
  /\ pc = "serving"
  /\ \/ /\ effective_preset(app) = None
        /\ did' = {Passed(app, value)}
     \/ /\ effective_preset(app) # None
        /\ \E combo \in {NoCombo, resolve(effective_preset(app),
                                          Along(Turned(value, effective_invert(app))))} :
             did' = {Felt(app, value, effective_profile(app), combo)}
  /\ UNCHANGED <<vars, conf>>

-----------------------------------------------------------------------------
HotInit ==
  /\ Init
  /\ pc = "open" /\ started = FALSE
  /\ settings = apply_mode(Defaults) /\ tmp = apply_mode(Defaults)
  /\ said = Defaults /\ saying = Defaults
  /\ did = {}

HotNext ==
  \/ NoConfig \/ OpenConfig \/ ParseFails \/ Commit
  \/ \E key \in DOMAIN Legal : \E value \in Legal[key] : apply_value(key, value)
  \/ load_rules
  \/ \E mode \in Modes \cup {Blank}, invert \in {"true", "false", Blank} : ApplyCli(mode, invert)
  \/ on_reload
  \/ \E app \in Hashes \cup {Empty}, value \in Values : on_event(app, value)

HotSpec == HotInit /\ [][HotNext]_hotVars

-----------------------------------------------------------------------------

HotTypeOK ==
  /\ pc \in {"open", "parse", "rules", "cli", "serving"}
  /\ started \in BOOLEAN
  /\ settings \in Settings /\ tmp \in Settings
  /\ said \in Choices /\ saying \in Choices

(* The settings in use are what was last said of each, the copy of the      *)
(* profile included: no file that fails half way leaves a trace.            *)
SettingsAreSaid == settings = apply_mode(said)

(* While a file is parsed, the scratch copy is what it says so far, over    *)
(* what was in use.                                                         *)
ScratchIsSaying == pc = "parse" => apply_mode(tmp) = apply_mode(saying)

(* Wheel events are never handled while the table is being refilled.        *)
LoadsAreWhole == loading => pc = "rules"

(* What is meant for an app: the last line that gave it a rule, where that  *)
(* line says something, and what was last said of the setting where not.    *)
LastLine(app) == IF app \in Hashes THEN wanted[app] ELSE NoRule

MeantPreset(app)  == IF LastLine(app) # NoRule THEN LastLine(app).preset ELSE said.active_preset
MeantProfile(app) ==
  profile_for[IF LastLine(app).mode # Inherit THEN LastLine(app).mode ELSE said.mode]
MeantInvert(app)  ==
  IF LastLine(app).invert # Inherit THEN LastLine(app).invert = "on" ELSE said.invert_hwheel

(* A step of the wheel is passed on untouched exactly if none is the preset *)
(* meant for the app; otherwise the heuristics feel it under the profile    *)
(* meant for it, and what it yields is that preset's combo for the way the  *)
(* wheel turned, inverted if that is meant.  That holds after any sequence  *)
(* of reloads, of files that are missing, torn or full of colliding apps    *)
(* (as long as no line was refused), and of overrides on the command line.  *)
WheelObeys ==
  ~refused => \A e \in did :
    IF MeantPreset(e.app) = None THEN e.passed
    ELSE /\ ~e.passed
         /\ e.profile = MeantProfile(e.app)
         /\ e.combo \in {NoCombo, resolve(MeantPreset(e.app),
                                        Along(Turned(e.value, MeantInvert(e.app))))}

HotIInv ==
  /\ IInv /\ HotTypeOK /\ SettingsAreSaid /\ ScratchIsSaying /\ LoadsAreWhole /\ WheelObeys
=============================================================================
