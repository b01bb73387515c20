----------------------------- MODULE HotProofs -----------------------------
(***************************************************************************)
(* Proofs about HotPath, for every table, hash function, set of settings   *)
(* and sequence of files: the wheel does what was last said.               *)
(***************************************************************************)
EXTENDS HotPath, RuleProofs

(* Every step is one of RuleTable's, or leaves the table alone.             *)
LEMMA HotStepIsTableStep == [HotNext]_hotVars => [Next]_vars
<1> SUFFICES ASSUME [HotNext]_hotVars PROVE [Next]_vars
  OBVIOUS
<1>1. CASE load_rules  BY <1>1 DEF load_rules, Next
<1>2. CASE UNCHANGED vars  BY <1>2
<1> QED
  BY <1>1, <1>2 DEF HotNext, hotVars, conf, Quietly, NoConfig, OpenConfig, ParseFails, Commit,
    apply_value, ApplyCli, on_reload, on_event

(* An entry written into the scratch copy and into what is said.            *)
LEMMA EntryWritten ==
  ASSUME HotTypeOK, ScratchIsSaying,
         NEW key \in DOMAIN Legal, NEW value \in Legal[key], apply_value(key, value)
  PROVE  /\ tmp' \in Settings /\ saying' \in Choices
         /\ apply_mode(tmp') = apply_mode(saying')
<1>1. /\ tmp' = [tmp EXCEPT ![key] = value] /\ saying' = [saying EXCEPT ![key] = value]
      /\ tmp \in Settings /\ saying \in Choices /\ apply_mode(tmp) = apply_mode(saying)
  BY DEF apply_value, HotTypeOK, ScratchIsSaying
<1>2. /\ tmp.mode = saying.mode /\ tmp.invert_hwheel = saying.invert_hwheel
      /\ tmp.active_preset = saying.active_preset
  BY <1>1 DEF apply_mode
<1>3. CASE key = "mode"
  BY <1>1, <1>2, <1>3 DEF Settings, Choices, Legal, apply_mode
<1>4. CASE key = "invert_hwheel"
  BY <1>1, <1>2, <1>4 DEF Settings, Choices, Legal, apply_mode
<1>5. CASE key = "active_preset"
  BY <1>1, <1>2, <1>5 DEF Settings, Choices, Legal, apply_mode
<1> QED  BY <1>3, <1>4, <1>5 DEF Legal

LEMMA SettingsOfMode == ASSUME NEW c \in Choices PROVE apply_mode(c) \in Settings
  BY DEF Choices, Settings, apply_mode

LEMMA HotInitInv == HotInit => HotIInv
<1> SUFFICES ASSUME HotInit PROVE HotIInv
  OBVIOUS
<1>1. IInv  BY InitInv DEF HotInit
<1>2. HotTypeOK
  BY HotAssumption DEF HotInit, HotTypeOK, Defaults, Choices, Settings, apply_mode
<1>3. SettingsAreSaid /\ ScratchIsSaying /\ LoadsAreWhole /\ WheelObeys
  BY DEF HotInit, SettingsAreSaid, ScratchIsSaying, LoadsAreWhole, WheelObeys, Init
<1> QED  BY <1>1, <1>2, <1>3 DEF HotIInv

(* What an event comes to is what is meant for its app.                     *)
LEMMA EventObeys ==
  ASSUME IInv, SettingsAreSaid, HotTypeOK, NEW app \in Hashes \cup {Empty}, NEW value \in Values,
         on_event(app, value)
  PROVE  WheelObeys'
<1> SUFFICES ASSUME ~refused, NEW e \in did'
             PROVE  IF MeantPreset(e.app) = None THEN e.passed
                    ELSE /\ ~e.passed
                         /\ e.profile = MeantProfile(e.app)
                         /\ e.combo \in {NoCombo, resolve(MeantPreset(e.app),
                                           Along(Turned(e.value, MeantInvert(e.app))))}
  BY DEF on_event, vars, conf, WheelObeys, MeantPreset, MeantProfile, MeantInvert, LastLine
<1>1. lookup(slots, app) = LastLine(app)
  <2>1. CASE app \in Hashes  BY <2>1 DEF IInv, LastLineWins, LastLine
  <2>2. CASE app = Empty
    <3>1. app \notin Hashes  BY <2>2, HashType
    <3> QED  BY <2>2, <3>1 DEF lookup, LastLine
  <2> QED  BY <2>1, <2>2
<1>2. /\ settings.mode = said.mode /\ settings.invert_hwheel = said.invert_hwheel
      /\ settings.active_preset = said.active_preset
      /\ settings.profile = profile_for[said.mode]
  BY DEF SettingsAreSaid, apply_mode
<1>3. NoRule.mode = Inherit /\ NoRule.invert = Inherit
  BY DEF NoRule
<1>4. /\ effective_preset(app) = MeantPreset(app)
      /\ effective_profile(app) = MeantProfile(app)
      /\ effective_invert(app) = MeantInvert(app)
  BY <1>1, <1>2, <1>3 DEF effective_preset, effective_profile, effective_invert, Ruled,
    MeantPreset, MeantProfile, MeantInvert
<1>5. CASE effective_preset(app) = None /\ did' = {Passed(app, value)}
  <2>1. e.app = app /\ e.passed = TRUE  BY <1>5 DEF Passed
  <2> QED  BY <1>4, <1>5, <2>1
<1>6. ASSUME effective_preset(app) # None,
             NEW combo \in {NoCombo, resolve(effective_preset(app),
                                             Along(Turned(value, effective_invert(app))))},
             did' = {Felt(app, value, effective_profile(app), combo)}
      PROVE  IF MeantPreset(e.app) = None THEN e.passed
             ELSE /\ ~e.passed
                  /\ e.profile = MeantProfile(e.app)
                  /\ e.combo \in {NoCombo, resolve(MeantPreset(e.app),
                                    Along(Turned(e.value, MeantInvert(e.app))))}
  <2>1. /\ e.app = app /\ e.value = value /\ e.passed = FALSE
        /\ e.profile = effective_profile(app) /\ e.combo = combo
    BY <1>6 DEF Felt
  <2> QED  BY <1>4, <1>6, <2>1
<1> QED  BY <1>5, <1>6 DEF on_event

LEMMA HotNextInv == HotIInv /\ [HotNext]_hotVars => HotIInv'
<1> SUFFICES ASSUME HotIInv, [HotNext]_hotVars PROVE HotIInv'
  OBVIOUS
<1> USE DEF HotIInv
<1>1. IInv'  BY HotStepIsTableStep, NextInv
<1>2. ASSUME did' = {} PROVE WheelObeys'
  BY <1>2 DEF WheelObeys
<1>3. ASSUME UNCHANGED conf, UNCHANGED vars
      PROVE  HotTypeOK' /\ SettingsAreSaid' /\ ScratchIsSaying' /\ LoadsAreWhole'
  BY <1>3 DEF conf, vars, HotTypeOK, SettingsAreSaid, ScratchIsSaying, LoadsAreWhole
<1>4. CASE NoConfig \/ ParseFails \/ on_reload
  BY <1>1, <1>2, <1>4 DEF NoConfig, ParseFails, on_reload, vars, Quietly, HotTypeOK,
    SettingsAreSaid,
    ScratchIsSaying, LoadsAreWhole
<1>5. CASE OpenConfig
  <2>1. apply_mode(settings) = apply_mode(said)
    BY DEF SettingsAreSaid, apply_mode
  <2> QED
    BY <1>1, <1>2, <1>5, <2>1 DEF OpenConfig, vars, Quietly, HotTypeOK, SettingsAreSaid,
      ScratchIsSaying, LoadsAreWhole
<1>6. CASE Commit
  <2>1. settings' = apply_mode(saying)
    BY <1>6 DEF Commit, ScratchIsSaying
  <2>2. apply_mode(saying) \in Settings  BY SettingsOfMode DEF HotTypeOK
  <2> QED
    BY <1>1, <1>2, <1>6, <2>1, <2>2 DEF Commit, vars, Quietly, HotTypeOK, SettingsAreSaid,
      ScratchIsSaying, LoadsAreWhole
<1>7. ASSUME NEW key \in DOMAIN Legal, NEW value \in Legal[key], apply_value(key, value)
      PROVE  HotIInv'
  <2>1. /\ tmp' \in Settings /\ saying' \in Choices
        /\ apply_mode(tmp') = apply_mode(saying')
    BY <1>7, EntryWritten
  <2> QED
    BY <1>1, <1>2, <1>7, <2>1 DEF apply_value, vars, Quietly, HotTypeOK, SettingsAreSaid,
      ScratchIsSaying, LoadsAreWhole
<1>8. CASE load_rules
  BY <1>1, <1>2, <1>8 DEF load_rules, StartLoad, RuleLine, OtherLine, EndLoad, vars, Quietly,
    HotTypeOK, SettingsAreSaid, ScratchIsSaying, LoadsAreWhole
<1>9. ASSUME NEW mode \in Modes \cup {Blank}, NEW invert \in {"true", "false", Blank},
             ApplyCli(mode, invert)
      PROVE  HotIInv'
  <2>1. /\ settings' = apply_mode(Overridden(settings, mode, invert))
        /\ said' = Overridden(said, mode, invert)
    BY <1>9 DEF ApplyCli
  <2>2. said' \in Choices
    BY <2>1 DEF HotTypeOK, Choices, Overridden
  <2>3. settings' = apply_mode(said')
    BY <2>1 DEF SettingsAreSaid, Overridden, apply_mode
  <2> QED
    BY <1>1, <1>2, <1>9, <2>2, <2>3, SettingsOfMode DEF ApplyCli, vars, Quietly, HotTypeOK,
      SettingsAreSaid,
      ScratchIsSaying, LoadsAreWhole
<1>10. ASSUME NEW app \in Hashes \cup {Empty}, NEW value \in Values, on_event(app, value)
       PROVE  HotIInv'
  BY <1>1, <1>3, <1>10, EventObeys DEF on_event
<1>11. CASE UNCHANGED hotVars
  <2>1. WheelObeys'
    BY <1>11 DEF hotVars, vars, conf, WheelObeys, MeantPreset, MeantProfile, MeantInvert, LastLine
  <2> QED  BY <1>1, <1>3, <1>11, <2>1 DEF hotVars
<1> QED
  BY <1>4, <1>5, <1>6, <1>7, <1>8, <1>9, <1>10, <1>11 DEF HotNext

(* The settings in use are always what was last said of them, and every     *)
(* step of the wheel was treated as meant.                                  *)
THEOREM HotInvariant == HotSpec => []HotIInv
<1> QED  BY HotInitInv, HotNextInv, PTL DEF HotSpec

(* on_event, end to end: after any start, reloads and torn files a step of  *)
(* the wheel obeys the last line of its app's rule and the last good        *)
(* setting, unless the rule table had to refuse a line.                     *)
THEOREM WheelAlwaysObeys == HotSpec => []WheelObeys
<1>1. HotIInv => WheelObeys  BY DEF HotIInv
<1> QED  BY <1>1, HotInvariant, PTL

(* load_rules as part of it: no line hides or alters the rule of another    *)
(* app.                                                                     *)
THEOREM RulesAlwaysStayHot == HotSpec => RulesStay
<1>1. HotInit => Init  BY DEF HotInit
<1>2. HotSpec => Spec  BY <1>1, HotStepIsTableStep, PTL DEF HotSpec, Spec
<1> QED  BY <1>2, RulesAlwaysStay, PTL
=============================================================================
