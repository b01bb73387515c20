CONSTANTS
  Capacity = 4
  Apps <- MCApps
  hash_app <- MCHash
  Presets = {"tab_nav", "none"}
  Modes = {"medium", "high"}
  Lines <- MCLines
  profile_for <- MCProfile
  Values <- MCValues
SPECIFICATION HotSpec
INVARIANTS HotIInv WheelObeys
PROPERTIES RulesStay
