CONSTANTS
  Combos = {next, prev}
  Capacity = 4
  Profiles <- MCProfiles
  MinPacing = 2
  MaxPacing = 3
  MaxDamping = 5
  MaxGap = 3
SPECIFICATION FairSpec
INVARIANTS IInv
PROPERTIES PressesArePaced KeepsPromise LineMoves
