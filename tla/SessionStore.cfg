SPECIFICATION Spec
CONSTANTS
  u1 = u1
  u2 = u2
  u3 = u3
  Upserts = {u1, u2, u3}
  MaxCrashes = 2
SYMMETRY Symmetry
INVARIANTS TypeOK FileMatchesMemory UnreadableOnlyMidWrite SavedIsRestored
CHECK_DEADLOCK FALSE
