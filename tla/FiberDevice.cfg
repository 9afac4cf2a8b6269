SPECIFICATION Spec
CONSTANTS
  p1 = p1  p2 = p2  r1 = r1  r2 = r2
  Processes = {p1, p2}
  Files = {f1, f2}
  Readers = {r1, r2}
  Last = 1
  Bucket <- OneBucket
  NONE = NONE
  MaxLinks = 1  MaxRare = 2
INVARIANTS TypeOK CallsSafe ChainsSound GoneWithItsFile LinksRestored
CHECK_DEADLOCK FALSE
SYMMETRY Symmetry
