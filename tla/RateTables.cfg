\* Two processes over one directory; a table is fresh for one tick of three.
SPECIFICATION Spec
CONSTANTS
  Stores = {p1, p2}
  RatesTTL = 1
  MaxTime = 3
SYMMETRY StoreSymmetry
INVARIANTS TypeOK NoTornTable StatusIsTrue
PROPERTIES OnlyOfflineGoesBack SnapshotOnlyImproves
