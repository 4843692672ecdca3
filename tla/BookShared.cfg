SPECIFICATION Spec
CONSTANTS
  e1 = e1
  e2 = e2
  g1 = g1
  g2 = g2
  Nobody = Nobody
  Absent = Absent
  Broken = Broken
  Engines = {e1, e2}
  Games = {g1, g2}
  Digests = TRUE
SYMMETRY GameSymmetry
INVARIANT BookAlwaysWhole
INVARIANT CleanMeansPublished
PROPERTY SavesAddGames
