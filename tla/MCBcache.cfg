SPECIFICATION Spec
CONSTANTS
  Holders = {h1, h2, h3}
  Blocks = {b1, b2, b3}
  Vals = {0, 1}
  Zero = 0
  NBUF = 2
  MaxPins = 2
  Nobody = Nobody
  NoBlock = NoBlock
SYMMETRY Symmetry
INVARIANT BuffersExact
PROPERTIES CacheCoherent
