SPECIFICATION Spec
CONSTANTS
  Proc = {p1, p2}
  NoProc = nobody
  Classic = {p1}
  Height = 3
  Air = air
  slab = slab
  double = double
  dirt = dirt
  grass = grass
  Block = {air, dirt, grass, slab, double}
  StackOf <- PairOf
  DirtOf <- SoilOf
  GrassOf <- TurfOf
  ClassicOf <- OldOf
  Lit <- LightAir
  Levels <- Ground
  Passes = 2
  MayDie = TRUE
  MaxEdits = 2
  MaxDown = 2
INVARIANTS TypeOK SameView
