CONSTANTS
  BLOCK_HASH_HISTORY = 3
  HISTORY_SERVE_WINDOW = 4
  FeynmanBlocks <- MCFeynmanBlocks
  MaxBlock = 15
  DbMayFail = TRUE
SPECIFICATION Spec
INVARIANTS
  IndInv
  OnlyParentIsStale
  WindowIsServed
