SPECIFICATION FairSpec
CONSTANTS
  Crate = {"dep", "mid", "libmain"}
  Uses <- Chain
  BuildScript = {}
  Unnamed = {}
  Primary = {"mid", "libmain"}
  LibNamed = {"libmain"}
  MaxVersion = 2
  Bodies <- ChainBodies
  Def = {"f", "g"}
  Cleans = FALSE
INVARIANTS
  TypeOK
  ReadableIsWhole
PROPERTIES
  BuildEnds
