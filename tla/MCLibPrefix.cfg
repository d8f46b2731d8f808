SPECIFICATION Spec
CONSTANTS
  Crate = {"libc", "app"}
  Uses <- Pair
  BuildScript = {}
  Unnamed = {}
  Primary = {"app"}
  LibNamed = {"libc"}
  MaxVersion = 2
  Bodies <- PairBodies
  Def = {"f", "g"}
  Cleans = TRUE
INVARIANTS
  SameDirectory
