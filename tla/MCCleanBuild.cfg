SPECIFICATION Spec
CONSTANTS
  Crate = {"script", "dep", "util", "app"}
  Uses <- Fork
  BuildScript = {"script"}
  Unnamed = {}
  Primary = {"app"}
  LibNamed = {}
  MaxVersion = 2
  Bodies <- ForkBodies
  Def = {"f", "g"}
  Cleans = TRUE
PROPERTIES
  ImplementsBodyStore
