SPECIFICATION Spec
CONSTANTS
  Program <- MCProgram
  RawMutPtr = {"*u"}
  MutRef = {"&mut u"}
  ImmutRef = {"&Vec"}
  Types <- MCTypes
  Parts <- MCParts
  Transmutes = {"transmute", "transmute_unchecked"}
  Crate <- MCCrate
  Constructors = {"Some"}
  ClosureDefs = {"closure"}
  NumArgs <- MCNumArgs
  Mir <- MCMir
  Influenced <- MCInfluenced
  Allowlist = {"allowed"}
  TrustedStdlib = {"lib", "libref"}
  SelfTy <- MCSelfTy
  Handed <- MCHanded
INVARIANTS
  TypeOK
  StackDescends
  PureIffNoFailure
  ReportsWhatIsReached
  PanicsForAReason
  ImportanceMonotone
  DepsCoverReports
PROPERTIES
  ImplementsVerdict
