SPECIFICATION FairSpec
CONSTANTS
  NoTy = NoTy
  NoInst = NoInst
  Ty <- MCTy
  ErasedTy <- MCErasedTy
  RefTy <- MCRefTy
  TupleFields <- MCTupleFields
  Peel <- MCPeel
  Component <- MCComponent
  Construct <- MCConstruct
  TupleTy <- MCTupleTy
  Inst <- MCInst
  Program <- MCFn
  InstanceOf <- MCInstanceOf
  Generics <- MCGenerics
  Mir <- MCMir
  Local <- MCLocal
  Origins <- MCOrigins
  Shallow = FALSE
INVARIANTS
  TypeOK
  StorageOrdered
  LiveCallsAnswered
  SitesCovered
  ResultsFlow
  CursorWithinFixpoint
  DeclaredTypesStand
  OriginLast
  OnlyBadCastPanics
PROPERTIES
  ImplementsCallLog
  RecordsAreComplete
  ClosuresGrow
  Termination
