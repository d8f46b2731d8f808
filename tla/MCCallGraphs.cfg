SPECIFICATION Spec
CONSTANTS
  NoTy = NoTy
  NoInst = NoInst
  Ty <- MCTy
  ErasedTy <- MCErasedTy
  RefTy <- MCRefTy
  TupleFields <- MCTupleFields
  Peel <- MCPeel
  Component <- MCComponent
  Construct <- MCConstruct
  TupleTy <- MCTupleTy
  Inst <- GraphInst
  Program <- GraphFn
  InstanceOf <- GraphInstanceOf
  Generics <- GraphGenerics
  Mir <- GraphMir
  Local <- GraphMir
  Origins <- GraphOrigins
  Shallow = FALSE
INVARIANTS
  StorageOrdered
  SitesCovered
  CursorWithinFixpoint
  OriginLast
