SPECIFICATION Spec
CONSTANTS
  NoTy = NoTy
  NoInst = NoInst
  Ty <- MCTy
  ErasedTy <- MCErasedTy
  RefTy <- MCRefTy
  TupleFields <- MCTupleFields
  Peel <- MCPeel
  Component <- MCComponent
  Construct <- MCConstruct
  TupleTy <- MCTupleTy
  Inst <- MCInst
  Program <- MCFn
  InstanceOf <- MCInstanceOf
  Generics <- MCGenerics
  Mir <- MCMir
  Local <- MCShallowLocal
  Origins <- MCOrigins
  Shallow = TRUE
INVARIANTS
  ShallowStaysLocal
