SPECIFICATION DriverSpec
CONSTANTS
  NoTy = NoTy
  NoInst = NoInst
  Ty <- DrvTy
  ErasedTy <- MCErasedTy
  RefTy <- DrvRefTy
  TupleFields <- MCTupleFields
  Peel <- MCPeel
  Component <- DrvComponent
  Construct <- MCConstruct
  TupleTy <- MCTupleTy
  Inst <- DrvInst
  Program <- DrvProgram
  InstanceOf <- DrvInstanceOf
  Generics <- MCGenerics
  Mir <- DrvMir
  Local <- DrvMir
  Origins <- DrvOrigins
  Shallow = FALSE
  Constructors = {}
  ClosureDefs = {"cl"}
  NumArgs <- DrvNumArgs
  Influenced <- DrvInfluenced
  Allowlist = {}
  TrustedStdlib = {}
  SelfTy <- DrvSelfTy
  ImmutRef = {}
  RawMutPtr = {"*X"}
  MutRef = {"&mut u"}
  Types <- DrvTy
  Parts <- DrvParts
  Transmutes = {"transmute", "transmute_unchecked"}
  Crate <- DrvCrate
  MaxDepth = 6
  Items <- HolderItems
  MirKeys <- DrvMirKeys
  Configs <- FunctionMode
INVARIANTS
  AcceptedDoesNotLeak
