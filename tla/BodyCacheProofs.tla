---------------------------- MODULE BodyCacheProofs ----------------------------
(***************************************************************************)
(* That bodies an analysis can find are whole and of one version, for      *)
(* every build: any crates, sources, order of compilers and failures.      *)
(***************************************************************************)
EXTENDS BodyCache, TLAPS

\* No crate that is used has a name that starts with "lib".
PlainNames == \A c \in Crate : Uses[c] \cap LibNamed = {}

Dumps(c) == Handling(c) # "JustCompile"

Elements(s) == {s[k] : k \in DOMAIN s}

\* The files of the functions c has in version v hold that version.
OnDisk(c, v) == \A def \in Elements(Bodies[c][v]) : files[LocalDir(c)][def] = v

\* Whoever uses a crate that is still to be compiled is so too.
InOrder ==
    building => \A d \in Crate : \A c \in Uses[d] :
                   c \in plan \ released => d \in plan \ released /\ proc[d] = Idle

UpToDate == building => \A c \in Crate \ plan : built[c] # 0

\* What has been built, or has released its metadata, is on the disk, and a
\* compiler has dumped what it need not dump any more.
CrateOK(c) ==
    /\ built[c] # 0 =>
          proc[c] = Idle /\ meta[c] # 0 /\ (Dumps(c) => OnDisk(c, meta[c]))
    /\ c \in released =>
          proc[c].pc \in {"idle", "rest"} /\ meta[c] # 0 /\ (Dumps(c) => OnDisk(c, meta[c]))
    /\ proc[c].pc = "idle" => proc[c] = Idle
    /\ proc[c].pc = "rest" => c \in released
    /\ proc[c].pc = "analyse" => Handling(c) = "Analyze"
    /\ proc[c].pc \in {"analyse", "codegen", "rest"} => proc[c].todo = <<>>
    /\ proc[c] # Idle /\ Dumps(c) =>
          \A def \in Elements(Bodies[c][proc[c].version]) \ Elements(proc[c].todo) :
              files[LocalDir(c)][def] = proc[c].version

Released == released \subseteq plan \union {c \in Crate : built[c] # 0}
Order == InOrder /\ UpToDate /\ Released

IInv == TypeOK /\ Order /\ \A c \in Crate : CrateOK(c)

----------------------------------------------------------------------------
(* Types.                                                                  *)

\* Two crates never share a directory they write to.
LEMMA OwnDirectory ==
    /\ \A c \in Crate : LocalDir(c) \in Dir /\ RemoteDir(c) \in Dir
    /\ \A c, d \in Crate : c # d => LocalDir(c) # LocalDir(d)
  BY DEF LocalDir, RemoteDir, Dir

\* A crate nobody compiles.
LEMMA IdleIsTyped == Idle \in [pc : Phase, version : Version \union {0}, todo : Seq(Def)]
  BY SourceAssumption DEF Idle, Phase, Version

\* Before the first build nothing runs and no file exists.
LEMMA InitTypeOK == Init => TypeOK
  <1> SUFFICES ASSUME Init PROVE TypeOK
    OBVIOUS
  <1>1. 1 \in Version /\ Missing \in Contents
    BY SourceAssumption DEF Version, Missing, Contents
  <1>2. proc \in [Crate -> [pc : Phase, version : Version \union {0}, todo : Seq(Def)]]
    BY IdleIsTyped DEF Init
  <1> QED
    BY <1>1, <1>2 DEF Init, TypeOK, Empty, Idle

Compiler == [pc : Phase, version : Version \union {0}, todo : Seq(Def)]
At(pc, v, todo) == [pc |-> pc, version |-> v, todo |-> todo]

\* Whatever is done to one compiler leaves the others alone.
Becomes(c, p) ==
    /\ p \in Compiler
    /\ proc' \in [Crate -> Compiler]
    /\ proc'[c] = p
    /\ \A d \in Crate \ {c} : proc'[d] = proc[d]

\* Every step of a compiler is an update of its own entry.
LEMMA OneCompiler ==
    ASSUME TypeOK, NEW c \in Crate, NEW p \in Compiler, proc' = [proc EXCEPT ![c] = p]
    PROVE  Becomes(c, p)
  BY DEF TypeOK, Becomes, Compiler

\* A compiler that dies or exits is gone.
LEMMA FailShape ==
    ASSUME TypeOK, NEW c \in Crate, Fail(c)
    PROVE  Becomes(c, Idle)
  BY OneCompiler, IdleIsTyped DEF Fail, Compiler

\* A compiler that goes on stands behind the version it was started on.
LEMMA StepShape ==
    ASSUME TypeOK, NEW c \in Crate, NEW from, NEW to \in Phase, Step(c, from, to)
    PROVE  proc[c].pc = from /\ Becomes(c, At(to, proc[c].version, proc[c].todo))
  <1> DEFINE p == [proc[c] EXCEPT !.pc = to]
  <1>1. proc[c] \in Compiler
    BY DEF TypeOK, Compiler
  <1>2. p = At(to, proc[c].version, proc[c].todo)
    BY <1>1 DEF At, Compiler
  <1>3. p \in Compiler
    BY <1>1, <1>2 DEF At, Compiler
  <1>4. proc' = [proc EXCEPT ![c] = p]
    BY DEF Step
  <1> QED
    BY <1>2, <1>3, <1>4, OneCompiler DEF Step

\* A compiler starts on the source of the moment with all bodies to dump,
\* or with none if the crate is just compiled.
LEMMA SpawnShape ==
    ASSUME TypeOK, NEW c \in Crate, Spawn(c)
    PROVE  /\ Becomes(c, At("dump", source[c], proc'[c].todo))
           /\ proc'[c].pc = "dump" /\ proc'[c].version = source[c]
           /\ Dumps(c) => proc'[c].todo = Bodies[c][source[c]]
  <1> DEFINE todo == IF Handling(c) = "JustCompile" THEN <<>> ELSE Bodies[c][source[c]]
  <1>1. source[c] \in Version /\ todo \in Seq(Def)
    BY SourceAssumption DEF TypeOK, Version
  <1>2. At("dump", source[c], todo) \in Compiler
    BY <1>1 DEF At, Compiler, Phase
  <1>3. Becomes(c, At("dump", source[c], todo))
    BY <1>2, OneCompiler DEF Spawn, At
  <1>4. proc'[c].todo = todo /\ proc'[c].pc = "dump" /\ proc'[c].version = source[c]
    BY <1>3 DEF Becomes, At
  <1> QED
    BY <1>3, <1>4 DEF Dumps

\* What a compiler has to dump is all of its version or nothing.
LEMMA SpawnTodo ==
    ASSUME TypeOK, NEW c \in Crate, Spawn(c)
    PROVE  proc'[c].todo \in {<<>>, Bodies[c][source[c]]}
  <1>1. proc'[c].todo = IF Handling(c) = "JustCompile" THEN <<>> ELSE Bodies[c][source[c]]
    BY DEF Spawn, TypeOK
  <1> QED
    BY <1>1

\* A file that is finished is off the list.
LEMMA WriteFileShape ==
    ASSUME TypeOK, NEW c \in Crate, WriteFile(c)
    PROVE  /\ proc[c].pc = "write" /\ proc[c].todo # <<>>
           /\ Becomes(c, At("dump", proc[c].version, Tail(proc[c].todo)))
  <1>1. proc[c] \in Compiler /\ proc[c].pc = "write" /\ proc[c].todo # <<>>
    BY DEF TypeOK, Compiler, WriteFile
  <1>2. Tail(proc[c].todo) \in Seq(Def) /\ proc[c].version \in Version \union {0}
    BY <1>1 DEF Compiler
  <1>3. At("dump", proc[c].version, Tail(proc[c].todo)) \in Compiler
    BY <1>2 DEF At, Compiler, Phase
  <1> QED
    BY <1>1, <1>3, OneCompiler DEF WriteFile, At

\* The other steps of a compiler change its position only.
LEMMA CompilerShape ==
    ASSUME TypeOK, NEW c \in Crate
    PROVE  /\ CreateFile(c) => /\ proc[c].pc = "dump" /\ proc[c].todo # <<>>
                               /\ Becomes(c, At("write", proc[c].version, proc[c].todo))
           /\ EndDump(c) => /\ proc[c].pc = "dump" /\ proc[c].todo = <<>>
                            /\ \E to \in {"analyse", "codegen"} :
                                  /\ to = "analyse" => Handling(c) = "Analyze"
                                  /\ Becomes(c, At(to, proc[c].version, proc[c].todo))
           /\ EndAnalysis(c) => /\ proc[c].pc = "analyse"
                                /\ \/ Becomes(c, Idle)
                                   \/ Becomes(c, At("codegen", proc[c].version, proc[c].todo))
           /\ WriteMetadata(c) => /\ proc[c].pc = "codegen"
                                  /\ Becomes(c, At("rest", proc[c].version, proc[c].todo))
           /\ Finish(c) => proc[c].pc = "rest" /\ Becomes(c, Idle)
           /\ Die(c) => proc[c] # Idle /\ Becomes(c, Idle)
  <1>1. {"write", "analyse", "codegen", "rest"} \subseteq Phase
    BY DEF Phase
  <1>2. ASSUME CreateFile(c)
        PROVE  /\ proc[c].pc = "dump" /\ proc[c].todo # <<>>
               /\ Becomes(c, At("write", proc[c].version, proc[c].todo))
    BY <1>1, <1>2, StepShape DEF CreateFile
  <1>3. ASSUME EndDump(c)
        PROVE  /\ proc[c].pc = "dump" /\ proc[c].todo = <<>>
               /\ \E to \in {"analyse", "codegen"} :
                     /\ to = "analyse" => Handling(c) = "Analyze"
                     /\ Becomes(c, At(to, proc[c].version, proc[c].todo))
    <2>1. CASE Handling(c) = "Analyze"
      BY <1>1, <1>3, <2>1, StepShape DEF EndDump
    <2>2. CASE Handling(c) # "Analyze"
      BY <1>1, <1>3, <2>2, StepShape DEF EndDump
    <2> QED
      BY <2>1, <2>2
  <1>4. ASSUME EndAnalysis(c)
        PROVE  /\ proc[c].pc = "analyse"
               /\ \/ Becomes(c, Idle)
                  \/ Becomes(c, At("codegen", proc[c].version, proc[c].todo))
    BY <1>1, <1>4, StepShape, FailShape DEF EndAnalysis
  <1>5. ASSUME WriteMetadata(c)
        PROVE  /\ proc[c].pc = "codegen"
               /\ Becomes(c, At("rest", proc[c].version, proc[c].todo))
    BY <1>1, <1>5, StepShape DEF WriteMetadata, Step
  <1>6. ASSUME Finish(c)
        PROVE  proc[c].pc = "rest" /\ Becomes(c, Idle)
    BY <1>6, OneCompiler, IdleIsTyped DEF Finish, Compiler
  <1>7. ASSUME Die(c)
        PROVE  proc[c] # Idle /\ Becomes(c, Idle)
    BY <1>7, FailShape DEF Die
  <1> QED
    BY <1>2, <1>3, <1>4, <1>5, <1>6, <1>7

CompilersOK ==
    /\ proc \in [Crate -> Compiler]
    /\ \A c \in Crate :
          /\ proc[c] # Idle => building /\ c \in plan /\ proc[c].version \in Version
          /\ proc[c].pc = "write" => proc[c].todo # <<>>

\* A step of one compiler leaves every compiler in a legal state.
LEMMA CompilersStayOK ==
    ASSUME TypeOK, NEW c \in Crate, NEW p, Becomes(c, p),
           p # Idle => building /\ c \in plan /\ p.version \in Version,
           p.pc = "write" => p.todo # <<>>,
           building' = building, plan \ {c} \subseteq plan', p # Idle => plan' = plan
    PROVE  CompilersOK'
  <1> USE DEF TypeOK, Becomes, CompilersOK
  <1>1. proc' \in [Crate -> Compiler]
    OBVIOUS
  <1>2. ASSUME NEW d \in Crate
        PROVE  /\ proc'[d] # Idle => building' /\ d \in plan' /\ proc'[d].version \in Version
               /\ proc'[d].pc = "write" => proc'[d].todo # <<>>
    <2>1. CASE d = c
      BY <2>1
    <2>2. CASE d # c
      BY <2>2
    <2> QED
      BY <2>1, <2>2
  <1> QED
    BY <1>1, <1>2 DEF Version

\* A running compiler that goes on with its version.
LEMMA GoesOn ==
    ASSUME TypeOK, NEW c \in Crate, NEW to, NEW todo, proc[c].pc # "idle",
           Becomes(c, At(to, proc[c].version, todo)), to = "write" => todo # <<>>,
           building' = building, plan' = plan
    PROVE  CompilersOK'
  <1> DEFINE p == At(to, proc[c].version, todo)
  <1>1. proc[c] # Idle
    BY DEF Idle
  <1>2. building /\ c \in plan /\ proc[c].version \in Version
    BY <1>1 DEF TypeOK
  <1>3. p.version = proc[c].version /\ p.pc = to /\ p.todo = todo
    BY DEF At
  <1> HIDE DEF p
  <1> QED
    BY <1>2, <1>3, CompilersStayOK DEF p

\* A compiler that stops breaks nothing of the others.
LEMMA Stops ==
    ASSUME TypeOK, NEW c \in Crate, Becomes(c, Idle), building' = building, plan \ {c} \subseteq plan'
    PROVE  CompilersOK'
  BY CompilersStayOK DEF Idle

\* Every step, of cargo, of the user or of a compiler.
LEMMA NextCompilersOK ==
    ASSUME TypeOK, [Next]_vars
    PROVE  CompilersOK'
  <1>1. CompilersOK
    BY DEF TypeOK, CompilersOK, Compiler
  <1>2. CASE UNCHANGED vars
    BY <1>1, <1>2 DEF vars, cargo, CompilersOK
  <1>3. CASE StartBuild
    <2>1. \A c \in Crate : proc[c] = Idle
      BY <1>3 DEF StartBuild, TypeOK
    <2> QED
      BY <1>1, <1>3, <2>1 DEF StartBuild, CompilersOK, Idle
  <1>4. CASE EndBuild
    BY <1>1, <1>4 DEF EndBuild, CompilersOK, Idle
  <1>5. ASSUME NEW c \in Crate, Edit(c) PROVE CompilersOK'
    BY <1>1, <1>5 DEF Edit, cargo, CompilersOK
  <1>6. ASSUME NEW c \in Crate, Spawn(c) PROVE CompilersOK'
    <2> DEFINE p == At("dump", source[c], proc'[c].todo)
    <2>1. Becomes(c, p)
      BY <1>6, SpawnShape
    <2>2. p.pc = "dump" /\ p.version \in Version
      BY DEF At, TypeOK
    <2>3. building /\ c \in plan /\ building' = building /\ plan' = plan
      BY <1>6 DEF Spawn, cargo
    <2> HIDE DEF p
    <2> QED
      BY <2>1, <2>2, <2>3, CompilersStayOK
  <1>7. ASSUME NEW c \in Crate, CreateFile(c) PROVE CompilersOK'
    BY <1>7, CompilerShape, GoesOn DEF CreateFile, cargo
  <1>8. ASSUME NEW c \in Crate, WriteFile(c) PROVE CompilersOK'
    <2>1. building' = building /\ plan' = plan
      BY <1>8 DEF WriteFile, cargo
    <2> QED
      BY <1>8, <2>1, WriteFileShape, GoesOn
  <1>9. ASSUME NEW c \in Crate, EndDump(c) PROVE CompilersOK'
    BY <1>9, CompilerShape, GoesOn DEF EndDump, cargo
  <1>10. ASSUME NEW c \in Crate, EndAnalysis(c) PROVE CompilersOK'
    <2>1. building' = building /\ plan' = plan
      BY <1>10 DEF EndAnalysis
    <2>2. proc[c].pc = "analyse"
          /\ (Becomes(c, Idle) \/ Becomes(c, At("codegen", proc[c].version, proc[c].todo)))
      BY <1>10, CompilerShape
    <2>3. CASE Becomes(c, Idle)
      BY <2>1, <2>3, Stops
    <2>4. CASE Becomes(c, At("codegen", proc[c].version, proc[c].todo))
      <3>1. proc[c].pc # "idle" /\ "codegen" # "write"
        BY <2>2
      <3> QED
        BY <3>1, <2>1, <2>4, GoesOn, Zenon
    <2> QED
      BY <2>2, <2>3, <2>4
  <1>11. ASSUME NEW c \in Crate, WriteMetadata(c) PROVE CompilersOK'
    <2>1. building' = building /\ plan' = plan
      BY <1>11 DEF WriteMetadata
    <2>2. proc[c].pc = "codegen" /\ Becomes(c, At("rest", proc[c].version, proc[c].todo))
      BY <1>11, CompilerShape
    <2>3. proc[c].pc # "idle" /\ "rest" # "write"
      BY <2>2
    <2> QED
      BY <2>1, <2>2, <2>3, GoesOn, Zenon
  <1>12. ASSUME NEW c \in Crate, Finish(c) PROVE CompilersOK'
    BY <1>12, CompilerShape, Stops DEF Finish
  <1>13. ASSUME NEW c \in Crate, Die(c) PROVE CompilersOK'
    BY <1>13, CompilerShape, Stops DEF Die
  <1>14. ASSUME NEW r \in Crate, NEW c \in Crate, NEW def \in Def, Load(r, c, def) PROVE CompilersOK'
    <2>1. CASE Found(r, c, def) = Torn
      BY <1>14, <2>1, FailShape, Stops DEF Load
    <2>2. CASE Found(r, c, def) # Torn
      BY <1>1, <1>14, <2>2 DEF Load, CompilersOK
    <2> QED
      BY <2>1, <2>2
  <1> QED
    BY <1>2, <1>3, <1>4, <1>5, <1>6, <1>7, <1>8, <1>9, <1>10, <1>11, <1>12, <1>13, <1>14
    DEF Next, Compile

----------------------------------------------------------------------------
(* The order of a build.                                                   *)

\* All steps but four leave the plan alone and start nothing.
Quiet ==
    /\ building' => building
    /\ plan' = plan /\ released' = released /\ built' = built
    /\ \A c \in Crate : proc[c] = Idle => proc'[c] = Idle

\* Which the four are.
LEMMA QuietSteps ==
    ASSUME TypeOK, [Next]_vars
    PROVE  \/ Quiet
           \/ StartBuild
           \/ \E c \in Crate : Spawn(c) \/ WriteMetadata(c) \/ Finish(c)
  <1>1. ASSUME NEW c \in Crate, NEW p, Becomes(c, p), proc[c] # Idle
        PROVE  \A d \in Crate : proc[d] = Idle => proc'[d] = Idle
    BY <1>1 DEF Becomes
  <1>2. CASE UNCHANGED vars
    BY <1>2 DEF vars, cargo, Quiet
  <1>3. CASE EndBuild
    BY <1>3 DEF EndBuild, Quiet
  <1>4. ASSUME NEW c \in Crate, Edit(c) PROVE Quiet
    BY <1>4 DEF Edit, cargo, Quiet
  <1>5. \A c \in Crate : proc[c].pc # "idle" => proc[c] # Idle
    BY DEF Idle
  <1>6. ASSUME NEW c \in Crate, CreateFile(c) PROVE Quiet
    <2>1. proc[c].pc # "idle"
      BY <1>6, CompilerShape
    <2>2. \A d \in Crate : proc[d] = Idle => proc'[d] = Idle
      BY <1>1, <1>5, <1>6, <2>1, CompilerShape
    <2> QED
      BY <1>6, <2>2 DEF CreateFile, cargo, Quiet
  <1>7. ASSUME NEW c \in Crate, WriteFile(c) PROVE Quiet
    <2>1. proc[c].pc # "idle"
      BY <1>7, WriteFileShape
    <2>2. \A d \in Crate : proc[d] = Idle => proc'[d] = Idle
      BY <1>1, <1>5, <1>7, <2>1, WriteFileShape
    <2> QED
      BY <1>7, <2>2 DEF WriteFile, cargo, Quiet
  <1>8. ASSUME NEW c \in Crate, EndDump(c) PROVE Quiet
    <2>1. proc[c].pc # "idle"
      BY <1>8, CompilerShape
    <2>2. \A d \in Crate : proc[d] = Idle => proc'[d] = Idle
      BY <1>1, <1>5, <1>8, <2>1, CompilerShape
    <2> QED
      BY <1>8, <2>2 DEF EndDump, cargo, Quiet
  <1>9. ASSUME NEW c \in Crate, EndAnalysis(c) PROVE Quiet
    <2>1. proc[c].pc # "idle"
      BY <1>9, CompilerShape
    <2>2. \A d \in Crate : proc[d] = Idle => proc'[d] = Idle
      BY <1>1, <1>5, <1>9, <2>1, CompilerShape
    <2> QED
      BY <1>9, <2>2 DEF EndAnalysis, Quiet
  <1>10. ASSUME NEW c \in Crate, Die(c) PROVE Quiet
    <2>1. \A d \in Crate : proc[d] = Idle => proc'[d] = Idle
      BY <1>1, <1>10, CompilerShape
    <2> QED
      BY <1>10, <2>1 DEF Die, Quiet
  <1>11. ASSUME NEW r \in Crate, NEW c \in Crate, NEW def \in Def, Load(r, c, def) PROVE Quiet
    <2>1. proc[r] # Idle
      BY <1>5, <1>11 DEF Load
    <2>2. CASE Found(r, c, def) = Torn
      BY <1>1, <1>11, <2>1, <2>2, FailShape DEF Load, Quiet
    <2>3. CASE Found(r, c, def) # Torn
      BY <1>11, <2>3 DEF Load, Quiet
    <2> QED
      BY <2>2, <2>3
  <1> QED
    BY <1>2, <1>3, <1>4, <1>6, <1>7, <1>8, <1>9, <1>10, <1>11 DEF Next, Compile

\* Dependents come after what they use, through every step.
LEMMA NextOrder ==
    ASSUME TypeOK, Order, [Next]_vars
    PROVE  Order'
  <1>1. CASE Quiet
    <2>1. /\ building' => building
          /\ plan' = plan /\ released' = released /\ built' = built
          /\ \A c \in Crate : proc[c] = Idle => proc'[c] = Idle
      BY <1>1 DEF Quiet
    <2>2. InOrder'
      BY <2>1 DEF Order, InOrder
    <2>3. UpToDate'
      BY <2>1 DEF Order, UpToDate
    <2>4. Released'
      BY <2>1 DEF Order, Released
    <2> QED
      BY <2>2, <2>3, <2>4 DEF Order
  <1>2. CASE StartBuild
    <2>1. /\ building' /\ released' = {} /\ source' = source
          /\ \A c \in Crate : proc[c] = Idle /\ proc'[c] = Idle
      BY <1>2 DEF StartBuild, TypeOK
    <2>2. CASE Cleans
      BY <1>2, <2>1, <2>2, CrateAssumption DEF StartBuild, Order, InOrder, UpToDate, Released
    <2>3. CASE ~Cleans
      <3>1. plan' = Dirty \union UNION {Dependents(c) : c \in Dirty} /\ built' = built
        BY <1>2, <2>3 DEF StartBuild
      <3>2. ASSUME NEW d \in Crate, NEW c \in Uses[d], c \in plan' PROVE d \in plan'
        <4>1. c \in Crate
          BY CrateAssumption
        <4>2. CASE c \in Dirty
          BY <3>1, <4>1, <4>2 DEF Dependents
        <4>3. CASE c \notin Dirty
          <5>1. PICK b \in Dirty : c \in Dependents(b)
            BY <3>1, <3>2, <4>3
          <5>2. b \in Uses[d]
            BY <4>1, <5>1, CrateAssumption DEF Dependents
          <5> QED
            BY <3>1, <5>1, <5>2 DEF Dependents
        <4> QED
          BY <4>2, <4>3
      <3>3. \A c \in Crate \ plan' : built'[c] # 0
        BY <3>1 DEF Dirty, TypeOK, Version
      <3> QED
        BY <2>1, <3>2, <3>3 DEF Order, InOrder, UpToDate, Released
    <2> QED
      BY <2>2, <2>3
  <1>3. ASSUME NEW c \in Crate, Spawn(c) PROVE Order'
    <2>1. /\ building /\ building' = building /\ plan' = plan /\ released' = released
          /\ c \in plan \ released
          /\ Uses[c] \cap plan \subseteq released
          /\ built' = [d \in Crate |-> IF d \in {c} \union Dependents(c) THEN 0 ELSE built[d]]
      BY <1>3 DEF Spawn, cargo
    <2>2. \A d \in Crate \ {c} : proc'[d] = proc[d]
      BY <1>3, SpawnShape DEF Becomes
    <2>3. \A d \in Dependents(c) : d \in plan \ released
      BY <2>1 DEF Dependents, Order, InOrder
    <2>4. \A d \in Crate : d \notin plan \/ d \in released => built'[d] = built[d] \/ d \in plan
      BY <2>1, <2>3
    <2>5. InOrder'
      BY <2>1, <2>2, CrateAssumption DEF Order, InOrder
    <2>6. UpToDate'
      BY <2>1, <2>4 DEF Order, UpToDate
    <2>7. Released'
      BY <2>1, <2>4 DEF Order, Released, TypeOK
    <2> QED
      BY <2>5, <2>6, <2>7 DEF Order
  <1>4. ASSUME NEW c \in Crate, WriteMetadata(c) PROVE Order'
    <2>1. /\ building' = building /\ plan' = plan /\ released' = released \union {c} /\ built' = built
          /\ proc[c].pc = "codegen"
      BY <1>4 DEF WriteMetadata
    <2>2. proc[c] # Idle /\ building /\ c \in plan
      BY <2>1 DEF TypeOK, Idle
    <2>3. \A d \in Crate \ {c} : proc'[d] = proc[d]
      BY <1>4, CompilerShape DEF Becomes
    <2> QED
      BY <2>1, <2>2, <2>3 DEF Order, InOrder, UpToDate, Released
  <1>5. ASSUME NEW c \in Crate, Finish(c) PROVE Order'
    <2>1. /\ building' = building /\ plan' = plan \ {c} /\ released' = released
          /\ built' = [built EXCEPT ![c] = proc[c].version]
          /\ proc[c].pc = "rest"
      BY <1>5 DEF Finish
    <2>2. proc[c] # Idle /\ proc[c].version # 0
      BY <2>1 DEF TypeOK, Idle, Version
    <2>3. proc'[c] = Idle /\ \A d \in Crate \ {c} : proc'[d] = proc[d]
      BY <1>5, CompilerShape DEF Becomes
    <2>4. built'[c] # 0 /\ \A d \in Crate \ {c} : built'[d] = built[d]
      BY <2>1, <2>2 DEF TypeOK
    <2>5. InOrder'
      BY <2>1, <2>2, <2>3, CrateAssumption DEF Order, InOrder
    <2> QED
      BY <2>1, <2>4, <2>5 DEF Order, UpToDate, Released, TypeOK
  <1> QED
    BY <1>1, <1>2, <1>3, <1>4, <1>5, QuietSteps

----------------------------------------------------------------------------
(* What is on the disk.                                                    *)

\* A dump touches one file, in the crate's own directory.
LEMMA DumpingWritesOwn ==
    ASSUME TypeOK, NEW c \in Crate, NEW def \in Def, NEW v \in Contents,
           files' = [files EXCEPT ![LocalDir(c)][def] = v]
    PROVE  /\ \A d \in Crate \ {c} : files'[LocalDir(d)] = files[LocalDir(d)]
           /\ files'[LocalDir(c)][def] = v
           /\ \A other \in Def \ {def} : files'[LocalDir(c)][other] = files[LocalDir(c)][other]
           /\ files' \in [Dir -> [Def -> Contents]]
  BY OwnDirectory DEF TypeOK

\* Taking the first body off the list removes at most that body.
LEMMA ElementsOfTail ==
    ASSUME NEW S, NEW s \in Seq(S), s # <<>>
    PROVE  /\ Elements(s) = {Head(s)} \union Elements(Tail(s))
           /\ Head(s) \in S
  <1>1. Tail(s) \in Seq(S) /\ Len(s) \in Nat \ {0} /\ Len(Tail(s)) = Len(s) - 1 /\ Head(s) = s[1]
    OBVIOUS
  <1>2. \A k \in 1..Len(s) - 1 : Tail(s)[k] = s[k + 1]
    OBVIOUS
  <1>3. ASSUME NEW k \in DOMAIN s PROVE s[k] \in {Head(s)} \union Elements(Tail(s))
    <2>1. k \in 1..Len(s)
      OBVIOUS
    <2>2. CASE k = 1
      BY <1>1, <2>2
    <2>3. CASE k # 1
      <3>1. k - 1 \in 1..Len(s) - 1 /\ (k - 1) + 1 = k
        BY <1>1, <2>1, <2>3
      <3>2. Tail(s)[k - 1] = s[k] /\ k - 1 \in DOMAIN Tail(s)
        BY <1>1, <1>2, <3>1
      <3> QED
        BY <3>2 DEF Elements
    <2> QED
      BY <2>2, <2>3
  <1>4. ASSUME NEW k \in DOMAIN Tail(s) PROVE Tail(s)[k] \in Elements(s)
    <2>1. k \in 1..Len(s) - 1
      BY <1>1
    <2>2. Tail(s)[k] = s[k + 1] /\ k + 1 \in DOMAIN s
      BY <1>1, <1>2, <2>1
    <2> QED
      BY <2>2 DEF Elements
  <1>5. Head(s) \in Elements(s)
    BY <1>1 DEF Elements
  <1> QED
    BY <1>1, <1>3, <1>4, <1>5 DEF Elements

\* The type invariant is kept.
LEMMA NextTypeOK ==
    ASSUME TypeOK, Order, [Next]_vars
    PROVE  TypeOK'
  <1> DEFINE Others ==
               /\ source \in [Crate -> Version]
               /\ built \in [Crate -> Version \union {0}]
               /\ meta \in [Crate -> Version \union {0}]
               /\ files \in [Dir -> [Def -> Contents]]
               /\ plan \subseteq Crate
               /\ building \in BOOLEAN
               /\ failed \in BOOLEAN
  <1>1. CompilersOK' /\ Order'
    BY NextCompilersOK, NextOrder
  <1>2. Others
    BY DEF TypeOK
  <1>3. \A c \in Crate : proc[c].pc # "idle" => proc[c] # Idle
    BY DEF Idle
  <1>4. \A c \in Crate : proc[c] # Idle => proc[c].version \in Version
    BY DEF TypeOK
  <1>5. Missing \in Contents /\ Torn \in Contents /\ Version \subseteq Contents
    BY DEF Contents
  <1>6. ASSUME UNCHANGED vars PROVE Others'
    BY <1>2, <1>6 DEF vars, cargo
  <1>7. ASSUME StartBuild PROVE Others'
    <2>1. CASE Cleans
      <3>1. /\ files' = Empty /\ built' = [c \in Crate |-> 0] /\ meta' = [c \in Crate |-> 0]
            /\ plan' = Crate /\ building' = TRUE /\ failed' = FALSE /\ source' = source
        BY <1>7, <2>1 DEF StartBuild
      <3>2. Empty \in [Dir -> [Def -> Contents]]
        BY <1>5 DEF Empty
      <3> QED
        BY <1>2, <3>1, <3>2
    <2>2. CASE ~Cleans
      <3>1. plan' \subseteq Crate
        BY <1>7, <2>2 DEF StartBuild, Dirty, Dependents
      <3> QED
        BY <1>2, <1>7, <2>2, <3>1 DEF StartBuild
    <2> QED
      BY <2>1, <2>2
  <1>8. ASSUME EndBuild PROVE Others'
    BY <1>2, <1>8 DEF EndBuild
  <1>9. ASSUME NEW c \in Crate, Edit(c) PROVE Others'
    <2>1. source[c] + 1 \in Version
      BY <1>2, <1>9, SourceAssumption DEF Edit, Version
    <2> QED
      BY <1>2, <1>9, <2>1 DEF Edit, cargo
  <1>10. ASSUME NEW c \in Crate, Spawn(c) PROVE Others'
    BY <1>2, <1>10 DEF Spawn, cargo
  <1>11. ASSUME NEW c \in Crate, CreateFile(c) PROVE Others'
    <2>1. Head(proc[c].todo) \in Def
      BY <1>11, ElementsOfTail DEF CreateFile, TypeOK
    <2> QED
      BY <1>2, <1>5, <1>11, <2>1, DumpingWritesOwn DEF CreateFile, cargo
  <1>12. ASSUME NEW c \in Crate, WriteFile(c) PROVE Others'
    <2>1. Head(proc[c].todo) \in Def
      BY <1>12, ElementsOfTail, WriteFileShape DEF TypeOK
    <2>2. proc[c].version \in Contents
      BY <1>3, <1>4, <1>5, <1>12 DEF WriteFile
    <2> QED
      BY <1>2, <1>12, <2>1, <2>2, DumpingWritesOwn DEF WriteFile, cargo
  <1>13. ASSUME NEW c \in Crate, EndDump(c) PROVE Others'
    BY <1>2, <1>13 DEF EndDump, cargo
  <1>14. ASSUME NEW c \in Crate, EndAnalysis(c) PROVE Others'
    BY <1>2, <1>14 DEF EndAnalysis, Fail
  <1>15. ASSUME NEW c \in Crate, WriteMetadata(c) PROVE Others'
    <2>1. proc[c].version \in Version
      BY <1>3, <1>4, <1>15 DEF WriteMetadata
    <2> QED
      BY <1>2, <1>15, <2>1 DEF WriteMetadata
  <1>16. ASSUME NEW c \in Crate, Finish(c) PROVE Others'
    <2>1. proc[c].version \in Version
      BY <1>3, <1>4, <1>16 DEF Finish
    <2> QED
      BY <1>2, <1>16, <2>1 DEF Finish
  <1>17. ASSUME NEW c \in Crate, Die(c) PROVE Others'
    BY <1>2, <1>17 DEF Die, Fail
  <1>18. ASSUME NEW r \in Crate, NEW c \in Crate, NEW def \in Def, Load(r, c, def) PROVE Others'
    BY <1>2, <1>18 DEF Load, Fail
  <1>19. Others'
    BY <1>6, <1>7, <1>8, <1>9, <1>10, <1>11, <1>12, <1>13, <1>14, <1>15, <1>16, <1>17, <1>18
    DEF Next, Compile
  <1> QED
    BY <1>1, <1>19 DEF TypeOK, CompilersOK, Compiler, Order, Released

\* What is the same for a crate is as good as before.
LEMMA Undisturbed ==
    ASSUME NEW c \in Crate, CrateOK(c), proc'[c] = proc[c], built'[c] \in {built[c], 0},
           meta'[c] = meta[c], files'[LocalDir(c)] = files[LocalDir(c)],
           c \in released' <=> c \in released
    PROVE  CrateOK(c)'
  BY DEF CrateOK, OnDisk

\* A compiler that goes on after the dump.
LEMMA Undumped ==
    ASSUME NEW c \in Crate, CrateOK(c), proc[c] # Idle, proc[c].todo = <<>>, Dumps(c)
    PROVE  OnDisk(c, proc[c].version)
  <1>1. Elements(<<>>) = {}
    BY DEF Elements
  <1> QED
    BY <1>1 DEF CrateOK, OnDisk

\* A failure leaves what is on disk as it was.
LEMMA FailOK ==
    ASSUME TypeOK, NEW c \in Crate, CrateOK(c), Becomes(c, Idle), built' = built, meta' = meta,
           files' = files, released' = released
    PROVE  CrateOK(c)'
  BY DEF Becomes, CrateOK, OnDisk, Idle

\* What the invariant says of a crate's files is kept, whichever crate the
\* step is of.
LEMMA NextCrateOK ==
    ASSUME TypeOK, Order, \A c \in Crate : CrateOK(c), [Next]_vars, NEW e \in Crate
    PROVE  CrateOK(e)'
  <1>0. CrateOK(e) /\ \A c \in Crate : proc[c].pc # "idle" => proc[c] # Idle
    BY DEF Idle
  <1>1. CASE UNCHANGED vars
    BY <1>0, <1>1, Undisturbed DEF vars, cargo
  <1>2. CASE EndBuild
    BY <1>0, <1>2, Undisturbed DEF EndBuild
  <1>3. CASE StartBuild
    <2>1. proc[e] = Idle /\ proc' = proc /\ released' = {}
      BY <1>3 DEF StartBuild, TypeOK
    <2>2. CASE Cleans
      <3>1. built'[e] = 0
        BY <1>3, <2>2 DEF StartBuild
      <3> QED
        BY <2>1, <3>1 DEF CrateOK, Idle
    <2>3. CASE ~Cleans
      <3>1. UNCHANGED <<files, built, meta>>
        BY <1>3, <2>3 DEF StartBuild
      <3> QED
        BY <1>0, <2>1, <3>1 DEF CrateOK, OnDisk, Idle
    <2> QED
      BY <2>2, <2>3
  <1>4. ASSUME NEW c \in Crate, Edit(c) PROVE CrateOK(e)'
    BY <1>0, <1>4, Undisturbed DEF Edit, cargo
  <1>5. ASSUME NEW c \in Crate, Spawn(c) PROVE CrateOK(e)'
    <2>1. /\ c \notin released /\ files' = files /\ meta' = meta /\ released' = released
          /\ built'[c] = 0 /\ built'[e] \in {built[e], 0}
      BY <1>5 DEF Spawn, cargo
    <2>2. CASE e # c
      <3>1. proc'[e] = proc[e]
        BY <1>5, <2>2, SpawnShape DEF Becomes
      <3> QED
        BY <1>0, <2>1, <3>1, Undisturbed
    <2>3. CASE e = c
      <3>1. /\ proc'[c].pc = "dump" /\ proc'[c].version = source[c]
            /\ Dumps(c) => proc'[c].todo = Bodies[c][source[c]]
        BY <1>5, SpawnShape
      <3> QED
        BY <2>1, <2>3, <3>1 DEF CrateOK
    <2> QED
      BY <2>2, <2>3
  <1>6. ASSUME NEW c \in Crate, CreateFile(c) PROVE CrateOK(e)'
    <2>1. /\ proc[c].pc = "dump" /\ proc[c].todo # <<>>
          /\ Becomes(c, At("write", proc[c].version, proc[c].todo))
      BY <1>6, CompilerShape
    <2>2. /\ files' = [files EXCEPT ![LocalDir(c)][Head(proc[c].todo)] = Torn]
          /\ built' = built /\ meta' = meta /\ released' = released
      BY <1>6 DEF CreateFile, cargo
    <2>3. proc[c].todo \in Seq(Def) /\ Torn \in Contents
      BY DEF TypeOK, Contents
    <2>4. Head(proc[c].todo) \in Def /\ Head(proc[c].todo) \in Elements(proc[c].todo)
      BY <2>1, <2>3, ElementsOfTail
    <2> DEFINE head == Head(proc[c].todo)
    <2>a. head \in Def /\ files' = [files EXCEPT ![LocalDir(c)][head] = Torn]
      BY <2>2, <2>4
    <2> HIDE DEF head
    <2>b. /\ \A d \in Crate \ {c} : files'[LocalDir(d)] = files[LocalDir(d)]
          /\ \A def \in Def \ {head} : files'[LocalDir(c)][def] = files[LocalDir(c)][def]
      BY <2>3, <2>a, DumpingWritesOwn
    <2>5. CASE e # c
      <3>1. proc'[e] = proc[e] /\ files'[LocalDir(e)] = files[LocalDir(e)]
        BY <2>1, <2>5, <2>b DEF Becomes
      <3> QED
        BY <1>0, <2>2, <3>1, Undisturbed
    <2>6. CASE e = c
      <3>1. \A def \in Def \ {Head(proc[c].todo)} : files'[LocalDir(c)][def] = files[LocalDir(c)][def]
        BY <2>b DEF head
      <3>2. proc[c] # Idle /\ proc[c].version \in Version
        BY <1>0, <2>1 DEF TypeOK
      <3>3. Elements(Bodies[c][proc[c].version]) \subseteq Def
        BY <3>2, SourceAssumption DEF Elements, Version
      <3>4. proc'[c].pc = "write" /\ proc'[c].version = proc[c].version /\ proc'[c].todo = proc[c].todo
        BY <2>1 DEF Becomes, At
      <3>5. built[c] = 0 /\ c \notin released
        BY <1>0, <2>1, <2>6, <3>2 DEF CrateOK
      <3>6. Dumps(c) => \A def \in Elements(Bodies[c][proc'[c].version]) \ Elements(proc'[c].todo) :
                            files'[LocalDir(c)][def] = proc'[c].version
        BY <1>0, <2>4, <2>6, <3>1, <3>2, <3>3, <3>4 DEF CrateOK
      <3> QED
        BY <2>2, <2>6, <3>4, <3>5, <3>6 DEF CrateOK
    <2> QED
      BY <2>5, <2>6
  <1>7. ASSUME NEW c \in Crate, WriteFile(c) PROVE CrateOK(e)'
    <2>1. /\ proc[c].pc = "write" /\ proc[c].todo # <<>>
          /\ Becomes(c, At("dump", proc[c].version, Tail(proc[c].todo)))
      BY <1>7, WriteFileShape
    <2>2. /\ files' = [files EXCEPT ![LocalDir(c)][Head(proc[c].todo)] = proc[c].version]
          /\ built' = built /\ meta' = meta /\ released' = released
      BY <1>7 DEF WriteFile, cargo
    <2>3. proc[c] # Idle /\ proc[c].version \in Version
      BY <1>0, <2>1 DEF TypeOK
    <2>4. proc[c].todo \in Seq(Def) /\ proc[c].version \in Contents
      BY <2>3 DEF TypeOK, Contents
    <2>5. /\ Head(proc[c].todo) \in Def
          /\ Elements(proc[c].todo) = {Head(proc[c].todo)} \union Elements(Tail(proc[c].todo))
      BY <2>1, <2>4, ElementsOfTail
    <2> DEFINE head == Head(proc[c].todo)
    <2>a. head \in Def
      BY <2>5
    <2>c. PICK own \in Contents :
              own = proc[c].version /\ files' = [files EXCEPT ![LocalDir(c)][head] = own]
      BY <2>2, <2>4
    <2> HIDE DEF head
    <2>b. /\ \A d \in Crate \ {c} : files'[LocalDir(d)] = files[LocalDir(d)]
          /\ files'[LocalDir(c)][head] = own
          /\ \A def \in Def \ {head} : files'[LocalDir(c)][def] = files[LocalDir(c)][def]
      <3>1. files' = [files EXCEPT ![LocalDir(c)][head] = own]
        BY <2>c
      <3>2. files'[LocalDir(c)][head] = own
        BY <2>a, <3>1, OwnDirectory DEF TypeOK
      <3>3. /\ \A d \in Crate \ {c} : files'[LocalDir(d)] = files[LocalDir(d)]
            /\ \A def \in Def \ {head} : files'[LocalDir(c)][def] = files[LocalDir(c)][def]
        BY <2>a, <3>1, OwnDirectory DEF TypeOK
      <3> QED
        BY <3>2, <3>3
    <2>6. CASE e # c
      <3>1. proc'[e] = proc[e] /\ files'[LocalDir(e)] = files[LocalDir(e)]
        BY <2>1, <2>6, <2>b DEF Becomes
      <3> QED
        BY <1>0, <2>2, <3>1, Undisturbed
    <2>7. CASE e = c
      <3>1. /\ files'[LocalDir(c)][Head(proc[c].todo)] = proc[c].version
            /\ \A def \in Def \ {Head(proc[c].todo)} :
                  files'[LocalDir(c)][def] = files[LocalDir(c)][def]
        BY <2>b, <2>c DEF head
      <3>2. Elements(Bodies[c][proc[c].version]) \subseteq Def
        BY <2>3, SourceAssumption DEF Elements, Version
      <3>3. /\ proc'[c].pc = "dump" /\ proc'[c].version = proc[c].version
            /\ proc'[c].todo = Tail(proc[c].todo)
        BY <2>1 DEF Becomes, At
      <3>4. built[c] = 0 /\ c \notin released
        BY <1>0, <2>1, <2>3, <2>7 DEF CrateOK
      <3>5. Dumps(c) => \A def \in Elements(Bodies[c][proc'[c].version]) \ Elements(proc'[c].todo) :
                            files'[LocalDir(c)][def] = proc'[c].version
        BY <1>0, <2>3, <2>5, <2>7, <3>1, <3>2, <3>3 DEF CrateOK
      <3> QED
        BY <2>2, <2>7, <3>3, <3>4, <3>5 DEF CrateOK
    <2> QED
      BY <2>6, <2>7
  <1>8. ASSUME NEW c \in Crate, EndDump(c) PROVE CrateOK(e)'
    <2>1. proc[c].pc = "dump" /\ proc[c].todo = <<>>
      BY <1>8, CompilerShape
    <2>2. PICK to \in {"analyse", "codegen"} :
              /\ to = "analyse" => Handling(c) = "Analyze"
              /\ Becomes(c, At(to, proc[c].version, proc[c].todo))
      BY <1>8, CompilerShape
    <2>3. UNCHANGED <<built, meta, files, released>>
      BY <1>8 DEF EndDump, cargo
    <2>4. CASE e # c
      BY <1>0, <2>2, <2>3, <2>4, Undisturbed DEF Becomes
    <2>5. CASE e = c
      <3>1. proc'[c].pc = to /\ proc'[c].version = proc[c].version /\ proc'[c].todo = <<>>
        BY <2>1, <2>2 DEF Becomes, At
      <3> QED
        BY <1>0, <2>1, <2>2, <2>3, <2>5, <3>1 DEF CrateOK, OnDisk
    <2> QED
      BY <2>4, <2>5
  <1>9. ASSUME NEW c \in Crate, EndAnalysis(c) PROVE CrateOK(e)'
    <2>1. UNCHANGED <<built, meta, files, released>> /\ proc[c].pc = "analyse"
      BY <1>9 DEF EndAnalysis
    <2>2. CASE Becomes(c, Idle)
      BY <1>0, <2>1, <2>2, Undisturbed, FailOK DEF Becomes
    <2>3. CASE Becomes(c, At("codegen", proc[c].version, proc[c].todo))
      <3>1. CASE e # c
        BY <1>0, <2>1, <2>3, <3>1, Undisturbed DEF Becomes
      <3>2. CASE e = c
        <4>1. proc'[c].pc = "codegen" /\ proc'[c].version = proc[c].version
              /\ proc'[c].todo = proc[c].todo
          BY <2>3 DEF Becomes, At
        <4> QED
          BY <1>0, <2>1, <3>2, <4>1 DEF CrateOK, OnDisk
      <3> QED
        BY <3>1, <3>2
    <2> QED
      BY <1>9, <2>2, <2>3, CompilerShape
  <1>10. ASSUME NEW c \in Crate, WriteMetadata(c) PROVE CrateOK(e)'
    <2>1. /\ proc[c].pc = "codegen"
          /\ Becomes(c, At("rest", proc[c].version, proc[c].todo))
      BY <1>10, CompilerShape
    <2>2. /\ UNCHANGED <<built, files>> /\ released' = released \union {c}
          /\ meta' = [meta EXCEPT ![c] = proc[c].version]
      BY <1>10 DEF WriteMetadata
    <2>3. CASE e # c
      <3>1. meta'[e] = meta[e]
        BY <2>2, <2>3 DEF TypeOK
      <3> QED
        BY <1>0, <2>1, <2>2, <2>3, <3>1, Undisturbed DEF Becomes
    <2>4. CASE e = c
      <3>1. proc[c] # Idle /\ proc[c].version # 0
        BY <1>0, <2>1 DEF TypeOK, Version
      <3>2. meta'[c] = proc[c].version
        BY <2>2 DEF TypeOK
      <3>3. proc[c].todo = <<>> /\ built[c] = 0
        BY <1>0, <2>1, <2>4, <3>1 DEF CrateOK
      <3>4. Dumps(c) => OnDisk(c, proc[c].version)
        BY <1>0, <2>4, <3>1, <3>3, Undumped
      <3>5. Dumps(c) => OnDisk(c, meta[c])'
        BY <2>2, <3>2, <3>4 DEF OnDisk
      <3>6. proc'[c].pc = "rest" /\ proc'[c].version = proc[c].version /\ proc'[c].todo = proc[c].todo
        BY <2>1 DEF Becomes, At
      <3> QED
        BY <1>0, <2>2, <2>4, <3>1, <3>2, <3>3, <3>5, <3>6 DEF CrateOK
    <2> QED
      BY <2>3, <2>4
  <1>11. ASSUME NEW c \in Crate, Finish(c) PROVE CrateOK(e)'
    <2>1. proc[c].pc = "rest" /\ Becomes(c, Idle)
      BY <1>11, CompilerShape
    <2>2. UNCHANGED <<meta, files, released>> /\ built' = [built EXCEPT ![c] = proc[c].version]
      BY <1>11 DEF Finish
    <2>3. CASE e # c
      <3>1. built'[e] = built[e]
        BY <2>2, <2>3 DEF TypeOK
      <3> QED
        BY <1>0, <2>1, <2>2, <2>3, <3>1, Undisturbed DEF Becomes
    <2>4. CASE e = c
      BY <1>0, <2>1, <2>2, <2>4 DEF CrateOK, OnDisk, Becomes, Idle
    <2> QED
      BY <2>3, <2>4
  <1>12. ASSUME NEW c \in Crate, Die(c) PROVE CrateOK(e)'
    <2>1. UNCHANGED <<built, meta, files, released>> /\ Becomes(c, Idle)
      BY <1>12, CompilerShape DEF Die
    <2> QED
      BY <1>0, <2>1, Undisturbed, FailOK DEF Becomes
  <1>13. ASSUME NEW r \in Crate, NEW c \in Crate, NEW def \in Def, Load(r, c, def) PROVE CrateOK(e)'
    <2>1. UNCHANGED <<built, meta, files, released>>
      BY <1>13 DEF Load
    <2>2. CASE Found(r, c, def) = Torn
      BY <1>0, <1>13, <2>1, <2>2, FailShape, Undisturbed, FailOK DEF Load, Becomes
    <2>3. CASE Found(r, c, def) # Torn
      BY <1>0, <1>13, <2>1, <2>3, Undisturbed DEF Load
    <2> QED
      BY <2>2, <2>3
  <1> QED
    BY <1>1, <1>2, <1>3, <1>4, <1>5, <1>6, <1>7, <1>8, <1>9, <1>10, <1>11, <1>12, <1>13
    DEF Next, Compile

----------------------------------------------------------------------------
(* The theorems.                                                           *)

\* The invariant holds at the beginning.
LEMMA InitIInv == Init => IInv
  <1> SUFFICES ASSUME Init PROVE IInv
    OBVIOUS
  <1>1. TypeOK
    BY InitTypeOK
  <1>2. Order
    BY DEF Init, Order, InOrder, UpToDate, Released
  <1>3. \A c \in Crate : CrateOK(c)
    BY DEF Init, CrateOK, Idle
  <1> QED
    BY <1>1, <1>2, <1>3 DEF IInv

\* The invariant is kept.
LEMMA NextIInv == IInv /\ [Next]_vars => IInv'
  <1> SUFFICES ASSUME IInv, [Next]_vars PROVE IInv'
    OBVIOUS
  <1>1. \A c \in Crate : CrateOK(c)'
    BY NextCrateOK DEF IInv
  <1> QED
    BY <1>1, NextTypeOK, NextOrder DEF IInv

\* The inductive invariant: a build goes in the order of its crates, and what
\* it has finished with is on the disk.
THEOREM BuildInvariant == Spec => []IInv
  BY InitIInv, NextIInv, PTL DEF Spec

\* Compilers run only while cargo does, have only functions of their crate
\* left to dump and stand behind the version they were started on.
THEOREM TypeCorrect == Spec => []TypeOK
  <1>1. IInv => TypeOK
    BY DEF IInv
  <1> QED
    BY <1>1, BuildInvariant, PTL

\* What is used by a crate under analysis has been dumped.
LEMMA UsedIsOnDisk ==
    ASSUME IInv, NEW r \in Crate, proc[r].pc = "analyse", NEW c \in Uses[r]
    PROVE  c \in Crate /\ meta[c] # 0 /\ OnDisk(c, meta[c])
  <1>1. c \in Crate
    BY CrateAssumption
  <1>2. Dumps(c)
    BY <1>1, NamingAssumption DEF Dumps, Handling
  <1>3. proc[r] # Idle /\ building
    BY DEF IInv, TypeOK, Idle
  <1>4. c \notin plan \/ c \in released
    BY <1>3 DEF IInv, Order, InOrder
  <1>5. built[c] # 0 \/ c \in released
    BY <1>1, <1>3, <1>4 DEF IInv, Order, UpToDate
  <1> QED
    BY <1>1, <1>2, <1>5 DEF IInv, CrateOK

\* With PlainNames, whatever an analysis finds a body for by the metadata it
\* has is there, written to its end by a compiler of that version.
LEMMA IInvReadable == IInv /\ PlainNames => ReadableIsWhole
  <1> SUFFICES ASSUME IInv, PlainNames, NEW r \in Crate, NEW c \in Visible(r)
               PROVE  VersionFor(r, c) # 0 /\ Whole(r, c)
    BY DEF ReadableIsWhole
  <1>1. proc[r].pc = "analyse" /\ c \in {r} \union Uses[r]
    BY DEF Visible
  <1>2. CASE c = r
    <2>1. proc[r] # Idle /\ proc[r].version # 0 /\ proc[r].todo = <<>> /\ Dumps(r)
      BY <1>1 DEF IInv, TypeOK, CrateOK, Idle, Version, Dumps
    <2>2. OnDisk(r, proc[r].version)
      BY <2>1, Undumped DEF IInv
    <2> QED
      BY <1>2, <2>1, <2>2 DEF VersionFor, Whole, Found, DirFor, OnDisk, Elements
  <1>3. CASE c # r
    <2>1. c \in Uses[r]
      BY <1>1, <1>3
    <2>2. meta[c] # 0 /\ OnDisk(c, meta[c])
      BY <1>1, <2>1, UsedIsOnDisk
    <2>3. RemoteDir(c) = LocalDir(c)
      BY <2>1 DEF PlainNames, RemoteDir, LocalDir
    <2> QED
      BY <1>3, <2>2, <2>3 DEF VersionFor, Whole, Found, DirFor, OnDisk, Elements
  <1> QED
    BY <1>2, <1>3

\* So no load of a body the metadata speaks of fails, meets an unfinished
\* file or answers with another version, in any build and after any failure.
THEOREM BodiesAreWhole == PlainNames => (Spec => []ReadableIsWhole)
  <1> SUFFICES ASSUME PlainNames PROVE Spec => []ReadableIsWhole
    OBVIOUS
  <1>1. IInv => ReadableIsWhole
    BY IInvReadable
  <1> QED
    BY <1>1, BuildInvariant, PTL

----------------------------------------------------------------------------
(* Builds after cargo clean: no file is left over from another version.    *)

\* No file of c but those of functions that have a body in version v.
Only(c, v) ==
    \A def \in Def : files[LocalDir(c)][def] # Missing => def \in Elements(Bodies[c][v])

NoFiles(c) == \A def \in Def : files[LocalDir(c)][def] = Missing

\* A crate that a compiler may be started for has no files, one that is
\* compiled or has been has those of the version it is compiled from.
CleanOK(c) ==
    /\ building /\ ~failed /\ c \in plan \ released /\ proc[c] = Idle => NoFiles(c)
    /\ proc[c] # Idle => /\ Elements(proc[c].todo) \subseteq Elements(Bodies[c][proc[c].version])
                         /\ Only(c, proc[c].version)
    /\ built[c] # 0 \/ c \in released => Only(c, meta[c])

CleanInv == IInv /\ \A c \in Crate : CleanOK(c)

\* A step of another crate leaves this one's directory clean.
LEMMA LeftClean ==
    ASSUME NEW c \in Crate, CleanOK(c), proc'[c] = proc[c], built'[c] \in {built[c], 0},
           meta'[c] = meta[c], files'[LocalDir(c)] = files[LocalDir(c)],
           c \in released' => c \in released, c \in plan' => c \in plan,
           building' => building, failed => failed', c \in released => c \in released' \/ c \notin plan'
    PROVE  CleanOK(c)'
  BY DEF CleanOK, Only, NoFiles

\* After a failure no compiler is started.
LEMMA FailedClean ==
    ASSUME NEW c \in Crate, CleanOK(c), Becomes(c, Idle), failed', built' = built, meta' = meta,
           files' = files, released' = released
    PROVE  CleanOK(c)'
  BY DEF Becomes, CleanOK, Only

\* A running compiler makes files of functions it has yet to dump only.
LEMMA CompilingClean ==
    ASSUME NEW c \in Crate, CleanOK(c), proc[c] # Idle, NEW pc, NEW todo, pc # "idle",
           Becomes(c, At(pc, proc[c].version, todo)),
           Elements(todo) \subseteq Elements(proc[c].todo),
           \A def \in Def : files'[LocalDir(c)][def] # Missing =>
               files[LocalDir(c)][def] # Missing \/ def \in Elements(proc[c].todo),
           \/ built'[c] = 0 /\ c \notin released'
           \/ meta'[c] = proc[c].version
    PROVE  CleanOK(c)'
  <1>1. proc'[c].version = proc[c].version /\ proc'[c].todo = todo /\ proc'[c] # Idle
    BY DEF Becomes, At, Idle
  <1>2. Only(c, proc[c].version)'
    <2>1. \A def \in Def : files'[LocalDir(c)][def] # Missing =>
              def \in Elements(Bodies[c][proc[c].version])
      BY DEF CleanOK, Only
    <2> QED
      BY <1>1, <2>1 DEF Only
  <1>3. Only(c, proc[c].version)' /\ meta'[c] = proc[c].version => Only(c, meta[c])'
    BY <1>1 DEF Only
  <1> QED
    BY <1>1, <1>2, <1>3 DEF CleanOK

\* Directories stay clean under every step if each build starts clean.
LEMMA NextCleanOK ==
    ASSUME Cleans, IInv, \A c \in Crate : CleanOK(c), [Next]_vars, NEW e \in Crate
    PROVE  CleanOK(e)'
  <1>0. CleanOK(e) /\ TypeOK /\ \A c \in Crate : proc[c].pc # "idle" => proc[c] # Idle
    BY DEF Idle, IInv
  <1>a. \A c \in Crate : proc[c].pc \in {"dump", "write", "analyse", "codegen"} =>
            built[c] = 0 /\ c \notin released /\ proc[c] # Idle
    BY <1>0 DEF IInv, CrateOK
  <1>1. CASE UNCHANGED vars
    BY <1>0, <1>1, LeftClean DEF vars, cargo
  <1>2. CASE EndBuild
    BY <1>0, <1>2, LeftClean DEF EndBuild
  <1>3. CASE StartBuild
    <2>1. /\ proc'[e] = Idle /\ released' = {} /\ built'[e] = 0 /\ files' = Empty
      BY <1>0, <1>3 DEF StartBuild, TypeOK
    <2>2. \A def \in Def : Empty[LocalDir(e)][def] = Missing
      BY OwnDirectory DEF Empty
    <2> QED
      BY <2>1, <2>2 DEF CleanOK, NoFiles
  <1>4. ASSUME NEW c \in Crate, Edit(c) PROVE CleanOK(e)'
    BY <1>0, <1>4, LeftClean DEF Edit, cargo
  <1>5. ASSUME NEW c \in Crate, Spawn(c) PROVE CleanOK(e)'
    <2>1. /\ c \notin released /\ files' = files /\ meta' = meta /\ UNCHANGED cargo
          /\ built'[c] = 0 /\ built'[e] \in {built[e], 0}
          /\ building /\ ~failed /\ c \in plan \ released /\ proc[c] = Idle
      BY <1>5 DEF Spawn, cargo
    <2>2. CASE e # c
      <3>1. proc'[e] = proc[e]
        BY <1>0, <1>5, <2>2, SpawnShape DEF Becomes
      <3> QED
        BY <1>0, <2>1, <3>1, LeftClean DEF cargo
    <2>3. CASE e = c
      <3>1. /\ proc'[c].pc = "dump" /\ proc'[c].version = source[c]
            /\ proc'[c].todo \in {<<>>, Bodies[c][source[c]]}
        BY <1>0, <1>5, SpawnTodo, SpawnShape
      <3>2. Elements(proc'[c].todo) \subseteq Elements(Bodies[c][source[c]])
        BY <3>1 DEF Elements
      <3>3. NoFiles(c)
        BY <1>0, <2>1, <2>3 DEF CleanOK
      <3>4. proc'[c] # Idle
        BY <3>1 DEF Idle
      <3> QED
        BY <2>1, <2>3, <3>1, <3>2, <3>3, <3>4 DEF CleanOK, Only, NoFiles, cargo
    <2> QED
      BY <2>2, <2>3
  <1>6. ASSUME NEW c \in Crate, CreateFile(c) PROVE CleanOK(e)'
    <2>1. /\ proc[c].pc = "dump" /\ proc[c].todo # <<>> /\ proc[c].todo \in Seq(Def)
          /\ Becomes(c, At("write", proc[c].version, proc[c].todo))
      BY <1>0, <1>6, CompilerShape DEF TypeOK
    <2>2. /\ files' = [files EXCEPT ![LocalDir(c)][Head(proc[c].todo)] = Torn]
          /\ built' = built /\ meta' = meta /\ UNCHANGED cargo
      BY <1>6 DEF CreateFile, cargo
    <2>3. Head(proc[c].todo) \in Def /\ Head(proc[c].todo) \in Elements(proc[c].todo)
      BY <2>1, ElementsOfTail
    <2> DEFINE head == Head(proc[c].todo)
    <2>4. head \in Def /\ head \in Elements(proc[c].todo)
          /\ files' = [files EXCEPT ![LocalDir(c)][head] = Torn]
      BY <2>2, <2>3
    <2> HIDE DEF head
    <2>5. /\ \A d \in Crate \ {c} : files'[LocalDir(d)] = files[LocalDir(d)]
          /\ \A def \in Def \ {head} : files'[LocalDir(c)][def] = files[LocalDir(c)][def]
      BY <1>0, <2>4, OwnDirectory DEF TypeOK
    <2>6. CASE e # c
      BY <1>0, <2>1, <2>2, <2>5, <2>6, LeftClean DEF Becomes, cargo
    <2>7. CASE e = c
      <3>1. \A def \in Def : files'[LocalDir(c)][def] # Missing =>
                files[LocalDir(c)][def] # Missing \/ def \in Elements(proc[c].todo)
        BY <2>4, <2>5
      <3>2. proc[c] # Idle /\ built'[c] = 0 /\ c \notin released' /\ "write" # "idle"
        BY <1>a, <2>1, <2>2 DEF cargo
      <3> QED
        BY <1>0, <2>1, <2>7, <3>1, <3>2, CompilingClean
    <2> QED
      BY <2>6, <2>7
  <1>7. ASSUME NEW c \in Crate, WriteFile(c) PROVE CleanOK(e)'
    <2>1. /\ proc[c].pc = "write" /\ proc[c].todo # <<>> /\ proc[c].todo \in Seq(Def)
          /\ Becomes(c, At("dump", proc[c].version, Tail(proc[c].todo)))
      BY <1>0, <1>7, WriteFileShape DEF TypeOK
    <2>2. /\ files' = [files EXCEPT ![LocalDir(c)][Head(proc[c].todo)] = proc[c].version]
          /\ built' = built /\ meta' = meta /\ UNCHANGED cargo
      BY <1>7 DEF WriteFile, cargo
    <2>3. /\ Head(proc[c].todo) \in Def /\ Head(proc[c].todo) \in Elements(proc[c].todo)
          /\ Elements(Tail(proc[c].todo)) \subseteq Elements(proc[c].todo)
      BY <2>1, ElementsOfTail
    <2> DEFINE head == Head(proc[c].todo)
    <2>4. head \in Def /\ head \in Elements(proc[c].todo)
          /\ files' = [files EXCEPT ![LocalDir(c)][head] = proc[c].version]
      BY <2>2, <2>3
    <2> HIDE DEF head
    <2>5. /\ \A d \in Crate \ {c} : files'[LocalDir(d)] = files[LocalDir(d)]
          /\ \A def \in Def \ {head} : files'[LocalDir(c)][def] = files[LocalDir(c)][def]
      BY <1>0, <2>4, OwnDirectory DEF TypeOK
    <2>6. CASE e # c
      BY <1>0, <2>1, <2>2, <2>5, <2>6, LeftClean DEF Becomes, cargo
    <2>7. CASE e = c
      <3>1. \A def \in Def : files'[LocalDir(c)][def] # Missing =>
                files[LocalDir(c)][def] # Missing \/ def \in Elements(proc[c].todo)
        BY <2>4, <2>5
      <3>2. proc[c] # Idle /\ built'[c] = 0 /\ c \notin released' /\ "dump" # "idle"
        BY <1>a, <2>1, <2>2 DEF cargo
      <3> QED
        BY <1>0, <2>1, <2>3, <2>7, <3>1, <3>2, CompilingClean
    <2> QED
      BY <2>6, <2>7
  <1>8. ASSUME NEW c \in Crate, EndDump(c) PROVE CleanOK(e)'
    <2>1. UNCHANGED <<built, meta, files, cargo>> /\ proc[c].pc = "dump"
      BY <1>0, <1>8, CompilerShape DEF EndDump, cargo
    <2>2. PICK to \in {"analyse", "codegen"} : Becomes(c, At(to, proc[c].version, proc[c].todo))
      BY <1>0, <1>8, CompilerShape
    <2>3. CASE e # c
      BY <1>0, <2>1, <2>2, <2>3, LeftClean DEF Becomes, cargo
    <2>4. CASE e = c
      <3>1. proc[c] # Idle /\ built'[c] = 0 /\ c \notin released' /\ to # "idle"
        BY <1>a, <2>1 DEF cargo
      <3> QED
        BY <1>0, <2>1, <2>2, <2>4, <3>1, CompilingClean
    <2> QED
      BY <2>3, <2>4
  <1>9. ASSUME NEW c \in Crate, EndAnalysis(c) PROVE CleanOK(e)'
    <2>1. /\ UNCHANGED <<built, meta, files, plan, released, building>> /\ proc[c].pc = "analyse"
          /\ \/ Fail(c)
             \/ failed' = failed /\ Becomes(c, At("codegen", proc[c].version, proc[c].todo))
      BY <1>0, <1>9, StepShape DEF EndAnalysis, Phase
    <2>2. CASE Fail(c)
      BY <1>0, <2>1, <2>2, FailShape, FailedClean, LeftClean DEF Becomes, Fail
    <2>3. CASE failed' = failed /\ Becomes(c, At("codegen", proc[c].version, proc[c].todo))
      <3>1. CASE e # c
        BY <1>0, <2>1, <2>3, <3>1, LeftClean DEF Becomes
      <3>2. CASE e = c
        <4>1. proc[c] # Idle /\ built'[c] = 0 /\ c \notin released' /\ "codegen" # "idle"
          BY <1>a, <2>1
        <4> QED
          BY <1>0, <2>1, <2>3, <3>2, <4>1, CompilingClean
      <3> QED
        BY <3>1, <3>2
    <2> QED
      BY <2>1, <2>2, <2>3
  <1>10. ASSUME NEW c \in Crate, WriteMetadata(c) PROVE CleanOK(e)'
    <2>1. /\ proc[c].pc = "codegen"
          /\ Becomes(c, At("rest", proc[c].version, proc[c].todo))
      BY <1>0, <1>10, CompilerShape
    <2>2. /\ UNCHANGED <<built, files, plan, building, failed>> /\ released' = released \union {c}
          /\ meta' = [meta EXCEPT ![c] = proc[c].version]
      BY <1>10 DEF WriteMetadata
    <2>3. /\ meta'[c] = proc[c].version
          /\ \A d \in Crate \ {c} : meta'[d] = meta[d]
      BY <1>0, <2>2 DEF TypeOK
    <2>4. CASE e # c
      BY <1>0, <2>1, <2>2, <2>3, <2>4, LeftClean DEF Becomes
    <2>5. CASE e = c
      <3>1. proc[c] # Idle /\ "rest" # "idle"
        BY <1>a, <2>1
      <3> QED
        BY <1>0, <2>1, <2>2, <2>3, <2>5, <3>1, CompilingClean
    <2> QED
      BY <2>4, <2>5
  <1>11. ASSUME NEW c \in Crate, Finish(c) PROVE CleanOK(e)'
    <2>1. proc[c].pc = "rest" /\ Becomes(c, Idle)
      BY <1>0, <1>11, CompilerShape
    <2>2. /\ UNCHANGED <<meta, files, released, building, failed>> /\ plan' = plan \ {c}
          /\ built' = [built EXCEPT ![c] = proc[c].version]
      BY <1>11 DEF Finish
    <2>3. CASE e # c
      <3>1. built'[e] = built[e]
        BY <1>0, <2>2, <2>3 DEF TypeOK
      <3> QED
        BY <1>0, <2>1, <2>2, <2>3, <3>1, LeftClean DEF Becomes
    <2>4. CASE e = c
      <3>1. c \in released
        BY <2>1 DEF IInv, CrateOK
      <3>2. Only(c, meta[c])
        BY <1>0, <2>4, <3>1 DEF CleanOK
      <3> QED
        BY <2>1, <2>2, <2>4, <3>2 DEF CleanOK, Only, Becomes
    <2> QED
      BY <2>3, <2>4
  <1>12. ASSUME NEW c \in Crate, Die(c) PROVE CleanOK(e)'
    <2>1. UNCHANGED <<built, meta, files, plan, released, building>> /\ Fail(c)
      BY <1>12 DEF Die
    <2> QED
      BY <1>0, <2>1, FailShape, FailedClean, LeftClean DEF Becomes, Fail
  <1>13. ASSUME NEW r \in Crate, NEW c \in Crate, NEW def \in Def, Load(r, c, def) PROVE CleanOK(e)'
    <2>1. UNCHANGED <<built, meta, files, plan, released, building>>
      BY <1>13 DEF Load
    <2>2. CASE Found(r, c, def) = Torn
      <3>1. Fail(r)
        BY <1>13, <2>2 DEF Load
      <3> QED
        BY <1>0, <2>1, <3>1, FailShape, FailedClean, LeftClean DEF Becomes, Fail
    <2>3. CASE Found(r, c, def) # Torn
      BY <1>0, <1>13, <2>1, <2>3, LeftClean DEF Load
    <2> QED
      BY <2>2, <2>3
  <1> QED
    BY <1>1, <1>2, <1>3, <1>4, <1>5, <1>6, <1>7, <1>8, <1>9, <1>10, <1>11, <1>12, <1>13
    DEF Next, Compile

\* The invariant behind the refinement.
LEMMA CleanInvariant == Cleans => (Spec => []CleanInv)
  <1> SUFFICES ASSUME Cleans PROVE Spec => []CleanInv
    OBVIOUS
  <1>1. Init => CleanInv
    BY InitIInv DEF Init, CleanInv, CleanOK
  <1>2. CleanInv /\ [Next]_vars => CleanInv'
    BY NextIInv, NextCleanOK DEF CleanInv
  <1> QED
    BY <1>1, <1>2, PTL DEF Spec

----------------------------------------------------------------------------
(* The refinement.                                                         *)

\* The crates an analysis may load bodies of have one version each, and a
\* file for each function with a body in it and for no other.
LEMMA AnswersAreRight ==
    ASSUME CleanInv, PlainNames, NEW r \in Crate, proc[r].pc = "analyse",
           NEW c \in {r} \union Uses[r], NEW def \in Def
    PROVE  /\ c \in Crate /\ VersionFor(r, c) # 0
           /\ Found(r, c, def) = IF Store!HasBody(c, VersionFor(r, c), def)
                                 THEN VersionFor(r, c) ELSE Missing
  <1> DEFINE v == VersionFor(r, c)
  <1>1. c \in Crate /\ c \in Visible(r)
    BY CrateAssumption DEF Visible
  <1>2. v # 0 /\ Whole(r, c)
    BY <1>1, IInvReadable DEF CleanInv, ReadableIsWhole
  <1>3. DirFor(r, c) = LocalDir(c)
    BY <1>1 DEF DirFor, PlainNames, RemoteDir, LocalDir
  <1>4. Only(c, v)
    <2>1. CASE c = r
      BY <2>1 DEF CleanInv, CleanOK, VersionFor, Idle
    <2>2. CASE c # r
      <3>1. proc[r] # Idle
        BY DEF Idle
      <3>2. built[c] # 0 \/ c \in released
        BY <1>1, <2>2, <3>1 DEF CleanInv, IInv, TypeOK, Order, InOrder, UpToDate
      <3> QED
        BY <1>1, <2>2, <3>2 DEF CleanInv, CleanOK, VersionFor
    <2> QED
      BY <2>1, <2>2
  <1>5. Store!HasBody(c, v, def) <=> def \in Elements(Bodies[c][v])
    BY DEF Store!HasBody, Elements
  <1>6. CASE def \in Elements(Bodies[c][v])
    BY <1>1, <1>2, <1>5, <1>6 DEF Whole, Elements
  <1>7. CASE def \notin Elements(Bodies[c][v])
    BY <1>1, <1>2, <1>3, <1>4, <1>5, <1>7 DEF Only, Found
  <1> QED
    BY <1>1, <1>2, <1>6, <1>7

\* What an analysis sees stays as it is while the analysis runs.
StaysOffered(r) ==
    proc[r].pc = "analyse" /\ proc'[r].pc = "analyse" =>
        /\ proc'[r].version = proc[r].version
        /\ \A c \in Uses[r] : meta'[c] = meta[c]

\* No step disturbs an analysis that runs before and after it.
LEMMA AnalysisIsUndisturbed ==
    ASSUME IInv, [Next]_vars, NEW r \in Crate
    PROVE  StaysOffered(r)
  <1>0. TypeOK
    BY DEF IInv
  <1>1. CASE UNCHANGED vars
    BY <1>1 DEF vars, StaysOffered
  <1>2. CASE StartBuild
    BY <1>0, <1>2 DEF StartBuild, StaysOffered, TypeOK, Idle
  <1>3. CASE EndBuild
    BY <1>3 DEF EndBuild, StaysOffered
  <1>4. ASSUME NEW c \in Crate, Edit(c) PROVE StaysOffered(r)
    BY <1>4 DEF Edit, StaysOffered
  <1>5. ASSUME NEW c \in Crate, Spawn(c) PROVE StaysOffered(r)
    BY <1>0, <1>5, SpawnShape DEF Spawn, StaysOffered, Becomes
  <1>6. ASSUME NEW c \in Crate, CreateFile(c) PROVE StaysOffered(r)
    BY <1>0, <1>6, CompilerShape DEF CreateFile, StaysOffered, Becomes, At
  <1>7. ASSUME NEW c \in Crate, WriteFile(c) PROVE StaysOffered(r)
    BY <1>0, <1>7, WriteFileShape DEF WriteFile, StaysOffered, Becomes, At
  <1>8. ASSUME NEW c \in Crate, EndDump(c) PROVE StaysOffered(r)
    <2>1. meta' = meta /\ proc[c].pc = "dump" /\ \A d \in Crate \ {c} : proc'[d] = proc[d]
      BY <1>0, <1>8, CompilerShape DEF EndDump, Becomes
    <2> QED
      BY <2>1 DEF StaysOffered
  <1>9. ASSUME NEW c \in Crate, EndAnalysis(c) PROVE StaysOffered(r)
    <2>1. meta' = meta /\ \A d \in Crate \ {c} : proc'[d] = proc[d]
      BY <1>0, <1>9, CompilerShape DEF EndAnalysis, Becomes
    <2>2. proc'[c].pc # "analyse"
      <3>1. proc'[c] \in {Idle, At("codegen", proc[c].version, proc[c].todo)}
        BY <1>0, <1>9, CompilerShape DEF Becomes
      <3> QED
        BY <3>1 DEF At, Idle
    <2> QED
      BY <2>1, <2>2 DEF StaysOffered
  <1>10. ASSUME NEW c \in Crate, WriteMetadata(c) PROVE StaysOffered(r)
    <2>1. proc[c].pc = "codegen" /\ \A d \in Crate \ {c} : proc'[d] = proc[d]
      BY <1>0, <1>10, CompilerShape DEF Becomes
    <2>2. meta' = [meta EXCEPT ![c] = proc[c].version]
      BY <1>10 DEF WriteMetadata
    <2>3. ASSUME proc[r].pc = "analyse" PROVE c \notin Uses[r] /\ r # c
      <3>1. proc[c] # Idle /\ proc[r] # Idle /\ r # c /\ c \in plan /\ building
        BY <1>0, <2>1, <2>3 DEF TypeOK, Idle
      <3>2. c \notin released
        BY <2>1 DEF IInv, CrateOK
      <3> QED
        BY <3>1, <3>2 DEF IInv, Order, InOrder
    <2>4. ASSUME proc[r].pc = "analyse", NEW d \in Uses[r] PROVE meta'[d] = meta[d]
      BY <1>0, <2>2, <2>3, <2>4, CrateAssumption DEF TypeOK
    <2> QED
      BY <2>1, <2>3, <2>4 DEF StaysOffered
  <1>11. ASSUME NEW c \in Crate, Finish(c) PROVE StaysOffered(r)
    BY <1>0, <1>11, CompilerShape DEF Finish, StaysOffered, Becomes, Idle
  <1>12. ASSUME NEW c \in Crate, Die(c) PROVE StaysOffered(r)
    BY <1>0, <1>12, CompilerShape DEF Die, StaysOffered, Becomes, Idle
  <1>13. ASSUME NEW s \in Crate, NEW c \in Crate, NEW def \in Def, Load(s, c, def) PROVE StaysOffered(r)
    BY <1>0, <1>13, FailShape DEF Load, StaysOffered, Becomes, Idle
  <1> QED
    BY <1>1, <1>2, <1>3, <1>4, <1>5, <1>6, <1>7, <1>8, <1>9, <1>10, <1>11, <1>12, <1>13
    DEF Next, Compile

\* What is offered to an analysis is withdrawn only when the analysis ends.
LEMMA OfferStands ==
    ASSUME IInv, [Next]_vars, NEW r \in Crate, Offered[r] # Store!NothingOffered
    PROVE  Offered'[r] \in {Offered[r], Store!NothingOffered}
  <1>1. proc[r].pc = "analyse"
    BY DEF Offered, Visible, Store!NothingOffered
  <1>2. CASE proc'[r].pc # "analyse"
    BY <1>2 DEF Offered, Visible, Store!NothingOffered
  <1>3. CASE proc'[r].pc = "analyse"
    <2>1. /\ proc'[r].version = proc[r].version
          /\ \A c \in Uses[r] : meta'[c] = meta[c]
      BY <1>1, <1>3, AnalysisIsUndisturbed DEF StaysOffered
    <2>2. \A c \in {r} \union Uses[r] : VersionFor(r, c)' = VersionFor(r, c)
      BY <2>1 DEF VersionFor
    <2> QED
      BY <1>1, <1>3, <2>2 DEF Offered, Visible
  <1> QED
    BY <1>2, <1>3

\* A load answers as the abstract store does.
LEMMA LoadIsLookup ==
    ASSUME CleanInv, PlainNames, NEW r \in Crate, NEW c \in Crate, NEW def \in Def, Load(r, c, def)
    PROVE  Store!Lookup(r, c, def)
  <1>1. proc[r].pc = "analyse" /\ c \in {r} \union Uses[r]
    BY DEF Load
  <1> DEFINE v == VersionFor(r, c)
  <1>2. v # 0 /\ Found(r, c, def) = IF Store!HasBody(c, v, def) THEN v ELSE Missing
    BY <1>1, AnswersAreRight
  <1>3. v \in Version
    BY <1>2 DEF CleanInv, IInv, TypeOK, VersionFor
  <1>4. Found(r, c, def) # Torn
    BY <1>2, <1>3, SourceAssumption DEF Version, Torn, Missing
  <1>5. UNCHANGED <<proc, meta>>
    BY <1>4 DEF Load
  <1>6. Offered' = Offered
    BY <1>5 DEF Offered, Visible, VersionFor
  <1>7. Offered[r][c] = v
    BY <1>1 DEF Offered, Visible
  <1>8. seen' = [reader |-> r, crate |-> c, def |-> def, answer |-> Found(r, c, def)]
    BY DEF Load
  <1> QED
    BY <1>2, <1>6, <1>7, <1>8 DEF Store!Lookup

\* Nothing but a load shows a body to anybody.
LEMMA OtherStepsKeepSeen ==
    ASSUME [Next]_vars
    PROVE  \/ seen' \in {seen, <<>>}
           \/ \E r, c \in Crate, def \in Def : Load(r, c, def)
  BY DEF Next, Compile, vars, StartBuild, EndBuild, Edit, Spawn, CreateFile, WriteFile, EndDump,
         EndAnalysis, WriteMetadata, Finish, Die

\* With PlainNames, and cargo clean before each build, an analysis sees one
\* version of each crate as long as it runs, and what it loads is the body
\* of that version, or the news that there is none.
THEOREM BodyCacheIsBodyStore == PlainNames /\ Cleans => (Spec => ImplementsBodyStore)
  <1> SUFFICES ASSUME PlainNames, Cleans PROVE Spec => ImplementsBodyStore
    OBVIOUS
  <1>1. Init => Store!Init
    BY DEF Init, Store!Init, Offered, Visible, Idle
  <1>2. CleanInv /\ [Next]_vars => [Store!Next]_<<Offered, seen>>
    <2> SUFFICES ASSUME CleanInv, [Next]_vars PROVE Store!Next
      OBVIOUS
    <2>1. CASE seen' \in {seen, <<>>}
      <3>1. \A r \in Crate : Offered[r] # Store!NothingOffered =>
                Offered'[r] \in {Offered[r], Store!NothingOffered}
        BY OfferStands DEF CleanInv
      <3>2. Store!Change
        BY <2>1, <3>1 DEF Store!Change
      <3> QED
        BY <3>2 DEF Store!Next
    <2>2. CASE \E r, c \in Crate, def \in Def : Load(r, c, def)
      BY <2>2, LoadIsLookup DEF Store!Next
    <2> QED
      BY <2>1, <2>2, OtherStepsKeepSeen
  <1>3. Spec => []CleanInv
    BY CleanInvariant
  <1> QED
    BY <1>1, <1>2, <1>3, PTL DEF Spec, ImplementsBodyStore, Store!Spec

=============================================================================
