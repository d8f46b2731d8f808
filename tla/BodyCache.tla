------------------------------ MODULE BodyCache ------------------------------
(***************************************************************************)
(* The files through which one compiler hands function bodies to another   *)
(* (body_cache/body_cache.rs, encoder.rs and the plugin's callbacks in     *)
(* scrutinizer/src/lib.rs).  cargo starts a compiler per crate, several at *)
(* once, each as soon as the metadata of what it uses is there.  Every     *)
(* compiler but a build script's dumps the bodies of its crate before      *)
(* anything else; that of a primary package then analyses the crate, and   *)
(* loads bodies of its own and of the crates it uses, before it writes     *)
(* metadata.  A compiler may die at any point; files stay.                 *)
(***************************************************************************)
EXTENDS Naturals, Sequences, FiniteSets

CONSTANTS
    Crate,        \* the crates of a build
    Uses,         \* Uses[c]: the crates c depends on, directly or not
    BuildScript,  \* crates named build_script_build
    Unnamed,      \* compilations without --crate-name
    Primary,      \* crates of packages named on cargo's command line
    LibNamed,     \* crates whose name starts with "lib"
    MaxVersion,   \* versions of a crate's source are 1..MaxVersion
    Bodies,       \* Bodies[c][v]: the functions with a body in version v of c
    Def,          \* the definitions
    Cleans        \* every build starts with cargo clean

ASSUME CrateAssumption ==
    /\ IsFiniteSet(Crate)
    /\ Uses \in [Crate -> SUBSET Crate]
    /\ \A c \in Crate : c \notin Uses[c] /\ \A d \in Uses[c] : Uses[d] \subseteq Uses[c]

ASSUME SourceAssumption ==
    /\ MaxVersion \in Nat \ {0}
    /\ Bodies \in [Crate -> [1..MaxVersion -> Seq(Def)]]
    /\ Cleans \in BOOLEAN

\* Nothing but a build script's own package depends on a build script, and
\* cargo names every crate it compiles.
ASSUME NamingAssumption ==
    \A c \in Crate : Uses[c] \cap (BuildScript \union Unnamed) = {}

VARIABLES
    source,    \* source[c]: the version of c's source on disk
    built,     \* built[c]: the version cargo knows to be compiled, or 0
    meta,      \* meta[c]: the version of the metadata on disk, or 0
    files,     \* files[dir][def]: what the file of a body holds
    proc,      \* proc[c]: the compiler of c
    plan,      \* the crates the running build has yet to compile
    released,  \* those of them whose metadata has been written in this build
    building,  \* cargo is running
    failed,    \* a compiler of this build has failed
    seen       \* what the last lookup of an analysis was for, and its answer

cargo == <<plan, released, building, failed>>
vars == <<source, built, meta, files, proc, cargo, seen>>

\* What a file may hold besides a version's body: it does not exist, or its
\* writer has not finished it.
Missing == MaxVersion + 1
Torn == MaxVersion + 2

Version == 1..MaxVersion
Contents == Version \union {Missing, Torn}

----------------------------------------------------------------------------
\* how_to_handle_this_crate.
Handling(c) ==
    CASE c \in BuildScript -> "JustCompile"
      [] c \in Primary \ BuildScript -> "Analyze"
      [] c \in Crate \ (BuildScript \union Primary \union Unnamed) -> "CompileAndDump"
      [] OTHER -> "JustCompile"

\* Mutant: the prefix is forgotten where bodies are written.
LocalDir_Bare(c) == [crate |-> c, prefixed |-> FALSE]

\* A directory is named after its crate, prefixed with "lib" or not.  The
\* compiler of c prefixes unless the name starts with "lib" already ...
LocalDir(c) == [crate |-> c, prefixed |-> c \notin LibNamed]

\* ... while the library of another crate is always prefixed.
RemoteDir(c) == [crate |-> c, prefixed |-> TRUE]

Dir == [crate : Crate, prefixed : BOOLEAN]

\* local_or_remote_paths.
DirFor(reader, c) == IF reader = c THEN LocalDir(c) ELSE RemoteDir(c)

Empty == [dir \in Dir |-> [def \in Def |-> Missing]]
Phase == {"idle", "dump", "write", "analyse", "codegen", "rest"}
Idle == [pc |-> "idle", version |-> 0, todo |-> <<>>]

Dependents(c) == {d \in Crate : c \in Uses[d]}
Dirty == {c \in Crate : built[c] # source[c]}

----------------------------------------------------------------------------
Init ==
    /\ source = [c \in Crate |-> 1]
    /\ built = [c \in Crate |-> 0]
    /\ meta = [c \in Crate |-> 0]
    /\ files = Empty
    /\ proc = [c \in Crate |-> Idle]
    /\ plan = {}
    /\ released = {}
    /\ building = FALSE
    /\ failed = FALSE
    /\ seen = <<>>

\* The source changes, during a build too.
Edit(c) ==
    /\ source[c] < MaxVersion
    /\ source' = [source EXCEPT ![c] = @ + 1]
    /\ UNCHANGED <<built, meta, files, proc, cargo, seen>>

\* cargo compiles what has changed and what depends on it.
StartBuild ==
    /\ ~building
    /\ building' = TRUE
    /\ failed' = FALSE
    /\ released' = {}
    /\ IF Cleans
       THEN /\ files' = Empty
            /\ built' = [c \in Crate |-> 0]
            /\ meta' = [c \in Crate |-> 0]
            /\ plan' = Crate
       ELSE /\ plan' = Dirty \union UNION {Dependents(c) : c \in Dirty}
            /\ UNCHANGED <<files, built, meta>>
    /\ UNCHANGED <<source, proc, seen>>

\* Mutant: compilers are started although one has failed.
Spawn_KeepGoing(c) ==
    /\ building
    /\ c \in plan \ released
    /\ proc[c] = Idle
    /\ Uses[c] \cap plan \subseteq released
    /\ proc' = [proc EXCEPT ![c] =
                  [pc      |-> "dump",
                   version |-> source[c],
                   todo    |-> IF Handling(c) = "JustCompile" THEN <<>> ELSE Bodies[c][source[c]]]]
    /\ built' = [d \in Crate |-> IF d \in {c} \union Dependents(c) THEN 0 ELSE built[d]]
    /\ UNCHANGED <<source, meta, files, cargo, seen>>

\* A compiler starts once the metadata of all the crate uses is up to date.
Spawn(c) ==
    /\ building
    /\ ~failed
    /\ c \in plan \ released
    /\ proc[c] = Idle
    /\ Uses[c] \cap plan \subseteq released
    /\ proc' = [proc EXCEPT ![c] =
                  [pc      |-> "dump",
                   version |-> source[c],
                   todo    |-> IF Handling(c) = "JustCompile" THEN <<>> ELSE Bodies[c][source[c]]]]
    /\ built' = [d \in Crate |-> IF d \in {c} \union Dependents(c) THEN 0 ELSE built[d]]
    /\ UNCHANGED <<source, meta, files, cargo, seen>>

Step(c, from, to) == proc[c].pc = from /\ proc' = [proc EXCEPT ![c].pc = to]

\* dump_mir_and_borrowck_facts, one function at a time: its file is created,
\* or emptied ...
CreateFile(c) ==
    /\ proc[c].todo # <<>>
    /\ Step(c, "dump", "write")
    /\ files' = [files EXCEPT ![LocalDir(c)][Head(proc[c].todo)] = Torn]
    /\ UNCHANGED <<source, built, meta, cargo, seen>>

\* ... and written to its end.
WriteFile(c) ==
    /\ proc[c].pc = "write"
    /\ proc' = [proc EXCEPT ![c] =
                  [pc |-> "dump", version |-> @.version, todo |-> Tail(@.todo)]]
    /\ files' = [files EXCEPT ![LocalDir(c)][Head(proc[c].todo)] = proc[c].version]
    /\ UNCHANGED <<source, built, meta, cargo, seen>>

\* Mutant: the compiler goes on while bodies are still being dumped.
EndDump_Early(c) ==
    /\ Step(c, "dump", IF Handling(c) = "Analyze" THEN "analyse" ELSE "codegen")
    /\ UNCHANGED <<source, built, meta, files, cargo, seen>>

\* after_expansion is over.
EndDump(c) ==
    /\ proc[c].todo = <<>>
    /\ Step(c, "dump", IF Handling(c) = "Analyze" THEN "analyse" ELSE "codegen")
    /\ UNCHANGED <<source, built, meta, files, cargo, seen>>

Fail(c) == proc' = [proc EXCEPT ![c] = Idle] /\ failed' = TRUE

Found(r, c, def) == files[DirFor(r, c)][def]

\* load_body_and_facts during an analysis.
Load(r, c, def) ==
    /\ proc[r].pc = "analyse"
    /\ c \in {r} \union Uses[r]
    /\ seen' = [reader |-> r, crate |-> c, def |-> def, answer |-> Found(r, c, def)]
    \* The decoder runs out of bytes and panics.
    /\ IF Found(r, c, def) = Torn THEN Fail(r) ELSE UNCHANGED <<proc, failed>>
    /\ UNCHANGED <<source, built, meta, files, plan, released, building>>

\* after_analysis: a wrong annotation makes the compiler exit at once.
EndAnalysis(c) ==
    /\ proc[c].pc = "analyse"
    /\ \/ Step(c, "analyse", "codegen") /\ failed' = failed
       \/ Fail(c)
    /\ seen' = <<>>
    /\ UNCHANGED <<source, built, meta, files, plan, released, building>>

\* The compiler writes metadata and goes on.
WriteMetadata(c) ==
    /\ proc[c].pc = "codegen"
    /\ proc' = [proc EXCEPT ![c].pc = "rest"]
    /\ meta' = [meta EXCEPT ![c] = proc[c].version]
    /\ released' = released \union {c}
    /\ UNCHANGED <<source, built, files, plan, building, failed, seen>>

Finish(c) ==
    /\ proc[c].pc = "rest"
    /\ proc' = [proc EXCEPT ![c] = Idle]
    /\ built' = [built EXCEPT ![c] = proc[c].version]
    /\ plan' = plan \ {c}
    /\ UNCHANGED <<source, meta, files, released, building, failed, seen>>

\* A compile error, a panic or a signal.
Die(c) ==
    /\ proc[c] # Idle
    /\ Fail(c)
    /\ seen' = <<>>
    /\ UNCHANGED <<source, built, meta, files, plan, released, building>>

\* Mutant: a failed build does not wait for the compilers that still run.
EndBuild_Eager ==
    /\ building
    /\ failed \/ plan = {}
    /\ building' = FALSE
    /\ UNCHANGED <<source, built, meta, files, proc, plan, released, failed, seen>>

EndBuild ==
    /\ building
    /\ \A c \in Crate : proc[c] = Idle
    /\ failed \/ plan = {}
    /\ building' = FALSE
    /\ UNCHANGED <<source, built, meta, files, proc, plan, released, failed, seen>>

\* The steps a compiler takes by itself.
Compile(c) ==
    CreateFile(c) \/ WriteFile(c) \/ EndDump(c) \/ EndAnalysis(c) \/ WriteMetadata(c) \/ Finish(c)

Next ==
    \/ StartBuild \/ EndBuild
    \/ \E c \in Crate : Edit(c) \/ Spawn(c) \/ Compile(c) \/ Die(c)
    \/ \E r, c \in Crate, def \in Def : Load(r, c, def)

Spec == Init /\ [][Next]_vars

\* A compiler that runs makes progress and its analysis ends; cargo starts
\* what it can start and notices the end.
FairSpec ==
    /\ Spec
    /\ \A c \in Crate : WF_vars(Compile(c)) /\ WF_vars(Spawn(c))
    /\ WF_vars(EndBuild)

----------------------------------------------------------------------------
(* Properties.                                                             *)

\* Compilers run only while cargo does, have only functions of their crate
\* left to dump and stand behind the version they were started on.
TypeOK ==
    /\ source \in [Crate -> Version]
    /\ built \in [Crate -> Version \union {0}]
    /\ meta \in [Crate -> Version \union {0}]
    /\ files \in [Dir -> [Def -> Contents]]
    /\ proc \in [Crate -> [pc : Phase, version : Version \union {0}, todo : Seq(Def)]]
    /\ \A c \in Crate :
          /\ proc[c] # Idle => building /\ c \in plan /\ proc[c].version \in Version
          /\ proc[c].pc = "write" => proc[c].todo # <<>>
    /\ plan \subseteq Crate
    /\ released \subseteq plan \union {c \in Crate : built[c] # 0}
    /\ building \in BOOLEAN
    /\ failed \in BOOLEAN

\* The crates a running analysis may load bodies of, and their version in
\* its eyes: its own source, and metadata of the others.
Visible(r) == IF proc[r].pc = "analyse" THEN {r} \union Uses[r] ELSE {}
VersionFor(r, c) == IF r = c THEN proc[r].version ELSE meta[c]

Whole(r, c) ==
    \A k \in DOMAIN Bodies[c][VersionFor(r, c)] :
        Found(r, c, Bodies[c][VersionFor(r, c)][k]) = VersionFor(r, c)

\* Whatever an analysis finds a body for by its metadata has been dumped, to
\* the end, from the very source the metadata describes: although compilers
\* run side by side, die in the middle of a file and leave it behind, and
\* sources change under them.  So no load panics in the decoder, and none
\* answers with another version, unless the function has no body any more.
ReadableIsWhole == \A r \in Crate : \A c \in Visible(r) : VersionFor(r, c) # 0 /\ Whole(r, c)

\* What an analysis sees of the crates does not change while it runs, and
\* its loads answer accordingly: a function without a body has none to load.
Offered == [r \in Crate |-> [c \in Crate |-> IF c \in Visible(r) THEN VersionFor(r, c) ELSE 0]]
Store == INSTANCE BodyStore WITH offered <- Offered
ImplementsBodyStore == Store!Spec

\* A dumping compiler and one that loads agree on the name of the directory.
SameDirectory ==
    \A r \in Crate : \A c \in Visible(r), def \in Def :
        Found(r, c, def) = files[LocalDir(c)][def]

\* Every build ends, whoever fails: no compiler waits for ever for bodies or
\* metadata of another.
BuildEnds == building ~> ~building

=============================================================================
