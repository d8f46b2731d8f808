# A specification of Scrutinizer

Scrutinizer decides whether a Rust function leaks its arguments. It runs inside
rustc, over MIR: it collects every function a call may reach, following the
types that hide behind trait objects, and then judges the bodies it collected.
Bodies of other crates come from files that the compilers of those crates leave.
This directory holds TLA+ modules that model the plugin, its two analyses and
the body files, TLC configurations that check them on small programs and builds,
and TLAPS proofs about the plugin, the two analyses and the body files.

Paths below are relative to `src/scrutils/src/` unless they start with `src/`.

## The system

| Component | State | Operations | Hard part | Correct when |
|---|---|---|---|---|
| Tracked types (`common/tracked_ty.rs`, `arg_tys.rs`) | none | classify, join, map, spread, merge, extract substitutions | `join` is not symmetric; arity assumptions | a declared concrete type is never overridden |
| Collector domain (`collector/collector_domain.rs`, `has_tracked_ty.rs`) | types of places, calls, unhandled types | update and propagate, join, inject arguments and captures | unwraps on places that must exist; calls and types that grow alone must flow on | all states of a body agree on its places |
| Function storage (`common/function_info.rs`, `function_call.rs`, `storage/function.rs`) | vector of records, origin | insert without duplicates, lookups from the front | lookups are unwrapped; the analyzer recurses through them unguarded | every call of a record has an earlier record |
| Closure storage (`common/closure_info.rs`, `storage/closure.rs`, `collector/closure_collector.rs`) | instance and captured types per closure | update, collect from a body | shared by analyses that hold copies of it | captures only grow, the instance stays |
| Collector (`collector/collector.rs`, `structs/`) | a virtual stack, one dataflow state per nested analysis, both storages | transfer functions, resolution of calls, nested run, cache, recursion cut, shallow skip | a fixpoint whose transfer function runs further fixpoints and changes what it reads | it ends; no call site and no callee result is lost; storage is ordered |
| Analyzer (`analyzer/`) | passing and failing calls, dependencies | verdict per record, recursion over calls | termination and lookups rest on the storage order | an item passes exactly if all it reaches passes |
| Important locals (`important/`) | set of locals | seed from arguments, carry into a callee | closure calling convention; argument numbers | every local an important argument may reach is kept |
| Precheck (`precheck/`) | none | reject erased and mutable arguments | | nothing the collector cannot track reaches it |
| Selectors (`selector/`) | none | pick functions by attribute, or regions by use | doc comments are attributes too | each function has one job, with its annotation |
| Body cache (`body_cache/body_cache.rs`) | files per crate and definition | dump, load | compilers run side by side, fail and leave files | a body that is loaded is whole and of the version of the crate's metadata |
| Encoder (`body_cache/encoder.rs`) | shorthands of a writer and a reader, the reader's source map | write and read types, spans | jumps within the file; files found by name | what is read is what was written |
| Driver (`src/scrutinizer/src/lib.rs`) | configuration, jobs, results, exit code | select, analyse one by one, report | defaults and inputs that panic; storages per function | every selected function gets one result, and what is accepted does not leak |
| Command line tools, test crate, scripts | | | | |

The driver's `after_expansion` dumps bodies into the body cache and
`after_analysis` runs, per selected function: precheck, collector, important
locals, analyzer. The collector asks the body cache whether a definition's body
can be loaded. It hands both storages to the analyzer, which reads them only.
There are no threads, messages or timeouts in one compiler process; concurrency
is between the processes cargo starts, and only the body cache is exposed to it.
What makes the collector hard is re-entrancy: a transfer function that starts
another analysis, both of them writing the shared storages the first one goes on
to read. `PROJECT.json` lists the hazards at their lines.

## Modules

| Module | Models | Notes |
|---|---|---|
| `TrackedTy` | tracked types and argument types | types are an abstract set; the queries to the compiler are constants |
| `CollectorDomain` | the dataflow domain, tracked types of operands and rvalues | a place is the sequence of its local and projections, as `NormalizedPlace` compares places |
| `FunctionInfo` | records, calls and the function storage | bodies, spans and serialisation are left out |
| `CallLog` | abstract specification: what the analyzer may rely on | append-only, no duplicates, callees first |
| `ClosureInfo` | the closure storage | |
| `Collector` | the collector, composed of all of the above | implements `CallLog` |
| `ImportantLocals` | seeding and transition of important locals | dependence within a body is flowistry's, a constant |
| `Heuristics` | raw pointer writes, transmutes, crates called | over the bodies of `Collector` |
| `Judgement` | what is decided about one record | excuses, suspicions, callees |
| `PurityVerdict` | abstract specification: what a verdict means | knows visits, not the recursion |
| `Analyzer` | the analyzer, composed of the last four and the storage | implements `PurityVerdict` |
| `Execution` | reference: a run of the program that is analysed | not code of the repository; what its verdicts are about |
| `Scrutinizer` | driver, selectors and precheck, composed of `Collector`, `Analyzer` and `Execution` | one thread; the storages of one function at a time |
| `BodyStore` | abstract specification: what an analysis may rely on when it loads bodies | |
| `BodyCache` | files of bodies, the compilers that write and read them, cargo | implements `BodyStore` |
| `Encoder` | types and spans in a body file | |
| `FunctionInfoProofs` | lemmas about sequences and the function storage | used by all proofs about analyses |
| `CollectorProofs`, `RecordsProofs` | theorems about the collector | storage order and tracked types; then what the records hold |
| `AnalyzerProofs`, `ReachedProofs` | theorems about the analyzer | recursion and refinement; reports |
| `ScrutinizerProofs` | theorems about the plugin | extends `RecordsProofs` |
| `BodyCacheProofs` | theorems about the body files | |
| `EncoderProofs` | theorems about their format | |
| `MCCollector`, `MCCallGraphs`, `MCAnalyzer`, `MCScrutinizer`, `MCBodyCache`, `MCEncoder` | programs, storages, crates and files for TLC | |

### Collector

`frames` is the recursion of `run()`: one record per nested analysis, innermost
last. The code's virtual stack holds one item per frame, so it is read off
`frames` (`StackItem`). `fns` and `closures` are the two shared storages,
`origin` the function the analysis was started for, `status` is "panicked" once
an `unwrap` or `assert` of the code fails.

| Frame field | Code |
|---|---|
| `fn` | `current_function`: instance, tracked arguments, captured types |
| `phase` | whether `iterate_to_fixpoint` or the results cursor is at work |
| `entry`, `queue` | the engine's entry sets and work queue |
| `bb`, `i`, `pc` | the block, the statement, and what happens next |
| `st` | the state the transfer functions write |
| `out` | successors the state has yet to flow into |
| `acc` | the join of block-end states in `run()` |
| `todo`, `tys` | plausible functions of the current call not processed yet, its argument types |

| Action | Code |
|---|---|
| `Init` | `collect()` up to the first `run()` |
| `PickBlock`, `FlowOut`, `LeaveBlock` | the fixpoint engine |
| `SeekBlock`, `Accumulate` | the cursor's second pass over every block (collector.rs:119-130) |
| `Assign`, `SkipStatement` | `apply_statement_effect` |
| `SkipTerminator` | terminators that call nothing, drops without a destructor |
| `SkipForeignCall`, `CallUnhandled`, `CallUnresolved`, `CallResolved` | `process_call` up to its loop |
| `SkipRepeated`, `CallBodyless`, `CallCached`, `Enter` | one round of the loop over plausible functions |
| `Return` | the end of a nested `run()` with what the caller does with it |
| `Finish` | the end of `collect()` |
| `Panic` | a failing `unwrap` or `assert` of the step that is next |

The plausible functions are a `Vec` built from hash sets, in no fixed order, so
`todo` is a set and the order a choice. The body of a plausible function is
unwrapped when it is entered: a function without one (`blocks` empty) panics.
A definition without parameters has no plausible instances. A virtual instance
is met only for a trait method with a default body, whose MIR can be loaded.

What an argument may be flows into all places inside it (`ArgPaths`). The place
of a captured variable is made up with a field of type (), inside which the code
finds nothing: a capture flows into that place and through one dereference
(`UpvarPaths`). A closure that is created again must capture as many variables
(`CanUpdateClosure`).

The programs are data: `Program[i]` (`Fn` for short) gives each instance its definition, kind,
declared types of places, and blocks with statements and a terminator. rustc is
external: `Instance::resolve` is `InstanceOf`, signatures are `Generics`, the
set of loadable bodies is `Mir`, and type construction and projection are
`Construct`, `Component`, `TupleTy`, `TupleFields` and `Peel`. `RvalueTy` keeps
one kind per way in which the code computes a type (passes it on, wraps it,
reads it off the statement, builds a tuple).

### Analyzer

`stack` is the recursion of `analyze_item`: a record by its index, the important
locals it is looked at with, whether its calls are being followed, the calls
left (`todo`) and whether those followed all passed (`clean`). `passing`,
`failing` and `deps` are the code's; `verdict` is what `run` returns, or
"panicked".

| Action | Code |
|---|---|
| `Begin` | `run()` unwraps the origin's record and enters it |
| `Excuse` | the early pass: no important locals, allowlisted, trusted (analyzer.rs:68-77) |
| `Open` | the body is searched, the calls are taken up (78-99) |
| `Follow` | one call: transition of important locals, lookup, entry (99-113) |
| `Judge` | all calls are back: the record passes or fails (116-142) |
| `Panic` | a failing `unwrap`, a closure called with operands nobody expects, a dependence that is not implemented, an overflow in `contains_mut_ref` |

A set of calls is visited in any order. Excuses and suspicions are functions of
one record and live in `Judgement`. Allowlist and trusted library are the sets
of definitions their regular expressions match. `contains_mut_ref` descends into
fields without a memory, so a type that contains itself overflows the stack
(`Unbounded`: a descent longer than there are types). `PurityVerdict` says what
any analyzer should do: let a visit pass only if it is excused or clean with
callees that passed, fail it only for a reason, and conclude with the origin.
The mapping reads the visits off the reports.

### Scrutinizer and Execution

`stage` says where `after_analysis` is, `queue` is the iterator over the selected
functions (its head is the one under analysis), `results` what `collect()` has
gathered, `exit` the compiler's exit code. The variables of `Collector` and
`Analyzer` are those of the function at hand and go back to nothing when it is
done (`Discard`); `fns` is one variable for both, which is the handover of the
storage.

| Action | Code |
|---|---|
| `Select` | `scrutinizer()` up to its filter; `select_functions`, `select_pprs` |
| `Refuse` | a precheck that fails, with the result made of it |
| `StartCollector`, `Collect` | `Collector::collect`, the steps being `Collector`'s `Next` |
| `HandOver` | important arguments, their locals, the configured expressions (lib.rs:326-356) |
| `Judge` | `run_analysis`, the steps being `Analyzer`'s `Next` |
| `Conclude` | the result, kept or filtered (290-299) |
| `Report` | the report is written, the exit code decided (241-266) |
| `Abort` | any panic on the way: an unknown mode, a region that is no closure, an expression that does not compile, an argument number the body does not have, a panic of the collector or the analyzer |
| `RunProgram` | a function that was accepted is run |

What the filter matches is a set of definitions, and a configured expression
compiles or does not. `mir_keys` and the items of the crate are sequences of
what the selectors look at. flowistry is free to ignore or to choke on an
argument number that is too large, so both happen.

`Execution` is the reference for what a verdict claims: it runs the same bodies
with values in their places, each of one type, written and overwritten, while
`Collector` joins. Branches go either way, a trait method is that of the type
behind the reference, and a drop runs the destructors of fields too (`glue`,
which the collector does not look at). Which locals hold protected data is
flowistry's answer, as in the analyzer. A run leaks when it hands such a local
to a function without a body that is not allowlisted, or to a function pointer.
Programs do not write through references, and a closure is called with the
captures made last; recursion is bounded by `MaxDepth`.

### BodyCache

One record per crate in `proc` is the compiler cargo runs for it: `pc` (dump,
write, analyse, codegen, rest), the version of the source it reads and the
functions left to dump. `files[dir][def]` is what a body file holds: a version,
nothing, or what a writer has not finished. `meta` and `built` are the metadata
on disk and what cargo believes to be compiled; `plan`, `released`, `building`
and `failed` are the running build.

| Action | Code |
|---|---|
| `Spawn` | `RustcPlugin::run`, with `how_to_handle_this_crate` deciding what is dumped and analysed |
| `CreateFile`, `WriteFile` | `visit_fn`: `FileEncoder::new` truncates, `finish` flushes; an unfinished file is `Torn` for as long |
| `EndDump` | `after_expansion` returns |
| `Load` | `load_body_and_facts`; a missing file is an error the caller sees, a torn one a panic of the decoder |
| `EndAnalysis` | `after_analysis` returns, or exits for a wrong annotation |
| `WriteMetadata`, `Finish` | rustc goes on; its dependents may start after the first of them |
| `Die` | a compile error, a panic, a signal, at any point |
| `StartBuild`, `EndBuild`, `Edit` | cargo and the user, external |

cargo starts a compiler when the metadata of all it uses has been written in
this build or is up to date, and none after one has failed; it waits for those
that run. Nothing is locked but by that order. Versions stand for sources, and
a crate may have functions in one version that the other does not have. The
body that `is_mir_available` finds missing makes the collector record a call
without a body, silently, or, if the types of the arguments suggest an instance
of a generic function, panic when it loads it; which is why a directory that is
looked for under another name matters.

### Encoder

`tape` is the file, one cell per span or per node of a type; a shorthand is a
cell that points back (`at`). `types` is `type_shorthands`, `shorts`
`shorthand_map`, `files` the reader's source map, in which each file has the
positions after those before it.

Writer and reader recurse over types, through rustc's codec of types; `writing`
and `stack` are their calls, the one for the body first. The writer's are begun
by `BeginType` and ended by `EndType`, which remembers where the type is. The
reader has two kinds of calls: for a type that is written out (`ReadHead`,
`EndHead`), and for one that is pointed at (`Jump`, `EndJump`), which is
`cached_ty_for_shorthand` around `with_position`. rustc remembers a type only if
pointing back at it would take no more room than it took, which depends on lengths
in bytes that the model does not have: `EndType` may remember any type or not.

A span's cell has the crate and the name of its file, and where in it the span
is (`SpanCell`). `Import` is rustc coming across a file of another crate at any
moment. `Matching`, `CanLoad` and `Located` are the search for the file,
`ReadSpan` and `Panic` the outcome. `text` is what a file's positions mean and is
looked at by the properties only.

## Runs

All of them explore every order of plausible callees, or of calls.

| Run | Instance | Shows |
|---|---|---|
| `library` | twelve origins, eleven after `test-crate/src/tests` and one that panics, 898 states | every property below, deadlock and liveness included |
| `call_graphs` | 150 programs: main calls two functions in a loop, each of which may call itself, the other, main or a trait method, with its own trait object or another; 19698 states | storage order, coverage of call sites, the second pass, the origin's record, under every kind of recursion |
| `analyzer` | 1456 storages: each pair of fourteen kinds of leaf (plain, writing or reborrowing through a raw pointer, transmutes to a mutable reference, to a plain and to a recursive type, unhandled calls, trusted with either kind of self, allowlisted, without a body, a constructor, a closure, one flowistry's answer is not handled for), below a chain and below an instance with two records, with an important or an unimportant operand and one or two important arguments; 33348 states | the verdict and the reports, the refinement, deadlock |
| `shallow` | the library with `pick` outside the crate | what the shallow option leaves in the storage |
| `stale_cache` | two origins that call one function with two types | a finding |
| `driver` | fifteen items and three bodies with regions, nine configurations (both modes and none, filters, important arguments that exist or not, an expression that does not compile, inconsistent results only); 3673 states | the driver's properties, deadlock and liveness included |
| `drop_glue`, `swapped_recursion` | one function each | findings |
| `body_cache` | a dependency, a library and an application, both analysed, the second named lib*; two versions of each, no cargo clean; 107380 states | what can be loaded is whole and of its version; builds end |
| `clean_build` | an application with two dependencies, and a build script; cargo clean before each build; 117690 states | the refinement of `BodyStore` |
| `lib_prefix` | a dependency whose name starts with lib | a finding |
| `encoder` | sequences of up to three spans (in each of the writer's four files, across two of them, dummies) and references, or of up to three types that share parts, each remembered or not; four files, three that are imported at any time; 1922107 states | the format |

The library has at most twenty functions, five blocks per body and two types
behind a trait object. These are enough for what can go wrong: two types are
needed to tell a lost one, three frames for mutual recursion beside the origin,
one loop to make the fixpoint go round with a state that grew, and two calls of
one function to use the cache. There are no other bounds: storages, stack and
states are bounded by the program, which is what `Termination` says.

In `driver`, runs recurse at most six deep (`MaxDepth`), twice what is needed for
a recursive function to call itself with other arguments and back. In the
builds, two versions are enough for a body of one to be met by metadata of the
other, three crates in a chain for one that is compiled while what it uses is
being read, and the forked build for two dumping compilers side by side. There
is no bound on the number of builds. Three values in a file are one span or type
before and one after whatever may go wrong with the position. Spans are mixed with
one type that may be pointed at, and the larger types, the largest of which has two
levels of shorthands, with each other: each type that is written may be remembered
or not, which doubles what follows.

Properties:

- `TypeOK`: above all, all domain values of a body agree on its places.
- `StorageOrdered`, `LiveCallsAnswered`, `ImplementsCallLog`: a call is recorded
  only after its callee; `get_by_call` finds it and the analyzer's recursion ends.
- `SitesCovered`: when a body's analysis ends, each call site is in the result
  with every function it may be dispatched to, given the types of its operands at
  the terminator: what the block's statements (`StateAt`) make of the entry state
  the fixpoint has left. A site with no candidate, or with a closure
  that has not been created yet, is there without a body.
- `RecordsAreComplete`: no record is stored with a call site missing, in any block.
  It is about the storage, where `SitesCovered` is about results, and asks less of a
  site: one of the functions the call may end up in, whatever the types.
- `ResultsFlow`: each call of a record is made at a terminator of its body that may
  make it, and what the callee's own record says of its result has reached the
  destination there. (A result that the recursion cut withholds has no call.)
- `CursorWithinFixpoint`: the second pass sees no more than the fixpoint handed on.
- `DeclaredTypesStand`: concrete declared types are never overridden.
- `OriginLast`: the first record of the origin is the last record stored.
- `OnlyBadCastPanics`: no `unwrap` or `assert` fails, but for a function pointer
  place that a reference was transmuted into: `propagate` then looks for a
  dereference the body does not know.
- `ClosuresGrow`: captured types are never forgotten, the instance never changes.
- `ShallowStaysLocal`: no foreign function is recorded in shallow mode.
- `Termination`: every analysis by the collector ends. Fairness is `WF_vars(Next)`: the collector
  is one thread that does nothing but run, so it takes some step while one is
  enabled; no choice among steps is assumed to be fair.

- `StackDescends`: the analyzer's recursion goes down the storage, whichever of
  several records a call finds; with `todo` shrinking, this is why it ends (a
  liveness property would repeat it).
- `PureIffNoFailure`, `ImplementsVerdict`: failures reach the verdict, and every
  judgement has its reason.
- `ReportsWhatIsReached`: passing and failing calls are exactly the visits
  reachable through records that are not excused, each judged by whether
  something suspicious is reachable from it. The reference is a fixpoint over
  the storage, without a stack or an order.
- `PanicsForAReason`: what makes the analyzer give up is something it had to
  look at.
- `ImportanceMonotone`: with fewer important arguments a pure function stays pure.
- `DepsCoverReports`: the crates called from the body of a reported function are
  listed, and in the end those called from what is reachable and no others. (The
  crate of a function itself is listed if something reachable calls it.)

- `AcceptedDoesNotLeak`: no run of a function with a result that says pure, or
  with an annotation that the compiler let pass, leaks. It relates the whole
  chain (collection, judgement, report) to what the code does when it runs.
- `PanicsOnBadInputOnly`: the plugin takes a compiler down only if the
  configuration or a region is wrong. `Analyzer` alone assumes its storage; here it gets the
  collector's.
- `DriverTypeOK`: each part works in its stage, on the function whose turn it is,
  and starts from nothing.
- `ResultsFollowSelection`: one result per selected function, in order, with
  its annotation; only consistent ones are left out, if asked for (the results
  listed are then in the order of distinct jobs).
- `HandedIsComplete`: the storage the analyzer is given has the origin's record, which no
  other one hides, and an earlier answer to every call: what `Analyzer` assumes
  when it is checked and proved about alone (`HandedAssumption`).
- `DriverEnds`: the plugin comes to an end. Fairness is `WF_all(Drive)`: one
  thread that keeps running.
- `ReadableIsWhole`: what an analysis finds a body for by the metadata it has was
  dumped to its end from the source of that metadata.
- `ImplementsBodyStore`: an analysis sees one version of each crate as long as it
  runs and its lookups answer for that version.
- `BuildEnds`: every build ends, whoever fails. Fairness: weak for each
  compiler's own steps (a process that runs makes progress; the analysis ends, by
  `DriverEnds`), for the start of a compiler that can be started and for cargo noticing the end. Nothing
  is assumed of edits, failures or new builds.
- `ReadsWhatWasWritten`: every type and every span means what it meant in the
  compiler that wrote it; a span across files becomes a dummy, and so may the empty
  span at the very start of a file, if the reader has that file at position 0.
  The reader ends where the file ends.
- `NoPanicWithoutReason`: the reader gives up only on a file that is nowhere, or
  that two loaded files could be.
- `OneJump`: a shorthand is never followed while another is, however deep types are
  shared, because what is followed is remembered.

`SitesCovered` exempts calls into functions that are still under analysis (the
recursion cut records nothing for them), and it speaks of the types that reached
the block, which a stale cached result may have made too few. Both exemptions are
findings below.

`ImplementsBodyStore` is checked with cargo clean, as `scripts/scrutinizer-run`
does. Without it a function that has lost its body keeps its file, and a lookup
finds what should be missing; `ReadableIsWhole`, which says nothing of such
files, holds either way.

## Findings

| Run | What the code does |
|---|---|
| `stale_cache` | `run()` looks a callee up by instance (collector.rs:95), so a second call with other types behind a trait object gets the first call's result; the targets only the second call dispatches to are never analysed (`CacheCoversCallee`) |
| `swapped_recursion` | a recursive call is skipped if definition and types repeat (193), but it may pass protected data in another argument than the call under analysis; `swap(a, b) { if .. { swap(b, a) } print(b) }` is judged with `a` important only |
| `drop_glue` | a drop is followed into the type's own destructor (393), not into those of its fields |
| `lib_prefix` | the bodies of a crate named lib* are dumped where no other compiler looks; its functions are taken for functions without a body, and the generic ones, resolved from argument types, end in the unwrap of `substituted_mir` |

The `driver` run leaves programs that meet these findings out of its crate, so
`AcceptedDoesNotLeak` says that, as far as these programs go, nothing else leaks.

Two more limits have no run of their own. The mode defaults to "functions"
(lib.rs:49), which is not a mode (274-280); the `driver` run has a configuration
with it, and the plugin panics. A span's file is matched by the end of its path
among the files loaded so far (encoder.rs:332-343); the files of `MCEncoder` have
no two of one crate with such paths, which `FilesAgree` states. With a `vendor/src/lib.rs` beside a
`src/lib.rs` that has not been loaded, the span is read as one of the former, and
`ReadsWhatWasWritten` fails.

A function that is entered again for the same instance with other types, while
the first analysis is still running, leaves two records; the inner one comes
first and is the one lookups find.

## Proofs

### Collector

`CollectorProofs` proves, for every program that meets `ProgramAssumption` (its
blocks, callees, captured places, closure instances and the places results are
assigned to exist) and every compiler
that answers within it (`ResolutionAssumption`):

- `TypeCorrect`: `Spec => []TypeOK`
- `StorageIsOrdered`: `Spec => []StorageOrdered`
- `LiveCallsAreAnswered`: `Spec => []LiveCallsAnswered`
- `CollectorIsCallLog`: `Spec => ImplementsCallLog`

The storage order is not inductive. A record is stored from a dataflow state, so
all calls such a state holds must be answered already; states are made of
states by joins, of frames that are entered, flow, and return, and of cached
records. The inductive invariant is `IInv == TypeOK /\ StorageOrdered /\
LiveCallsAnswered`: the order is needed in turn for the calls of cached records,
`LiveCallsAnswered` for the order, and `TypeOK` for both (which blocks have an
entry state, which frames exist). Every step is classified three ways: what it
does to frames (`FramesStep`: each frame of the new stack is well-formed and
holds old or answered calls), to the storage (`StorageStep`: nothing, or the
insertion of a record whose calls are answered), and to the closure storage.
`NextIInv` puts the three together.

From `OriginAssumption` as well (the declared types of an origin's places fit
each other) follow:

- `DeclaredTypesHold`: `Spec => []DeclaredTypesStand`
- `CapturesAreKept`: `Spec => ClosuresGrow`

`DeclaredTypesStand` speaks of the current states; these are taken from the
engine's entry states and flow into them and into the cursor's result, so
`TypesInv` says the same of all of them. Nothing has to be known
of the types that flow in but that they are types of the program: all writes go
through `join`, which keeps its left side if that is `Present`. It is not
symmetric (tracked_ty.rs:50), which does no harm as long as each state, whichever
of two is joined into the other, has the declarations in it to begin with
(`BottomStands`). `ClosuresGrow` needs that joins absorb what was
joined before, which holds of `Present` types and of `Erased` ones that are
nothing but their sets; `CapturesTracked` says that captures are one of the two,
which `TypesInv` says of the places they come from.

`RecordsProofs` is about what ends up in the storage:

- `NoCallIsLost`: `Spec => RecordsAreComplete`
- `SitesAreCovered`: `Spec => []SitesCovered`
- `ResultsArrive`: `Spec => []ResultsFlow`
- `OriginIsLast`: `Spec => [](Proper(origin) => OriginLast)`
- `ShallowRecordsLocal`: `CrateIsClosed` implies `Spec => []ShallowStaysLocal`

For the first two the invariant (`SitesInv`) follows the cursor: the sites of
the blocks behind it are settled in the accumulated result, the one at hand
in the state or by the callees still to be dealt with (`FrameSites`, `Settled`), while
functions that are under analysis below account for what the recursion cut
skips. The fixpoint adds nothing to it: the cursor applies every terminator once
more, in unreachable blocks too. That the call was resolved with the types
`SitesCovered` names takes the invariant statement by statement: within a block the
state is what the statements so far make of the entry state (`Evaluated`,
`StateAfter`), and in the final pass the entry states no longer change.

`ResultsArrive` is the converse, call by call: `FlowInv` says of the calls of
all states of all frames what `ResultsFlow` says of records. The result is
written when the call is recorded; after that it stays, as an update or a join
forgets nothing that a place has seen (`UpdateSees`, `JoinSees`). As `join` keeps its
left side when that is `Present`, this needs that all states agree on the declared
places, which is `TypesInv`. The call is made at the terminator the caller is at
because the callees a frame has left are those that terminator may call
(`TodoAtSite`), and each function under analysis is one that the frame below has
left.

`OriginIsLast` rests on the recursion cut: a
call of the origin is made at the types the origin declares
(`OriginCalledAsDeclared`), so it meets its own item at the bottom of the stack
and is never entered (`OriginInv`). This is where `SignatureAssumption` is needed
(what may call an origin passes as many arguments as it declares), and that
precheck refuses arguments without a concrete type: an origin that could be
called with other types would be entered again. `Proper` leaves closures out:
their arguments come in a tuple, whose arity is that of a run-time type. For
`ShallowRecordsLocal`, `CrateIsClosed` says that the origins, and what an item
of the crate is resolved to, are in the crate; `ClosuresAreKnown` covers closures.

`FunctionInfoProofs` has what these rest on: insertion extends the storage and
keeps its answers and its order, and a lookup returns the first answer
(the lemma `LookupFinds`).

### Analyzer

`AnalyzerProofs` proves, for all storages in which every call has an earlier
answer (`HandedAssumption`, which is what `CallLog` and `OriginLast` promise),
all bodies, heuristics' verdicts and answers of flowistry:

- `AnalyzerTypeCorrect`: `Spec => []TypeOK`
- `RecursionDescends`: `Spec => []StackDescends`
- `FailureDecides`: `Spec => []PureIffNoFailure`
- `LookupsSucceed`: no lookup that is unwrapped fails
- `AnalyzerImplementsVerdict`: `Spec => ImplementsVerdict`

The invariant (`IInv`) adds to the properties: the bottom of the stack is the
origin's visit (`BottomIsRoot`; with the descent, only the last return decides
the verdict), only the top is new (`OnlyTopIsNew`), a failure is held against
some visit on the stack as long as there is no verdict (`FailureRemembered`),
and the calls an opened visit has followed are judged, but for the one directly
above it, with `clean` saying whether one of them failed (`AllAccounted`). What
each action does to the stack is stated once (`ReturnShape`, `OpenShape`,
`FollowShape`) and used by every part.

`ReachedProofs` adds what the reports are:

- `ReportsAreWhatIsReached`: `Spec => []ReportsWhatIsReached`
- `PanicHasAReason`: `Spec => []PanicsForAReason`
- `DependenciesCoverReports`: `Spec => []DepsCoverReports`
- `FewerArgumentsStayPure`: `InfluenceGrows` implies `Spec => []ImportanceMonotone`

The reference, `Reached`, goes on for as many rounds as the storage is long.
`ReachedIsClosed` shows that this is enough, for every round goes down the
storage, and `ReachedIsLeast` that it is the least such set; from there on rounds
are not mentioned. The invariant (`ReportInv`) has both directions: all that is
visited, reported or collected is reached from the origin (`Due`), and every
judgement is justified by those of its callees (`Justified`, which is
`PurityVerdict`'s view of the analyzer), so that nothing reached is missed once
the origin has been judged (`ReportsFollow`). `InfluenceGrows` says of flowistry
that more arguments influence no fewer locals.

### Plugin

`ScrutinizerProofs` proves, for every crate whose selected functions have bodies
(`SelectionAssumption`), every configuration and every sequence of functions:

- `PluginTypeCorrect`: `DriverSpec => []DriverTypeOK`
- `ReportFollowsSelection`: `DriverSpec => []ResultsFollowSelection`
- `AnalyzerIsHandedItsInput`: `DriverSpec => []HandedIsComplete`

The invariant (`DriverInv`) relates stage, queue and results (the queue is the
rest of the selection, the results are those of what has gone from it), and
holds the collector's invariants (`CollectorInv`) from the start of a collection
to the end of the judgement that follows. The collector's step lemmas are used
as they are: a step of the plugin in that stage is one of the collector's or
leaves its variables alone. `AnalyzerIsHandedItsInput` closes the gap between the two
analyses: the assumption under which the analyzer's theorems are proved is what the
collector's give it.

### Body files

`BodyCacheProofs` proves, for every set of crates with acyclic dependencies, all
sources and edits, every order of compilers and every failure:

- `TypeCorrect`: `Spec => []TypeOK`
- `BodiesAreWhole`: `PlainNames => (Spec => []ReadableIsWhole)`
- `BodyCacheIsBodyStore`: `PlainNames /\ Cleans => (Spec => ImplementsBodyStore)`

`PlainNames` says that no crate that is used is named lib*; without it the run
`lib_prefix` has a counterexample. `Cleans` is needed for the files of functions
that have lost their body. `NamingAssumption` is the third assumption: a crate
that others use is dumped.

`ReadableIsWhole` is about crates an analysis can see, and the reason it holds
lies in the order in which they were compiled. The invariant (`IInv`) has three
parts: `InOrder` and `UpToDate` (a crate whose metadata is still to come in this
build has dependents that are still to come; outside the plan all is built), and
`CrateOK` for each crate (what is built or released is idle or past its
metadata, and its files hold the version of that metadata; a running compiler
has dumped all that is not in `todo`). The step that matters is `Spawn`: it
starts to overwrite the files of a crate, which nobody can be reading, for every
dependent is idle and unreleased. For the refinement `CleanOK` adds that after
cargo clean a crate has no files but those of functions with a body, and
`AnalysisIsUndisturbed` that no metadata is written under a running analysis.
What each action does to the compilers is stated once (`SpawnShape`,
`WriteFileShape`, `CompilerShape`).

### The format

`EncoderProofs` proves, for all types, spans, bodies and source maps:

- `EncoderTypes`: `Spec => []TypeOK`
- `EncoderTypesReadBack`: `Spec => []TypesReadBack`
- `EncoderRoundTrip`: `FilesAgree => (Spec => []ReadsWhatWasWritten)`
- `EncoderPanics`: `FilesAgree => (Spec => []NoPanicWithoutReason)`
- `EncoderJumpsOnce`: `Spec => []OneJump`

from `SourcesAssumption` (source maps are disjoint files in order),
`SpansAssumption` (a span begins in a file), `TypesAssumption` (a type has a
constructor and types as arguments) and `BodiesAssumption`. `FilesAgree` says
that whatever the reader may take for a file of the writer, by crate and path or
by what is on the disk, is that file; `vendor/src/lib.rs` above is what it
excludes, and so is a dependency whose file was changed after it was compiled.
`TypesReadBack` is the part of `ReadsWhatWasWritten` that needs no such thing.

That a value is at a position cannot be defined by recursion over the value,
for what is at the position may be a shorthand, which leads elsewhere, and
induction over data is beyond the prover. Instead `Encodings(tape, types)` is the
largest relation between a position, a value and the position the next value has
that is sound: each of its triples is what the cell there says, by triples of
the relation. It has three properties, none of which needs induction:
it is sound itself (`EncodingsSound`), it has every triple that is sound given
the others (`EncodingsComplete`), and it only grows as the file does
(`EncodingsGrow`).

`WriterInv` says of each call of the writer that the arguments it has written lead,
by `Encodings`, from behind its own cell to where the next call began, or to the
end of the file; and that what is remembered of a type is a place where it is.
For the reader, `Calls` says that there is for each call something it is there
for (`G`, which is no part of the state): a type or the body, where that ends,
and where the caller goes on. The two differ exactly for a call that follows a
shorthand. `Ready` adds that what the innermost call has yet to read begins at
`pos`. `NextValue`, `ValueGiven`, `CallBegun` and `CallEnded` are the four ways in
which such a stack changes, and each step of the reader is one or two of them.
Types may nest as deep as they like; TLC sees three levels. The invariant speaks
of sets too large to enumerate, so TLC has checked what follows from it, not the
invariant itself.

`EncoderJumpsOnce` has an invariant of its own on top, `JumpInv`: the type of every
shorthand that the reader is past, or was past when it followed one, is in
`shorthand_map`. A jump within a jump is then impossible because the reader is before
the shorthand it followed for as long as it is there (`InsideJump`). That in turn
rests on `ShorthandsFollow`, kept by the writer: what a shorthand points at was
written to its end before the shorthand; and on triples going forward, so that the
parts of a value end before the value does (`Rising`, `LeadsOn`, `Before`).

A span that was read is `Good` if it lies in a file of the same text as far from
its start as it did for the writer; that is kept when files are loaded, because
they are loaded behind all others (`LoadedOK`), and means that the span is the
`Same` because source maps are disjoint (`FileAtIs`).

### Model-checked only

- `CursorWithinFixpoint` depends on the program: what the nested analyses of the
  fixpoint have stored could change what the cursor sees.
- `OnlyBadCastPanics`, `PanicsOnBadInputOnly` and `AcceptedDoesNotLeak` are about
  the programs of the runs. Of the last one the findings show that it is false
  in general.
- `OriginLast` for a closure (a region) as origin, see above.
- `Termination`, `DriverEnds`, `BuildEnds` need fairness, which the prover does
  not treat.

## Not modelled, and the plan

MIR text dumps, tracing and the serialisation of results are left out. So are
unwinding edges and generators (the code panics on generators). Of the driver,
cargo's flags, reading the configuration and writing the report file are pure
I/O. Of the encoder, allocation ids, crate and definition numbers and plain data
are written as themselves, and predicates have shorthands like types. The
command line tools only set up logging. The test crate is input, and the
programs follow it. flowistry, rustc and cargo are external throughout.

A body file of a function that has lost its body is left as it is without cargo
clean (see `ImplementsBodyStore`).

What is left to do: `CacheCoversCallee` holds of programs whose functions are
called at one sequence of types each; what exactly they must satisfy is not stated
yet.
