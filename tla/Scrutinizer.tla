----------------------------- MODULE Scrutinizer -----------------------------
(***************************************************************************)
(* The plugin around the analysis (scrutinizer/src/lib.rs, selector/,      *)
(* precheck/): in the compiler of a primary package, once its own analyses *)
(* are over, functions are selected, and each is refused by the precheck   *)
(* or collected and judged with storages of its own; the results go into   *)
(* a report, and the compiler exits if an annotation is wrong.  A panic    *)
(* anywhere takes the compiler down without a report.                      *)
(*                                                                         *)
(* The steps of the collection and the judgement are those of Collector    *)
(* and Analyzer.  What is reported to be pure can then be run: Execution.  *)
(***************************************************************************)
EXTENDS Collector

CONSTANTS
    \* Of Analyzer.
    Constructors, ClosureDefs, NumArgs, Influenced(_, _), Allowlist, TrustedStdlib,
    SelfTy, ImmutRef, RawMutPtr, MutRef, Types, Parts(_), Transmutes, Crate,
    \* Of Execution.
    MaxDepth,
    Items,    \* the items of the crate, in order
    MirKeys,  \* the bodies of the crate with the regions each one makes
    Configs   \* the configurations

VARIABLES
    config,   \* the configuration
    stage,    \* where the plugin is
    queue,    \* the functions that are still to be analysed
    results,  \* the results for the report
    exit,     \* the compiler's exit code: NoExit, 0 or -1
    \* Of Analyzer and Execution.
    important, stack, passing, failing, deps, verdict,
    calls, captures, leaked

\* Fn, so that TLC evaluates the program once.
An == INSTANCE Analyzer WITH Program <- Fn, Handed <- {}
Ex == INSTANCE Execution WITH Program <- Fn

collection == <<frames, fns, closures, origin, status>>
judgement == <<important, stack, passing, failing, deps, verdict>>
execution == <<calls, captures, leaked>>
driver == <<config, stage, queue, results, exit>>
all == <<driver, collection, judgement, execution>>

NoExit == 1

----------------------------------------------------------------------------
(* Selection.                                                              *)

\* get_attr() returns the first doc attribute, doc comments included.
AnnotatedPure(item) == item.docs # <<>> /\ Head(item.docs) = "pure"

\* select_functions.
Functions ==
    LET picked == SelectSeq(Items, LAMBDA item : item.isFn /\ ~item.generic)
    IN  [k \in DOMAIN picked |-> [inst |-> picked[k].inst, annotated |-> AnnotatedPure(picked[k])]]

\* select_pprs: constant contexts have no code that runs.
RegionsOf == FlattenSeq([k \in DOMAIN MirKeys |->
                            IF MirKeys[k].isConst THEN <<>> ELSE MirKeys[k].regions])
Regions == [k \in DOMAIN RegionsOf |-> [inst |-> RegionsOf[k].inst, annotated |-> TRUE]]

Selected(cfg) ==
    SelectSeq(IF cfg.mode = "function" THEN Functions ELSE Regions,
              LAMBDA job : Fn[job.inst].def \in cfg.matching)

\* What is selected has a body, be it a function or a region.
ASSUME SelectionAssumption ==
    \A cfg \in Configs :
        /\ IsSeq(Selected(cfg))
        /\ \A job \in ToSet(Selected(cfg)) :
              job = [inst |-> job.inst, annotated |-> job.annotated] /\ job.inst \in Origins

CanSelect(cfg) ==
    \/ cfg.mode = "function"
    \/ cfg.mode = "ppr" /\ \A k \in DOMAIN RegionsOf : RegionsOf[k].closure

\* Arguments are of concrete types and are no mutable references.
Precheck(i) == IsConcrete(i) /\ \A k \in 1..Fn[i].nargs : Fn[i].decl[<<k>>] \notin MutRef

----------------------------------------------------------------------------
(* One function after the other.                                           *)

Job == Head(queue)

\* The arguments to protect: those configured, or all.
ImportantArgs(i) == IF config.important = {} THEN 1..Fn[i].nargs ELSE config.important

IsInconsistent(r) == r.annotated # r.status

Idle ==
    /\ frames = <<>> /\ fns = <<>> /\ closures = <<>> /\ origin = NoInst /\ status = "idle"
    /\ important = {} /\ stack = <<>> /\ passing = <<>> /\ failing = <<>> /\ deps = {}
    /\ verdict = "idle"

\* The storages are those of one function.
Discard ==
    /\ frames' = <<>> /\ fns' = <<>> /\ closures' = <<>> /\ origin' = NoInst /\ status' = "idle"
    /\ important' = {} /\ stack' = <<>> /\ passing' = <<>> /\ failing' = <<>> /\ deps' = {}
    /\ verdict' = "idle"

DriverInit ==
    /\ config \in Configs
    /\ stage = "select"
    /\ queue = <<>>
    /\ results = <<>>
    /\ exit = NoExit
    /\ Idle
    /\ Ex!Init

Select ==
    /\ stage = "select"
    /\ CanSelect(config)
    /\ queue' = Selected(config)
    /\ stage' = "next"
    /\ UNCHANGED <<config, results, exit, collection, judgement, execution>>

\* Mutant: what is consistent is dropped always.
Record_Inconsistent(ok) ==
    LET r == [inst |-> Job.inst, annotated |-> Job.annotated, status |-> ok]
    IN  /\ results' = IF IsInconsistent(r) THEN Append(results, r) ELSE results
        /\ queue' = Tail(queue)
        /\ stage' = "next"
        /\ UNCHANGED <<config, exit>>

\* The result of a function, which the configuration may not want to see.
Record(ok) ==
    LET r == [inst |-> Job.inst, annotated |-> Job.annotated, status |-> ok]
    IN  /\ results' = IF config.onlyInconsistent /\ ~IsInconsistent(r) THEN results
                      ELSE Append(results, r)
        /\ queue' = Tail(queue)
        /\ stage' = "next"
        /\ UNCHANGED <<config, exit>>

Refuse ==
    /\ stage = "next"
    /\ queue # <<>>
    /\ ~Precheck(Job.inst)
    /\ Record(FALSE)
    /\ UNCHANGED <<collection, judgement, execution>>

StartCollector ==
    /\ stage = "next"
    /\ queue # <<>>
    /\ Precheck(Job.inst)
    /\ stage' = "collect"
    /\ frames' = <<NewFrame(OriginFn(Job.inst))>>
    /\ fns' = <<>>
    /\ closures' = CollectClosures(<<>>, Fn[Job.inst].closures)
    /\ origin' = Job.inst
    /\ status' = "running"
    /\ UNCHANGED <<config, queue, results, exit, judgement, execution>>

Collect ==
    /\ stage = "collect"
    /\ status = "running"
    /\ Next
    /\ UNCHANGED <<driver, judgement, execution>>

\* The configured expressions are compiled only now, once per function.
CanJudge ==
    /\ An!CanDepend(Fn[origin].def, ImportantArgs(origin))
    /\ config.regexesValid

HandOver ==
    /\ stage = "collect"
    /\ status = "done"
    /\ CanJudge
    /\ stage' = "judge"
    /\ important' = An!FromImportantArgs(ImportantArgs(origin), Fn[origin].def)
    /\ verdict' = "pending"
    /\ UNCHANGED <<config, queue, results, exit, collection, stack, passing, failing, deps,
                   execution>>

Judge ==
    /\ stage = "judge"
    /\ An!Next
    /\ UNCHANGED <<driver, frames, closures, status, execution>>

\* Mutant: the next function finds the storages as they were left.
Conclude_Shared ==
    /\ stage = "judge"
    /\ verdict \in {"pure", "impure"}
    /\ Record(verdict = "pure")
    /\ UNCHANGED <<collection, judgement, execution>>

Conclude ==
    /\ stage = "judge"
    /\ verdict \in {"pure", "impure"}
    /\ Record(verdict = "pure")
    /\ Discard
    /\ UNCHANGED execution

Inconsistent == {k \in DOMAIN results : IsInconsistent(results[k])}

Report ==
    /\ stage = "next"
    /\ queue = <<>>
    /\ stage' = "done"
    /\ exit' = IF Inconsistent = {} THEN 0 ELSE -1
    /\ UNCHANGED <<config, queue, results, collection, judgement, execution>>

\* What flowistry does with an argument the body does not have is open.
MayAbort ==
    \/ stage = "select" /\ ~CanSelect(config)
    \/ stage = "collect" /\ status = "panicked"
    \/ /\ stage = "collect" /\ status = "done"
       /\ ~CanJudge \/ ~(ImportantArgs(origin) \subseteq 1..Fn[origin].nargs)
    \/ stage = "judge" /\ verdict = "panicked"

Abort ==
    /\ MayAbort
    /\ stage' = "panicked"
    /\ UNCHANGED <<config, queue, results, exit, collection, judgement, execution>>

\* The functions reported not to leak: those with such a result, and those
\* annotated that way in a crate that compiles.
Accepted ==
    {results[k].inst : k \in {k \in DOMAIN results : results[k].status}}
    \union (IF exit = 0 THEN {job.inst : job \in {job \in ToSet(Selected(config)) : job.annotated}}
            ELSE {})

RunProgram ==
    /\ stage = "done"
    /\ \/ \E i \in Accepted : Ex!Begin(i, ImportantArgs(i))
       \/ Ex!Run
    /\ UNCHANGED <<driver, collection, judgement>>

Drive ==
    \/ Select \/ Refuse \/ StartCollector \/ Collect \/ HandOver \/ Judge \/ Conclude
    \/ Report \/ Abort

DriverNext == Drive \/ RunProgram

\* The compiler has gone; the program is not being run any further.
Over == stage \in {"done", "panicked"} /\ UNCHANGED all

DriverSpec == DriverInit /\ [][DriverNext \/ Over]_all

\* The plugin is one thread that keeps running.
FairDriverSpec == DriverSpec /\ WF_all(Drive)

----------------------------------------------------------------------------
(* Properties.                                                             *)

\* The parts are at work only in their stage, on the function whose turn it
\* is, and what is reported has been selected.
DriverTypeOK ==
    /\ config \in Configs
    /\ stage \in {"select", "next", "collect", "judge", "done", "panicked"}
    /\ ToSet(queue) \subseteq ToSet(Selected(config))
    /\ IsSeq(results)
    /\ exit \in {NoExit, 0, -1}
    /\ exit # NoExit <=> stage = "done"
    /\ stage \in {"collect", "judge"} => queue # <<>> /\ origin = Job.inst /\ status # "idle"
    /\ stage \in {"next", "done"} => Idle

\* No run of a function that was reported not to leak, or whose annotation
\* was accepted, hands protected data to code nobody has looked at.
AcceptedDoesNotLeak == ~leaked

\* A compiler that is brought down by the plugin was configured wrongly or
\* given a region that is none: neither the collector nor the analyzer, on
\* the storage it is really handed, unwraps what is not there.
BadInput ==
    \/ ~CanSelect(config)
    \/ ~config.regexesValid
    \/ \E job \in ToSet(Selected(config)) : ~(config.important \subseteq 1..Fn[job.inst].nargs)
PanicsOnBadInputOnly == stage = "panicked" => BadInput

\* Each selected function has one result, in order and with its annotation;
\* only consistent ones may be left out, and only if that is asked for.
AnsweredJobs == SubSeq(Selected(config), 1, Len(Selected(config)) - Len(queue))
InOrder(some, jobs) ==
    /\ ToSet(some) \subseteq ToSet(jobs)
    /\ \A k, l \in DOMAIN some :
          k < l => \E m, n \in DOMAIN jobs : m < n /\ some[k] = jobs[m] /\ some[l] = jobs[n]
ResultsFollowSelection ==
    stage \in {"next", "done"} =>
        LET listed == [k \in DOMAIN results |->
                          [inst |-> results[k].inst, annotated |-> results[k].annotated]]
        IN  IF config.onlyInconsistent
            THEN InOrder(listed, AnsweredJobs) /\ Inconsistent = DOMAIN results
            ELSE listed = AnsweredJobs

\* The analyzer is handed what it takes for granted: the record of the
\* function to judge, which no other one hides, and an answer to every call of
\* every record among those stored before it.
HandedIsComplete ==
    stage = "judge" =>
        /\ HasBodyInfo(fns, origin)
        /\ ~IsClosure(origin) => OriginLast
        /\ StorageOrdered

\* The compiler comes to an end, with a report or without.
DriverEnds == <>(stage \in {"done", "panicked"})

==============================================================================
