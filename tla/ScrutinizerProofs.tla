-------------------------- MODULE ScrutinizerProofs --------------------------
(***************************************************************************)
(* Proofs about the plugin: whatever the crate and the configuration, its  *)
(* parts work in turn and start afresh, each selected function has its     *)
(* result, and what the collector hands over is what the analyzer takes    *)
(* for granted.  The collector's invariants are those proved of it alone.  *)
(***************************************************************************)
EXTENDS Scrutinizer, RecordsProofs

----------------------------------------------------------------------------
(* The collector inside the plugin.                                        *)

\* The analysis of the origin is at the bottom, and ends with its record.
Bottom ==
    /\ frames[1].fn.inst = origin
    /\ status = "done" => HasBodyInfo(fns, origin)

\* The collector's invariants, as one.
CollectorInv ==
    /\ IInv
    /\ ClosuresKnown
    /\ Proper(origin) => OriginInv
    /\ Bottom

\* A collection starts with them ...
LEMMA InitCollector == Init => CollectorInv
<1>1. Init => Bottom
  <2> SUFFICES ASSUME Init
               PROVE  Bottom
    OBVIOUS
  <2>1. PICK new : frames = <<new>> /\ new.fn = OriginFn(origin)
    BY DEF Init, NewFrame
  <2>2. frames[1].fn.inst = origin
    BY <2>1 DEF OriginFn
  <2> QED
    BY <2>2 DEF Init, Bottom
<1> QED
  BY <1>1, InitIInv, InitKnown, InitOrigin DEF CollectorInv

\* ... also when it is the next state ...
LEMMA StartCollectorInv == Init' => CollectorInv'
  BY InitCollector, PTL

\* ... and keeps them.
LEMMA StepCollector ==
    ASSUME CollectorInv, [Next]_vars
    PROVE  CollectorInv'
<1>1. TypeOK
  BY DEF CollectorInv, IInv
<1>2. IInv' /\ ClosuresKnown'
  BY <1>1, NextIInv, StepKnown DEF CollectorInv
<1>3. origin' = origin
  BY StepRecords
<1>4. (Proper(origin) => OriginInv)'
  <2>1. Proper(origin)' = Proper(origin)
    BY <1>3 DEF Proper, IsClosure, IsConcrete
  <2> QED
    BY <1>1, <2>1, StepOrigin DEF CollectorInv
<1>5. Bottom'
  <2>1. frames'[1].fn = frames[1].fn
    BY <1>1, StepTurns DEF StackTurns
  <2>2. ASSUME status' = "done"
        PROVE  HasBodyInfo(fns', origin)
    <3>1. CASE status = "done"
      BY <3>1, StepRecords DEF CollectorInv, Bottom, vars
    <3>2. CASE status # "done"
      <4>1. PICK d : Len(frames) = 1 /\ fns' = Insert(fns, WithBody(Top.fn.inst, d))
        BY <2>2, <3>2, StepRecords
      <4>2. Top.fn.inst = origin
        BY <4>1 DEF CollectorInv, Bottom, Top
      <4>3. Answers(WithBody(origin, d), CallWithBody(origin, <<>>))
        BY DEF Answers, WithBody, CallWithBody
      <4>4. IsSeq(fns)
        BY <1>1 DEF TypeOK
      <4> QED
        BY <4>1, <4>2, <4>3, <4>4, InsertedAnswers DEF HasBodyInfo
    <3> QED
      BY <3>1, <3>2
  <2> QED
    BY <1>3, <2>1, <2>2 DEF CollectorInv, Bottom
<1> QED
  BY <1>2, <1>4, <1>5 DEF CollectorInv

----------------------------------------------------------------------------
(* The functions selected and their results.                               *)

\* The queue is what is left of the selection.
QueueInv ==
    /\ IsSeq(queue)
    /\ Len(queue) <= Len(Selected(config))
    /\ \A k \in DOMAIN queue :
          queue[k] = Selected(config)[Len(Selected(config)) - Len(queue) + k]

\* r is the result for the given job.
ResultOf(r, job) == [inst |-> r.inst, annotated |-> r.annotated] = job

\* The results are those for the first n of the given jobs.
Results(rs, only, n, jobs) ==
    IF only
    THEN /\ \A k \in DOMAIN rs : IsInconsistent(rs[k]) /\ \E m \in 1..n : ResultOf(rs[k], jobs[m])
         /\ \A k, l \in DOMAIN rs :
               k < l => \E m, o \in 1..n :
                           m < o /\ ResultOf(rs[k], jobs[m]) /\ ResultOf(rs[l], jobs[o])
    ELSE Len(rs) = n /\ \A k \in 1..n : ResultOf(rs[k], jobs[k])

\* What is selected is a sequence of jobs.
LEMMA SelectionIsSeq ==
    ASSUME config \in Configs
    PROVE  /\ IsSeq(Selected(config)) /\ Len(Selected(config)) \in Nat
           /\ \A k \in 1..Len(Selected(config)) :
                 LET job == Selected(config)[k]
                 IN  job = [inst |-> job.inst, annotated |-> job.annotated] /\ job.inst \in Origins
<1>1. IsSeq(Selected(config))
  BY SelectionAssumption
<1>2. DOMAIN Selected(config) = 1..Len(Selected(config))
  BY <1>1, SeqOverElements
<1> QED
  BY <1>1, <1>2, SelectionAssumption DEF ToSet, IsSeq

\* Head and tail of any sequence.
LEMMA SeqTail ==
    ASSUME NEW s, IsSeq(s), s # <<>>
    PROVE  /\ Len(s) \in Nat \ {0}
           /\ Head(s) = s[1]
           /\ IsSeq(Tail(s)) /\ Len(Tail(s)) = Len(s) - 1
           /\ \A k \in 1..(Len(s) - 1) : Tail(s)[k] = s[k + 1]
<1> DEFINE S == {s[k] : k \in DOMAIN s}
<1>1. s \in Seq(S)
  BY SeqOverElements
<1> HIDE DEF S
<1>2. Tail(s) \in Seq(S)
  BY <1>1
<1>3. IsSeq(Tail(s))
  BY <1>2, SeqIsSeq
<1> QED
  BY <1>1, <1>3

\* The first of the queue is the first job without a result.
LEMMA JobIsNext ==
    ASSUME config \in Configs, QueueInv, queue # <<>>
    PROVE  LET n == Len(Selected(config)) - Len(queue)
           IN  n \in Nat /\ n + 1 \in 1..Len(Selected(config)) /\ Job = Selected(config)[n + 1]
<1>1. Len(queue) \in Nat \ {0} /\ Job = queue[1] /\ DOMAIN queue = 1..Len(queue)
  BY SeqTail, SeqOverElements DEF QueueInv, Job
<1>2. Len(Selected(config)) \in Nat
  BY SelectionIsSeq
<1> QED
  BY <1>1, <1>2 DEF QueueInv

\* With its first element gone the queue is still what is left.
LEMMA QueueShrinks ==
    ASSUME config \in Configs, QueueInv, queue # <<>>, queue' = Tail(queue), config' = config
    PROVE  /\ QueueInv'
           /\ Len(queue') = Len(queue) - 1
<1> DEFINE n == Len(Selected(config))
<1>1. /\ Len(queue) \in Nat \ {0} /\ IsSeq(queue') /\ Len(queue') = Len(queue) - 1
      /\ \A k \in 1..(Len(queue) - 1) : queue'[k] = queue[k + 1]
  BY SeqTail DEF QueueInv
<1>2. DOMAIN queue = 1..Len(queue) /\ DOMAIN queue' = 1..(Len(queue) - 1)
  BY <1>1, SeqOverElements DEF QueueInv
<1>3. n \in Nat
  BY SelectionIsSeq
<1>4. Len(queue) <= n /\ \A k \in DOMAIN queue : queue[k] = Selected(config)[n - Len(queue) + k]
  BY DEF QueueInv
<1>5. \A k \in DOMAIN queue' : queue'[k] = Selected(config)[n - Len(queue') + k]
  <2> TAKE k \in DOMAIN queue'
  <2>1. k + 1 \in DOMAIN queue /\ queue'[k] = queue[k + 1]
    BY <1>1, <1>2
  <2>2. n - Len(queue) + (k + 1) = n - Len(queue') + k
    BY <1>1, <1>2, <1>3
  <2> QED
    BY <1>4, <2>1, <2>2
<1>6. Len(queue') <= n
  BY <1>1, <1>3, <1>4
<1>7. Selected(config)' = Selected(config)
  OBVIOUS
<1> HIDE DEF n
<1> QED
  BY <1>1, <1>5, <1>6, <1>7 DEF QueueInv, n

\* One more job answered, by a result that is listed ...
LEMMA OneMoreListed ==
    ASSUME NEW rs, IsSeq(rs), NEW only, NEW n \in Nat, NEW jobs, Results(rs, only, n, jobs),
           NEW r, ResultOf(r, jobs[n + 1]), only => IsInconsistent(r)
    PROVE  Results(Append(rs, r), only, n + 1, jobs)
<1> DEFINE after == Append(rs, r)
<1>1. /\ IsSeq(after) /\ Len(after) = Len(rs) + 1
      /\ after[Len(rs) + 1] = r
      /\ \A k \in DOMAIN rs : after[k] = rs[k]
  BY AppendFacts
<1>2. DOMAIN rs = 1..Len(rs) /\ DOMAIN after = 1..(Len(rs) + 1) /\ Len(rs) \in Nat
  BY <1>1 DEF IsSeq
<1> HIDE DEF after
<1>3. CASE only
  <2>1. ASSUME NEW k \in DOMAIN after
        PROVE  IsInconsistent(after[k]) /\ \E m \in 1..(n + 1) : ResultOf(after[k], jobs[m])
    <3>1. CASE k = Len(rs) + 1
      BY <1>1, <1>3, <3>1
    <3>2. CASE k \in DOMAIN rs
      <4>1. PICK m \in 1..n : ResultOf(rs[k], jobs[m])
        BY <1>3, <3>2 DEF Results
      <4> QED
        BY <1>1, <1>3, <3>2, <4>1 DEF Results
    <3> QED
      BY <1>2, <3>1, <3>2
  <2>2. ASSUME NEW k \in DOMAIN after, NEW l \in DOMAIN after, k < l
        PROVE  \E m, o \in 1..(n + 1) :
                  m < o /\ ResultOf(after[k], jobs[m]) /\ ResultOf(after[l], jobs[o])
    <3>1. k \in DOMAIN rs
      BY <1>2, <2>2
    <3>2. CASE l \in DOMAIN rs
      <4>1. PICK m \in 1..n, o \in 1..n :
               m < o /\ ResultOf(rs[k], jobs[m]) /\ ResultOf(rs[l], jobs[o])
        BY <1>3, <2>2, <3>1, <3>2 DEF Results
      <4>2. m \in 1..(n + 1) /\ o \in 1..(n + 1)
        OBVIOUS
      <4> QED
        BY <1>1, <3>1, <3>2, <4>1, <4>2
    <3>3. CASE l = Len(rs) + 1
      <4>1. PICK m \in 1..n : ResultOf(rs[k], jobs[m])
        BY <1>3, <3>1 DEF Results
      <4>2. m \in 1..(n + 1) /\ n + 1 \in 1..(n + 1) /\ m < n + 1
        OBVIOUS
      <4> QED
        BY <1>1, <3>1, <3>3, <4>1, <4>2
    <3> QED
      BY <1>2, <3>2, <3>3
  <2> QED
    BY <1>3, <2>1, <2>2 DEF Results, after
<1>4. CASE ~only
  <2>1. Len(rs) = n /\ \A k \in 1..n : ResultOf(rs[k], jobs[k])
    BY <1>4 DEF Results
  <2>2. \A k \in 1..(n + 1) : ResultOf(after[k], jobs[k])
    BY <1>1, <1>2, <2>1
  <2> QED
    BY <1>1, <1>4, <2>1, <2>2 DEF Results, after
<1> QED
  BY <1>3, <1>4

\* ... or by one that is left out.
LEMMA OneMoreOmitted ==
    ASSUME NEW rs, NEW only, only, NEW n \in Nat, NEW jobs, Results(rs, only, n, jobs)
    PROVE  Results(rs, only, n + 1, jobs)
<1>1. 1..n \subseteq 1..(n + 1)
  OBVIOUS
<1> QED
  BY <1>1 DEF Results

----------------------------------------------------------------------------
(* The plugin.                                                             *)

\* The functions dealt with so far have their results.
ResultsInv ==
    stage \in {"next", "collect", "judge", "done"} =>
        Results(results, config.onlyInconsistent,
                Len(Selected(config)) - Len(queue), Selected(config))

\* Where the plugin is and what the parts are doing.
StageInv ==
    /\ config \in Configs
    /\ stage \in {"select", "next", "collect", "judge", "done", "panicked"}
    /\ exit \in {NoExit, 0, -1}
    /\ exit # NoExit <=> stage = "done"
    /\ stage = "select" => results = <<>>
    /\ stage \in {"select", "next", "done"} => Idle
    /\ stage \in {"collect", "judge"} =>
          /\ queue # <<>> /\ origin = Job.inst
          /\ CollectorInv
          /\ IsConcrete(origin)
    /\ stage = "judge" => status = "done"

\* The inductive invariant.
DriverInv == StageInv /\ QueueInv /\ IsSeq(results) /\ ResultsInv

\* The start.
LEMMA InitDriver ==
    ASSUME DriverInit
    PROVE  DriverInv
<1>1. config \in Configs /\ stage = "select" /\ queue = <<>> /\ results = <<>> /\ exit = NoExit /\ Idle
  BY DEF DriverInit
<1>2. IsSeq(<<>>) /\ DOMAIN <<>> = {} /\ Len(<<>>) = 0
  BY DEF IsSeq
<1>3. QueueInv
  BY <1>1, <1>2, SelectionIsSeq DEF QueueInv
<1>4. StageInv
  BY <1>1 DEF StageInv, NoExit
<1> QED
  BY <1>1, <1>2, <1>3, <1>4 DEF DriverInv, ResultsInv

\* What only depends on the stage, the queue and the results is kept by steps
\* that change none of them.
LEMMA DriverKept ==
    ASSUME DriverInv, UNCHANGED <<config, queue, results>>,
           stage' \in {"next", "collect", "judge", "done"} =>
               stage \in {"next", "collect", "judge", "done"}
    PROVE  QueueInv' /\ IsSeq(results)' /\ ResultsInv'
<1>1. QueueInv'
  BY DEF DriverInv, QueueInv
<1>2. IsSeq(results)' /\ ResultsInv'
  BY DEF DriverInv, ResultsInv
<1> QED
  BY <1>1, <1>2

\* The result of a job is recorded.
LEMMA RecordStepInv ==
    ASSUME DriverInv, queue # <<>>, NEW ok, Record(ok),
           stage \in {"next", "collect", "judge", "done"}
    PROVE  QueueInv' /\ IsSeq(results)' /\ ResultsInv'
<1> DEFINE n == Len(Selected(config)) - Len(queue)
           r == [inst |-> Job.inst, annotated |-> Job.annotated, status |-> ok]
           only == config.onlyInconsistent
<1>1. config \in Configs /\ QueueInv /\ IsSeq(results)
  BY DEF DriverInv, StageInv
<1>2. config' = config /\ queue' = Tail(queue) /\ stage' = "next"
  BY DEF Record
<1>3. QueueInv' /\ Len(queue') = Len(queue) - 1
  BY <1>1, <1>2, QueueShrinks
<1>4. n \in Nat /\ n + 1 \in 1..Len(Selected(config)) /\ Job = Selected(config)[n + 1]
  BY <1>1, JobIsNext
<1>5. ResultOf(r, Selected(config)[n + 1])
  BY <1>1, <1>4, SelectionIsSeq DEF ResultOf
<1>6. Results(results, only, n, Selected(config))
  BY DEF DriverInv, ResultsInv
<1>7. \/ results' = Append(results, r) /\ (only => IsInconsistent(r))
      \/ only /\ results' = results
  BY DEF Record
<1> HIDE DEF r
<1>8. IsSeq(results') /\ Results(results', only, n + 1, Selected(config))
  <2>1. CASE results' = Append(results, r) /\ (only => IsInconsistent(r))
    <3>1. IsSeq(results')
      BY <1>1, <2>1, AppendFacts
    <3> HIDE DEF n, only
    <3>2. Results(Append(results, r), only, n + 1, Selected(config))
      BY <1>1, <1>4, <1>5, <1>6, <2>1, OneMoreListed
    <3> QED
      BY <2>1, <3>1, <3>2
  <2>2. CASE only /\ results' = results
    <3>1. IsSeq(results')
      BY <1>1, <2>2
    <3> HIDE DEF n, only
    <3>2. Results(results, only, n + 1, Selected(config))
      BY <1>4, <1>6, <2>2, OneMoreOmitted
    <3> QED
      BY <2>2, <3>1, <3>2
  <2> QED
    BY <1>7, <2>1, <2>2
<1>9. Len(Selected(config)) - Len(queue') = n + 1
  <2>1. Len(queue) \in Nat /\ Len(Selected(config)) \in Nat
    BY <1>1, SelectionIsSeq DEF QueueInv, IsSeq
  <2> QED
    BY <1>3, <2>1
<1>10. (config.onlyInconsistent)' = only /\ Selected(config)' = Selected(config)
  BY <1>2
<1> HIDE DEF n, only
<1>11. ResultsInv'
  BY <1>8, <1>9, <1>10 DEF ResultsInv
<1> QED
  BY <1>3, <1>8, <1>11

\* A judgement leaves everything alone but the analyzer's own state.
LEMMA JudgeKeeps ==
    ASSUME Judge
    PROVE  UNCHANGED driver /\ UNCHANGED vars
<1>1. An!Next => fns' = fns /\ origin' = origin
  BY DEF An!Next, An!Begin, An!Excuse, An!Open, An!Follow, An!Judge, An!Panic
<1> QED
  BY <1>1 DEF Judge, vars, driver

\* Every step.
LEMMA StepDriver ==
    ASSUME DriverInv, [DriverNext \/ Over]_all
    PROVE  DriverInv'
<1> USE DEF NoExit
<1>1. CASE Select
  <2>1. /\ stage = "select" /\ stage' = "next" /\ queue' = Selected(config) /\ results = <<>>
        /\ UNCHANGED <<config, results, exit>> /\ UNCHANGED <<collection, judgement>>
        /\ config \in Configs
    BY <1>1 DEF Select, DriverInv, StageInv
  <2>2. IsSeq(Selected(config)) /\ Len(Selected(config)) \in Nat /\ Selected(config)' = Selected(config)
    BY <2>1, SelectionIsSeq
  <2>3. DOMAIN Selected(config) = 1..Len(Selected(config))
    BY <2>2, SeqOverElements
  <2>4. \A k \in 1..Len(Selected(config)) :
            Len(Selected(config)) - Len(Selected(config)) + k = k
    BY <2>2
  <2>5. QueueInv'
    BY <2>1, <2>2, <2>3, <2>4 DEF QueueInv
  <2>6. Idle'
    BY <2>1 DEF DriverInv, StageInv, Idle, collection, judgement
  <2>7. StageInv'
    BY <2>1, <2>6 DEF DriverInv, StageInv
  <2>8. IsSeq(results)' /\ ResultsInv'
    <3>1. IsSeq(<<>>) /\ DOMAIN <<>> = {} /\ Len(<<>>) = 0
      BY DEF IsSeq
    <3>2. Len(Selected(config)) - Len(queue') = 0
      BY <2>1, <2>2
    <3>3. Results(<<>>, config.onlyInconsistent, 0, Selected(config))
      BY <3>1 DEF Results
    <3> QED
      BY <2>1, <2>2, <3>1, <3>2, <3>3 DEF ResultsInv
  <2> QED
    BY <2>5, <2>7, <2>8 DEF DriverInv
<1>2. CASE Refuse
  <2>1. /\ stage = "next" /\ queue # <<>> /\ Record(FALSE)
        /\ UNCHANGED <<collection, judgement>>
    BY <1>2 DEF Refuse
  <2>2. QueueInv' /\ IsSeq(results)' /\ ResultsInv'
    BY <2>1, RecordStepInv
  <2>3. stage' = "next" /\ UNCHANGED <<config, exit>>
    BY <2>1 DEF Record
  <2>4. Idle'
    BY <2>1 DEF DriverInv, StageInv, Idle, collection, judgement
  <2>5. StageInv'
    BY <2>1, <2>3, <2>4 DEF DriverInv, StageInv
  <2> QED
    BY <2>2, <2>5 DEF DriverInv
<1>3. CASE StartCollector
  <2>1. /\ stage = "next" /\ stage' = "collect" /\ queue # <<>> /\ Precheck(Job.inst)
        /\ UNCHANGED <<config, queue, results, exit>>
        /\ origin' = Job.inst
    BY <1>3 DEF StartCollector
  <2>2. QueueInv' /\ IsSeq(results)' /\ ResultsInv'
    BY <2>1, DriverKept
  <2>3. Job.inst \in Origins
    <3>1. config \in Configs /\ QueueInv
      BY DEF DriverInv, StageInv
    <3> QED
      BY <2>1, <3>1, JobIsNext, SelectionIsSeq
  <2>4. Init'
    BY <1>3, <2>3 DEF StartCollector, Init
  <2>5. CollectorInv'
    BY <2>4, StartCollectorInv
  <2>6. IsConcrete(origin)' /\ (origin = Job.inst)'
    BY <2>1 DEF Precheck, IsConcrete, Job
  <2>7. StageInv'
    BY <2>1, <2>5, <2>6 DEF DriverInv, StageInv
  <2> QED
    BY <2>2, <2>7 DEF DriverInv
<1>4. CASE Collect
  <2>1. stage = "collect" /\ Next /\ UNCHANGED <<config, stage, queue, results, exit>>
    BY <1>4 DEF Collect, driver
  <2>2. QueueInv' /\ IsSeq(results)' /\ ResultsInv'
    BY <2>1, DriverKept
  <2>3. CollectorInv /\ IsConcrete(origin) /\ queue # <<>> /\ origin = Job.inst
    BY <2>1 DEF DriverInv, StageInv
  <2>4. CollectorInv' /\ origin' = origin
    BY <2>1, <2>3, StepCollector, StepRecords
  <2>5. IsConcrete(origin)' /\ (origin = Job.inst)'
    BY <2>1, <2>3, <2>4 DEF IsConcrete, Job
  <2>6. StageInv'
    BY <2>1, <2>3, <2>4, <2>5 DEF DriverInv, StageInv
  <2> QED
    BY <2>2, <2>6 DEF DriverInv
<1>5. CASE HandOver \/ Judge
  <2>1. /\ stage \in {"collect", "judge"} /\ stage' = "judge" /\ status = "done"
        /\ UNCHANGED <<config, queue, results, exit>> /\ UNCHANGED vars
    <3>1. CASE HandOver
      BY <3>1 DEF HandOver, collection, vars
    <3>2. CASE Judge
      BY <3>2, JudgeKeeps DEF Judge, driver, DriverInv, StageInv
    <3> QED
      BY <1>5, <3>1, <3>2
  <2>2. QueueInv' /\ IsSeq(results)' /\ ResultsInv'
    BY <2>1, DriverKept
  <2>3. CollectorInv /\ IsConcrete(origin) /\ queue # <<>> /\ origin = Job.inst
    BY <2>1 DEF DriverInv, StageInv
  <2>4. CollectorInv' /\ origin' = origin /\ status' = "done"
    BY <2>1, <2>3, StepCollector DEF vars
  <2>5. IsConcrete(origin)' /\ (origin = Job.inst)'
    BY <2>1, <2>3, <2>4 DEF IsConcrete, Job
  <2>6. StageInv'
    BY <2>1, <2>3, <2>4, <2>5 DEF DriverInv, StageInv
  <2> QED
    BY <2>2, <2>6 DEF DriverInv
<1>6. CASE Conclude
  <2>1. stage = "judge" /\ Record(verdict = "pure") /\ Discard
    BY <1>6 DEF Conclude
  <2>2. queue # <<>>
    BY <2>1 DEF DriverInv, StageInv
  <2>3. QueueInv' /\ IsSeq(results)' /\ ResultsInv'
    BY <2>1, <2>2, RecordStepInv
  <2>4. stage' = "next" /\ UNCHANGED <<config, exit>>
    BY <2>1 DEF Record
  <2>5. Idle'
    BY <2>1 DEF Discard, Idle
  <2>6. StageInv'
    BY <2>1, <2>4, <2>5 DEF DriverInv, StageInv
  <2> QED
    BY <2>3, <2>6 DEF DriverInv
<1>7. CASE Report
  <2>1. /\ stage = "next" /\ stage' = "done" /\ exit' \in {0, -1}
        /\ UNCHANGED <<config, queue, results>> /\ UNCHANGED <<collection, judgement>>
    BY <1>7 DEF Report
  <2>2. QueueInv' /\ IsSeq(results)' /\ ResultsInv'
    BY <2>1, DriverKept
  <2>3. Idle'
    BY <2>1 DEF DriverInv, StageInv, Idle, collection, judgement
  <2>4. StageInv'
    BY <2>1, <2>3 DEF DriverInv, StageInv
  <2> QED
    BY <2>2, <2>4 DEF DriverInv
<1>8. CASE Abort
  <2>1. /\ stage \in {"select", "collect", "judge"} /\ stage' = "panicked"
        /\ UNCHANGED <<config, queue, results, exit>>
    BY <1>8 DEF Abort, MayAbort
  <2>2. QueueInv' /\ IsSeq(results)' /\ ResultsInv'
    BY <2>1, DriverKept
  <2>3. StageInv'
    BY <2>1 DEF DriverInv, StageInv
  <2> QED
    BY <2>2, <2>3 DEF DriverInv
<1>9. CASE UNCHANGED <<driver, collection, judgement>>
  <2>1. UNCHANGED <<config, stage, queue, results, exit>> /\ UNCHANGED vars
    BY <1>9 DEF driver, collection, vars
  <2>2. QueueInv' /\ IsSeq(results)' /\ ResultsInv'
    BY <2>1, DriverKept
  <2>3. Idle => Idle'
    BY <1>9 DEF Idle, collection, judgement
  <2>4. CollectorInv => CollectorInv'
    BY <2>1, StepCollector
  <2>5. /\ IsConcrete(origin) => IsConcrete(origin)'
        /\ origin = Job.inst => (origin = Job.inst)'
        /\ status' = status
    BY <2>1 DEF IsConcrete, Job, vars
  <2>6. StageInv'
    BY <2>1, <2>3, <2>4, <2>5 DEF DriverInv, StageInv
  <2> QED
    BY <2>2, <2>6 DEF DriverInv
<1>10. \/ Select \/ Refuse \/ StartCollector \/ Collect \/ HandOver \/ Judge \/ Conclude
       \/ Report \/ Abort
       \/ UNCHANGED <<driver, collection, judgement>>
  BY DEF DriverNext, Drive, RunProgram, Over, all
<1> QED
  BY <1>1, <1>2, <1>3, <1>4, <1>5, <1>6, <1>7, <1>8, <1>9, <1>10

\* In every run of the plugin.
THEOREM PluginInvariant == DriverSpec => []DriverInv
<1>1. DriverInit => DriverInv
  BY InitDriver
<1>2. DriverInv /\ [DriverNext \/ Over]_all => DriverInv'
  BY StepDriver
<1> QED
  BY <1>1, <1>2, PTL DEF DriverSpec

\* The storages and the analyzer are as good as new whenever the next function
\* is begun with, the collector and the analyzer work on the function whose
\* turn it is, and the compiler exits only with the report.
THEOREM PluginTypeCorrect == DriverSpec => []DriverTypeOK
<1>1. DriverInv => DriverTypeOK
  <2> SUFFICES ASSUME DriverInv
               PROVE  DriverTypeOK
    OBVIOUS
  <2>1. config \in Configs /\ QueueInv
    BY DEF DriverInv, StageInv
  <2>2. ToSet(queue) \subseteq ToSet(Selected(config))
    <3>1. IsSeq(Selected(config)) /\ IsSeq(queue)
      BY <2>1, SelectionIsSeq DEF QueueInv
    <3>2. /\ DOMAIN Selected(config) = 1..Len(Selected(config))
          /\ DOMAIN queue = 1..Len(queue)
          /\ Len(queue) \in Nat /\ Len(Selected(config)) \in Nat
      BY <3>1, SeqOverElements DEF IsSeq
    <3>3. \A k \in DOMAIN queue : Len(Selected(config)) - Len(queue) + k \in DOMAIN Selected(config)
      BY <2>1, <3>2 DEF QueueInv
    <3> QED
      BY <2>1, <3>3 DEF QueueInv, ToSet
  <2>3. stage \in {"collect", "judge"} => status # "idle"
    BY DEF DriverInv, StageInv, CollectorInv, IInv, TypeOK
  <2> QED
    BY <2>2, <2>3 DEF DriverInv, StageInv, DriverTypeOK
<1> QED
  BY <1>1, PluginInvariant, PTL

\* The report answers the selection: one result per function, in order and
\* with its annotation, or, if only inconsistent ones are asked for, nothing
\* but those.
THEOREM ReportFollowsSelection == DriverSpec => []ResultsFollowSelection
<1>1. DriverInv => ResultsFollowSelection
  <2> SUFFICES ASSUME DriverInv, stage \in {"next", "done"}
               PROVE  ResultsFollowSelection
    BY DEF ResultsFollowSelection
  <2> DEFINE n == Len(Selected(config)) - Len(queue)
             listed == [k \in DOMAIN results |->
                           [inst |-> results[k].inst, annotated |-> results[k].annotated]]
             jobs == Selected(config)
  <2>1. config \in Configs /\ QueueInv /\ IsSeq(results)
    BY DEF DriverInv, StageInv
  <2>2. IsSeq(jobs) /\ Len(jobs) \in Nat /\ n \in Nat /\ n <= Len(jobs)
    BY <2>1, SelectionIsSeq DEF QueueInv, IsSeq
  <2>3. AnsweredJobs = [k \in 1..n |-> jobs[k]]
    <3>1. jobs \in Seq({jobs[k] : k \in DOMAIN jobs})
      BY <2>2, SeqOverElements
    <3>2. SubSeq(jobs, 1, n) = [k \in 1..n |-> jobs[k]]
      BY <2>2, <3>1
    <3> QED
      BY <3>2 DEF AnsweredJobs
  <2>4. Results(results, config.onlyInconsistent, n, jobs)
    BY DEF DriverInv, ResultsInv
  <2>5. DOMAIN results = 1..Len(results)
    BY <2>1, SeqOverElements
  <2> HIDE DEF n, jobs
  <2>6. CASE config.onlyInconsistent
    <3>1. Inconsistent = DOMAIN results
      BY <2>4, <2>6 DEF Results, Inconsistent
    <3>2. InOrder(listed, AnsweredJobs)
      <4>1. \A k \in DOMAIN results : \E m \in 1..n : listed[k] = jobs[m]
        BY <2>4, <2>6 DEF Results, ResultOf
      <4>2. \A k, l \in DOMAIN results :
                k < l => \E m, o \in 1..n : m < o /\ listed[k] = jobs[m] /\ listed[l] = jobs[o]
        BY <2>4, <2>6 DEF Results, ResultOf
      <4>3. DOMAIN listed = DOMAIN results
        OBVIOUS
      <4> HIDE DEF listed
      <4> QED
        BY <2>3, <4>1, <4>2, <4>3 DEF InOrder, ToSet
    <3> QED
      BY <2>6, <3>1, <3>2 DEF ResultsFollowSelection
  <2>7. CASE ~config.onlyInconsistent
    <3>1. Len(results) = n /\ \A k \in 1..n : ResultOf(results[k], jobs[k])
      BY <2>4, <2>7 DEF Results
    <3>2. listed = [k \in 1..n |-> jobs[k]]
      BY <2>5, <3>1 DEF ResultOf
    <3> QED
      BY <2>3, <2>7, <3>2 DEF ResultsFollowSelection
  <2> QED
    BY <2>6, <2>7
<1> QED
  BY <1>1, PluginInvariant, PTL

\* What the analyzer is handed is what its own proofs assume: each call of a
\* record is answered by an earlier one, and the record of the function is the
\* last and the first that answers for it.
THEOREM AnalyzerIsHandedItsInput == DriverSpec => []HandedIsComplete
<1>1. DriverInv => HandedIsComplete
  <2> SUFFICES ASSUME DriverInv, stage = "judge"
               PROVE  HandedIsComplete
    BY DEF HandedIsComplete
  <2>1. CollectorInv /\ IsConcrete(origin) /\ status = "done"
    BY DEF DriverInv, StageInv
  <2>2. HasBodyInfo(fns, origin) /\ StorageOrdered
    BY <2>1 DEF CollectorInv, Bottom, IInv
  <2>3. ~IsClosure(origin) => OriginLast
    BY <2>1 DEF CollectorInv, Proper, OriginInv
  <2> QED
    BY <2>2, <2>3 DEF HandedIsComplete
<1> QED
  BY <1>1, PluginInvariant, PTL

=============================================================================
