------------------------- MODULE TerminalPageProofs -------------------------
(***************************************************************************)
(* Proofs about parts of the terminal page and of its server, each from    *)
(* its own specification: the frame scheduler of the chart, the indicator  *)
(* computations, the shadow scheduler, the promotion of a strategy, the    *)
(* samples for the predictor, the calls to the control plane, and the      *)
(* write-backs that use them.                                              *)
(***************************************************************************)
EXTENDS RenderScheduler, IndicatorCompute, ShadowScheduler, ShadowPromotion,
        PredictorTraining, AutoTuning, FiniteSetTheorems, TLAPS

-----------------------------------------------------------------------------
(* The frame scheduler.                                                    *)

(* The job that waits for a layer is the newest one that was enqueued.     *)
WaitingIsNewest == \A j \in queue : j.version = newest[j.type]

(* What enqueue() takes for granted: a job waits only while "running" is   *)
(* set, and that means a flush is due, under way, or died of an exception. *)
RunningMeansFlush ==
    /\ queue # {} => running
    /\ running => rafs > 0 \/ elapsed # Off \/ threw

(* What a job let be is no newer than what was enqueued.                   *)
RefusedIsPast ==
    \A t \in Types : refused[t] =< newest[t] /\ newest[t] =< issued

SchedulerInv ==
    /\ SchedulerTypeOK
    /\ WaitingIsNewest /\ CleanShowsNewest /\ RefusedIsPast
    /\ RunningMeansFlush /\ OneFlushLoop

LEMMA SchedulerInvInit == SchedulerInit => SchedulerInv
<1> USE RenderBoundsAssumption, BudgetAssumption DEF SchedulerInit, Off
<1>1. SchedulerInit => SchedulerTypeOK
    <2> SUFFICES ASSUME SchedulerInit PROVE SchedulerTypeOK
        OBVIOUS
    <2>1. /\ running \in BOOLEAN /\ threw \in BOOLEAN /\ cleared \in BOOLEAN
          /\ chart \in BOOLEAN
        BY Zenon
    <2>2. newest \in [Types -> 0 .. MaxJobs] /\ refused \in [Types -> 0 .. MaxJobs]
        OBVIOUS
    <2>5. drawn \in [Types -> 0 .. MaxJobs] /\ blank \subseteq Types
        BY DEF Bare
    <2>3. elapsed \in 0 .. FrameBudget - 1 \union {Off} /\ rafs \in Nat
        OBVIOUS
    <2>4. generation \in 0 .. MaxCharts /\ issued \in 0 .. MaxJobs
        OBVIOUS
    <2> QED
        BY <2>1, <2>2, <2>3, <2>4, <2>5 DEF SchedulerTypeOK
<1>2. SchedulerInit => WaitingIsNewest /\ CleanShowsNewest
    BY DEF WaitingIsNewest, CleanShowsNewest
<1>4. SchedulerInit => RefusedIsPast
    <2> SUFFICES ASSUME SchedulerInit, NEW t \in Types
                 PROVE  refused[t] =< newest[t] /\ newest[t] =< issued
        BY DEF RefusedIsPast
    <2>1. refused[t] = 0 /\ newest[t] = 0 /\ issued = 0
        OBVIOUS
    <2> QED
        BY <2>1
<1>3. SchedulerInit => RunningMeansFlush /\ OneFlushLoop
    BY DEF RunningMeansFlush, OneFlushLoop
<1> QED
    BY <1>1, <1>2, <1>3, <1>4 DEF SchedulerInv

(* The thread of the browser calls one flush at a time, so a flush that is *)
(* under way is the only one and its time is below the budget.             *)
LEMMA EnqueueKeeps == SchedulerInv /\ Enqueue => SchedulerInv'
<1> SUFFICES ASSUME SchedulerInv, Enqueue PROVE SchedulerInv'
    OBVIOUS
<1>1. PICK t \in Types :
        /\ queue' = WithJob(queue, [type |-> t, generation |-> generation,
                                    version |-> issued'])
        /\ dirty' = dirty \union {t}
        /\ newest' = [newest EXCEPT ![t] = issued']
    BY DEF Enqueue
<1> USE BudgetAssumption, RenderBoundsAssumption DEF SchedulerInv, SchedulerTypeOK, Off
<1>2. issued' \in 1 .. MaxJobs /\ issued' = issued + 1
    BY DEF Enqueue
<1>3. [type |-> t, generation |-> generation, version |-> issued'] \in Jobs
    BY <1>2 DEF Jobs
<1>4. SchedulerTypeOK'
    BY <1>1, <1>2, <1>3 DEF Enqueue, WithJob
<1>5. WaitingIsNewest'
    <2> SUFFICES ASSUME NEW j \in queue' PROVE j.version = newest'[j.type]
        BY DEF WaitingIsNewest
    <2>1. CASE j = [type |-> t, generation |-> generation, version |-> issued']
        BY <1>1, <2>1
    <2>2. CASE j \in queue /\ j.type # t
        BY <1>1, <2>2 DEF WaitingIsNewest, Jobs
    <2> QED
        BY <1>1, <2>1, <2>2 DEF WithJob
<1>6. CleanShowsNewest'
    BY <1>1 DEF CleanShowsNewest, Enqueue
<1>7. RunningMeansFlush'
    BY DEF Enqueue, RunningMeansFlush, OneFlushLoop
<1>8. OneFlushLoop'
    BY DEF Enqueue, OneFlushLoop
<1>9. RefusedIsPast'
    <2>1. refused' = refused
        BY DEF Enqueue
    <2> QED
        BY <1>1, <1>2, <2>1 DEF RefusedIsPast
<1> QED
    BY <1>4, <1>5, <1>6, <1>7, <1>8, <1>9

LEMMA RunJobKeeps == SchedulerInv /\ RunJob => SchedulerInv'
<1> SUFFICES ASSUME SchedulerInv, RunJob PROVE SchedulerInv'
    OBVIOUS
<1>1. PICK job \in queue : queue' = queue \ {job} /\ Draw(job)
    BY DEF RunJob, HeadJobs
<1>2. PICK later \in elapsed .. FrameBudget :
        IF later = FrameBudget THEN Reschedule ELSE elapsed' = later /\ UNCHANGED rafs
    BY DEF RunJob
<1> USE BudgetAssumption, RenderBoundsAssumption DEF SchedulerInv, SchedulerTypeOK, Off
<1>3. /\ job.type \in Types /\ job.version \in 0 .. MaxJobs
      /\ job.version = newest[job.type]
    BY <1>1 DEF Jobs, WaitingIsNewest
<1>4. /\ rafs' \in Nat /\ elapsed' \in 0 .. FrameBudget - 1 \union {Off}
      /\ elapsed' = Off => rafs' = rafs + 1
      /\ elapsed' # Off => rafs' = rafs
    BY <1>2 DEF RunJob, Reschedule
<1>5. SchedulerTypeOK'
    <2>1. CASE Applies(job)
        <3>1. PICK outcome \in Outcomes(job) :
                /\ drawn' = [drawn EXCEPT ![job.type] = outcome.shows]
                /\ dirty' = IF outcome.clears THEN dirty \ {job.type} ELSE dirty
                /\ refused' = IF outcome.clears /\ outcome.shows # job.version
                              THEN [refused EXCEPT ![job.type] = job.version]
                              ELSE refused
            BY <1>1, <2>1 DEF Draw
        <3>2. outcome.shows \in 0 .. MaxJobs
            BY <1>3, <3>1 DEF Outcomes, Bare
        <3> QED
            BY <1>1, <1>3, <1>4, <3>1, <3>2 DEF RunJob
    <2>2. CASE ~Applies(job)
        BY <1>1, <1>3, <1>4, <2>2 DEF RunJob, Draw, layerVars
    <2> QED
        BY <2>1, <2>2
<1>6. WaitingIsNewest'
    BY <1>1 DEF WaitingIsNewest, RunJob
<1>7. CleanShowsNewest'
    <2>1. newest' = newest /\ blank' = blank
        BY DEF RunJob
    <2>2. CASE Applies(job)
        <3>1. PICK outcome \in Outcomes(job) :
                /\ drawn' = [drawn EXCEPT ![job.type] = outcome.shows]
                /\ dirty' = IF outcome.clears THEN dirty \ {job.type} ELSE dirty
                /\ refused' = IF outcome.clears /\ outcome.shows # job.version
                              THEN [refused EXCEPT ![job.type] = job.version]
                              ELSE refused
            BY <1>1, <2>2 DEF Draw
        <3> SUFFICES ASSUME NEW t \in Types \ dirty'
                     PROVE  \/ newest[t] \in {drawn'[t], refused'[t]}
                            \/ t \in blank /\ drawn'[t] = Bare
            BY <2>1 DEF CleanShowsNewest
        <3>2. CASE t = job.type
            <4>1. outcome.clears
                BY <2>2, <3>1, <3>2 DEF Applies
            <4>2. drawn'[t] = outcome.shows
                BY <3>1, <3>2
            <4>3. outcome.shows # job.version => refused'[t] = job.version
                BY <3>1, <3>2, <4>1
            <4> QED
                BY <1>3, <3>2, <4>2, <4>3
        <3>3. CASE t # job.type
            <4>1. t \notin dirty /\ drawn'[t] = drawn[t] /\ refused'[t] = refused[t]
                BY <3>1, <3>3
            <4> QED
                BY <4>1 DEF CleanShowsNewest
        <3> QED
            BY <3>2, <3>3
    <2>3. CASE ~Applies(job)
        BY <1>1, <2>1, <2>3 DEF CleanShowsNewest, Draw, layerVars
    <2> QED
        BY <2>2, <2>3
<1>8. RunningMeansFlush'
    <2>1. elapsed' = Off => rafs' > 0
        BY <1>4
    <2>2. queue' \subseteq queue
        BY <1>1
    <2>3. running' = running
        BY DEF RunJob
    <2>4. queue' # {} => running'
        BY <2>2, <2>3, Zenon DEF RunningMeansFlush
    <2> QED
        BY <2>1, <2>4, Zenon DEF RunningMeansFlush
<1>9. OneFlushLoop'
    <2>1. cleared' = cleared /\ threw' = threw /\ running' = running /\ elapsed # Off
        BY DEF RunJob
    <2>2. rafs' + (IF elapsed' = Off THEN 0 ELSE 1) = rafs + 1
        <3>1. CASE elapsed' = Off
            BY <1>4, <3>1
        <3>2. CASE elapsed' # Off
            BY <1>4, <3>2
        <3> QED
            BY <3>1, <3>2
    <2> QED
        BY <2>1, <2>2 DEF OneFlushLoop
<1>10. RefusedIsPast'
    <2>1. newest' = newest /\ issued' = issued
        BY DEF RunJob
    <2>2. CASE Applies(job)
        BY <1>1, <1>3, <2>1, <2>2 DEF RefusedIsPast, Draw
    <2>3. CASE ~Applies(job)
        BY <1>1, <2>1, <2>3 DEF RefusedIsPast, Draw, layerVars
    <2> QED
        BY <2>2, <2>3
<1> QED
    BY <1>5, <1>6, <1>7, <1>8, <1>9, <1>10

LEMMA SchedulerInvKept == SchedulerInv /\ [SchedulerNext]_renderVars => SchedulerInv'
<1> SUFFICES ASSUME SchedulerInv, [SchedulerNext]_renderVars PROVE SchedulerInv'
    OBVIOUS
<1> USE BudgetAssumption, RenderBoundsAssumption DEF SchedulerInv, SchedulerTypeOK, WaitingIsNewest,
        CleanShowsNewest, RefusedIsPast, RunningMeansFlush, OneFlushLoop, Off, chartVars,
        layerVars
<1>1. CASE Enqueue
    BY <1>1, EnqueueKeeps
<1>2. CASE RemoveChart
    <2>1. generation' \in 0 .. MaxCharts
        BY <1>2 DEF RemoveChart
    <2>6. /\ running' \in BOOLEAN /\ threw' \in BOOLEAN /\ cleared' \in BOOLEAN
          /\ chart' \in BOOLEAN
        BY <1>2, Zenon DEF RemoveChart
    <2>7. drawn' \in [Types -> 0 .. MaxJobs] /\ blank' \subseteq Types
        BY <1>2 DEF RemoveChart, Bare
    <2>2. SchedulerTypeOK'
        BY <1>2, <2>1, <2>6, <2>7 DEF RemoveChart
    <2>3. WaitingIsNewest' /\ CleanShowsNewest' /\ RefusedIsPast'
        BY <1>2 DEF RemoveChart, Bare
    <2>4. RunningMeansFlush'
        BY <1>2, Zenon DEF RemoveChart
    <2>5. OneFlushLoop'
        BY <1>2 DEF RemoveChart
    <2> QED
        BY <2>2, <2>3, <2>4, <2>5
<1>3. CASE AnimationFrame
    BY <1>3 DEF AnimationFrame
<1>4. CASE RunJob
    BY <1>4, RunJobKeeps
<1>5. CASE StageSpent
    BY <1>5 DEF StageSpent, Reschedule
<1>6. CASE JobThrows
    <2>1. PICK job \in queue :
            /\ queue' = queue \ {job}
            /\ job.type \in dirty
            /\ \E after \in {drawn[job.type], job.version, Bare} :
                   drawn' = [drawn EXCEPT ![job.type] = after]
        BY <1>6 DEF JobThrows, HeadJobs, Applies
    <2> PICK after \in {drawn[job.type], job.version, Bare} :
            drawn' = [drawn EXCEPT ![job.type] = after]
        BY <2>1
    <2>2. after \in 0 .. MaxJobs /\ job.type \in Types
        BY <2>1 DEF Jobs, Bare
    <2>3. SchedulerTypeOK'
        BY <1>6, <2>1, <2>2 DEF JobThrows
    <2>4. WaitingIsNewest' /\ CleanShowsNewest' /\ RefusedIsPast'
        BY <1>6, <2>1, <2>2 DEF JobThrows
    <2>5. RunningMeansFlush' /\ OneFlushLoop'
        BY <1>6, <2>1 DEF JobThrows
    <2> QED
        BY <2>3, <2>4, <2>5
<1>7. CASE Drained
    <2>1. SchedulerTypeOK' /\ WaitingIsNewest' /\ CleanShowsNewest' /\ RefusedIsPast'
        BY <1>7 DEF Drained
    <2>2. RunningMeansFlush'
        BY <1>7, Zenon DEF Drained
    <2>3. OneFlushLoop'
        BY <1>7 DEF Drained
    <2> QED
        BY <2>1, <2>2, <2>3
<1>8. CASE UNCHANGED renderVars
    BY <1>8 DEF renderVars, schedulerVars
<1>9. CASE CreateChart
    <2>1. generation' \in 0 .. MaxCharts
        BY <1>9 DEF CreateChart
    <2>2. SchedulerTypeOK'
        BY <1>9, <2>1 DEF CreateChart, schedulerVars
    <2>3. /\ WaitingIsNewest' /\ CleanShowsNewest' /\ RefusedIsPast'
          /\ RunningMeansFlush' /\ OneFlushLoop'
        BY <1>9 DEF CreateChart, schedulerVars
    <2> QED
        BY <2>2, <2>3
<1>10. CASE AnimationSettles
    <2>1. SchedulerTypeOK'
        BY <1>10 DEF AnimationSettles, schedulerVars
    <2>2. WaitingIsNewest' /\ RefusedIsPast' /\ RunningMeansFlush' /\ OneFlushLoop'
        BY <1>10 DEF AnimationSettles, schedulerVars
    <2>3. CleanShowsNewest'
        <3>1. Candle \notin dirty => newest[Candle] = refused[Candle] \/ newest[Candle] = drawn[Candle]
            BY <1>10 DEF AnimationSettles
        <3> QED
            BY <1>10, <3>1 DEF AnimationSettles
    <2> QED
        BY <2>1, <2>2, <2>3
<1> QED
    BY <1>1, <1>2, <1>3, <1>4, <1>5, <1>6, <1>7, <1>8, <1>9, <1>10 DEF SchedulerNext

(* The queue, the dirty marks and the one flush loop fit together at every *)
(* step of the scheduler and of the chart.                                 *)
THEOREM SchedulerInvariant == SchedulerSpec => []SchedulerInv
BY SchedulerInvInit, SchedulerInvKept, PTL DEF SchedulerSpec

(* For any layers, priorities and budgets: a layer that is not dirty was   *)
(* unmarked by the job of its newest version, though jobs replace each     *)
(* other and are lost to exceptions and to removed charts; or it is blank  *)
(* on a chart that came after its last job.                                *)
THEOREM CleanLayersAreCurrent == SchedulerSpec => []CleanShowsNewest
BY SchedulerInvariant, PTL DEF SchedulerInv

(* A job never waits without a flush to come, and there is one flush loop, *)
(* until a callback throws or a chart is cleared while a frame is due.     *)
THEOREM NoJobStrands == SchedulerSpec => [](WaitingHasFlush /\ OneFlushLoop)
<1>1. SchedulerInv => WaitingHasFlush /\ OneFlushLoop
    BY DEF SchedulerInv, RunningMeansFlush, WaitingHasFlush
<1> QED
    BY <1>1, SchedulerInvariant, PTL

-----------------------------------------------------------------------------
(* The indicator computations.                                             *)

IndicatorInv == IndicatorTypeOK /\ PendingIsInFlight /\ ShownIsNewest

LEMMA IndicatorInvInit == IndicatorInit => IndicatorInv
<1> SUFFICES ASSUME IndicatorInit PROVE IndicatorInv
    OBVIOUS
<1> USE EffectsAssumption DEF IndicatorInit
<1>1. worker \in BOOLEAN /\ asked \in BOOLEAN
    OBVIOUS
<1>2. requests \in Seq(Effects) /\ answers \in Seq([request : Effects, failed : BOOLEAN])
    OBVIOUS
<1>3. seq \in 0 .. MaxEffects /\ shown = Nothing
    OBVIOUS
<1>4. IndicatorTypeOK
    BY <1>1, <1>2, <1>3 DEF IndicatorTypeOK
<1>5. PendingIsInFlight
    BY DEF PendingIsInFlight
<1>6. ShownIsNewest
    BY DEF ShownIsNewest, Nothing
<1> QED
    BY <1>4, <1>5, <1>6 DEF IndicatorInv

LEMMA IndicatorTypeKept == IndicatorTypeOK /\ [IndicatorNext]_indicatorVars => IndicatorTypeOK'
<1> SUFFICES ASSUME IndicatorTypeOK, [IndicatorNext]_indicatorVars PROVE IndicatorTypeOK'
    OBVIOUS
<1> USE EffectsAssumption DEF IndicatorTypeOK, Effects, Nothing, adapterVars
<1>1. CASE ClearEffect
    <2>1. asked' \in BOOLEAN /\ shown' = Nothing /\ UNCHANGED <<adapterVars, resolved>>
        BY <1>1, Zenon DEF ClearEffect
    <2>2. seq' \in 0 .. MaxEffects
        BY <1>1 DEF ClearEffect
    <2> QED
        BY <2>1, <2>2
<1>2. CASE ComputeEffect
    <2>1. seq' \in Effects /\ UNCHANGED <<worker, answers, shown>>
        BY <1>2 DEF ComputeEffect
    <2>2. asked' \in BOOLEAN
        BY <1>2, Zenon DEF ComputeEffect
    <2>3. requests' \in Seq(Effects) /\ pending' \subseteq Effects /\ resolved' \subseteq Effects
        <3>1. CASE worker
            <4>1. /\ requests' = Append(requests, seq') /\ pending' = pending \union {seq'}
                  /\ UNCHANGED resolved
                BY <1>2, <3>1 DEF ComputeEffect
            <4> QED
                BY <2>1, <4>1
        <3>2. CASE ~worker
            BY <1>2, <2>1, <3>2 DEF ComputeEffect
        <3> QED
            BY <3>1, <3>2
    <2> QED
        BY <2>1, <2>2, <2>3
<1>3. CASE WorkerComputes
    <2>1. PICK failed \in BOOLEAN :
            answers' = Append(answers, [request |-> Head(requests), failed |-> failed])
        BY <1>3 DEF WorkerComputes
    <2>2. Head(requests) \in Effects /\ requests' \in Seq(Effects)
        BY <1>3 DEF WorkerComputes
    <2>3. answers' \in Seq([request : Effects, failed : BOOLEAN])
        BY <2>1, <2>2
    <2> QED
        BY <1>3, <2>2, <2>3 DEF WorkerComputes
<1>4. CASE HandleWorkerMessage
    <2>1. answers' \in Seq([request : Effects, failed : BOOLEAN])
        BY <1>4 DEF HandleWorkerMessage
    <2> QED
        BY <1>4, <2>1 DEF HandleWorkerMessage
<1>5. CASE WorkerError
    <2>1. worker' \in BOOLEAN
        BY <1>5, Zenon DEF WorkerError
    <2>2. /\ pending' = {} /\ requests' = <<>> /\ answers' = <<>>
          /\ UNCHANGED <<resolved, seq, asked, shown>>
        BY <1>5 DEF WorkerError
    <2>3. requests' \in Seq(Effects) /\ answers' \in Seq([request : Effects, failed : BOOLEAN])
        BY <2>2
    <2> QED
        BY <2>1, <2>2, <2>3
<1>6. CASE ShowResult
    BY <1>6 DEF ShowResult
<1>7. CASE UNCHANGED indicatorVars
    BY <1>7 DEF indicatorVars
<1> QED
    BY <1>1, <1>2, <1>3, <1>4, <1>5, <1>6, <1>7 DEF IndicatorNext

(* A request moves from its channel to the other and its promise goes when *)
(* it is answered; the two channels and the promises are lost together.    *)
LEMMA PendingKept ==
    IndicatorTypeOK /\ PendingIsInFlight /\ [IndicatorNext]_indicatorVars => PendingIsInFlight'
<1> SUFFICES ASSUME IndicatorTypeOK, PendingIsInFlight, [IndicatorNext]_indicatorVars,
                    NEW p \in pending'
             PROVE  \/ \E i \in DOMAIN requests' : requests'[i] = p
                    \/ \E i \in DOMAIN answers' : answers'[i].request = p
    BY DEF PendingIsInFlight
<1> USE DEF IndicatorTypeOK
<1>1. CASE UNCHANGED <<pending, requests, answers>>
    BY <1>1 DEF PendingIsInFlight
<1>2. CASE ComputeEffect
    <2>1. CASE worker
        <3>1. requests' = Append(requests, seq') /\ seq' \in Effects /\ UNCHANGED answers
            BY <1>2, <2>1, EffectsAssumption DEF ComputeEffect, adapterVars, Effects
        <3>2. CASE p = seq'
            BY <3>1, <3>2
        <3>3. CASE p \in pending
            <4>1. CASE \E i \in DOMAIN requests : requests[i] = p
                BY <3>1, <4>1
            <4>2. CASE \E i \in DOMAIN answers : answers[i].request = p
                BY <3>1, <4>2
            <4> QED
                BY <3>3, <4>1, <4>2 DEF PendingIsInFlight
        <3> QED
            BY <1>2, <2>1, <3>2, <3>3 DEF ComputeEffect
    <2>2. CASE ~worker
        BY <1>1, <1>2, <2>2 DEF ComputeEffect
    <2> QED
        BY <2>1, <2>2
<1>3. CASE WorkerComputes
    <2>1. PICK failed \in BOOLEAN :
            answers' = Append(answers, [request |-> Head(requests), failed |-> failed])
        BY <1>3 DEF WorkerComputes
    <2>2. /\ requests # <<>> /\ requests' = Tail(requests) /\ p \in pending
        BY <1>3 DEF WorkerComputes
    <2>3. CASE \E i \in DOMAIN answers : answers[i].request = p
        BY <2>1, <2>3
    <2>4. ASSUME NEW i \in DOMAIN requests, requests[i] = p
          PROVE  \/ \E j \in DOMAIN requests' : requests'[j] = p
                 \/ \E j \in DOMAIN answers' : answers'[j].request = p
        <3>1. CASE i = 1
            <4>1. Len(answers) + 1 \in DOMAIN answers'
                BY <2>1
            <4>2. answers'[Len(answers) + 1].request = p
                BY <2>1, <2>2, <2>4, <3>1
            <4> QED
                BY <4>1, <4>2
        <3>2. CASE i # 1
            <4>1. i - 1 \in DOMAIN requests' /\ requests'[i - 1] = p
                BY <2>2, <2>4, <3>2
            <4> QED
                BY <4>1
        <3> QED
            BY <3>1, <3>2
    <2> QED
        BY <2>2, <2>3, <2>4 DEF PendingIsInFlight
<1>4. CASE HandleWorkerMessage
    <2>1. /\ answers # <<>> /\ answers' = Tail(answers) /\ UNCHANGED requests
          /\ p \in pending /\ p # Head(answers).request
        BY <1>4 DEF HandleWorkerMessage
    <2>2. ASSUME NEW i \in DOMAIN answers, answers[i].request = p
          PROVE  \E j \in DOMAIN answers' : answers'[j].request = p
        <3>1. i # 1
            BY <2>1, <2>2
        <3>2. i - 1 \in DOMAIN answers' /\ answers'[i - 1] = answers[i]
            BY <2>1, <3>1
        <3> QED
            BY <2>2, <3>2
    <2> QED
        BY <2>1, <2>2 DEF PendingIsInFlight
<1>5. CASE WorkerError
    BY <1>5 DEF WorkerError
<1> QED
    BY <1>1, <1>2, <1>3, <1>4, <1>5
    DEF IndicatorNext, ClearEffect, ShowResult, indicatorVars, adapterVars

LEMMA ShownKept ==
    IndicatorTypeOK /\ ShownIsNewest /\ [IndicatorNext]_indicatorVars => ShownIsNewest'
<1> SUFFICES ASSUME IndicatorTypeOK, ShownIsNewest, [IndicatorNext]_indicatorVars
             PROVE  ShownIsNewest'
    OBVIOUS
<1> USE EffectsAssumption DEF IndicatorTypeOK, ShownIsNewest, Effects, Nothing
<1>1. CASE ClearEffect
    BY <1>1 DEF ClearEffect
<1>2. CASE ComputeEffect
    BY <1>2 DEF ComputeEffect
<1>3. CASE ShowResult
    BY <1>3 DEF ShowResult
<1>4. CASE UNCHANGED <<seq, asked, shown>>
    BY <1>4
<1> QED
    BY <1>1, <1>2, <1>3, <1>4
    DEF IndicatorNext, WorkerComputes, HandleWorkerMessage, WorkerError, indicatorVars

(* Requests, promises and the series shown fit together at every step.     *)
THEOREM IndicatorInvariant == IndicatorSpec => []IndicatorInv
BY IndicatorInvInit, IndicatorTypeKept, PendingKept, ShownKept, PTL
DEF IndicatorSpec, IndicatorInv

(* However many effects run and in whatever order results come: what the   *)
(* chart shows while nothing is awaited belongs to the newest effect.      *)
THEOREM ShownSeriesIsNewest == IndicatorSpec => []ShownIsNewest
BY IndicatorInvariant, PTL DEF IndicatorInv

(* The chart never goes back to the series of an older effect.             *)
THEOREM SeriesNeverGoBack == IndicatorSpec => ShownNeverOlder
<1>1. IndicatorTypeOK /\ [IndicatorNext]_indicatorVars
        => [shown' # shown => shown' \in {seq', Nothing}]_indicatorVars
    BY DEF IndicatorNext, ClearEffect, ComputeEffect, WorkerComputes, HandleWorkerMessage,
           WorkerError, ShowResult, indicatorVars, adapterVars
<1> QED
    BY <1>1, IndicatorInvariant, PTL DEF IndicatorSpec, IndicatorInv, ShownNeverOlder

(* A promise the adapter keeps has its request or its answer on the way.   *)
THEOREM NoPromiseStrands == IndicatorSpec => []PendingIsInFlight
BY IndicatorInvariant, PTL DEF IndicatorInv

-----------------------------------------------------------------------------
(* The shadow scheduler.                                                   *)

ShadowInv == ShadowTypeOK /\ OneCycleAtATime /\ InFlightIsOpen

LEMMA ShadowInvInit == ShadowInit => ShadowInv
<1> SUFFICES ASSUME ShadowInit PROVE ShadowInv
    OBVIOUS
<1>1. /\ timer = FALSE /\ busy = FALSE /\ rendered = FALSE /\ raced = FALSE
    BY Zenon DEF ShadowInit
<1>2. runs \in [Slots -> Runs] /\ Cycles = {}
    BY DEF ShadowInit, Runs, NoRun, Cycles
<1>3. /\ snapshot \in [state : {"stopped", "running"}, enabled : BOOLEAN, inFlight : BOOLEAN]
      /\ InFlightIsOpen
    BY DEF ShadowInit, InFlightIsOpen
<1>4. timer \in BOOLEAN /\ busy \in BOOLEAN /\ rendered \in BOOLEAN /\ raced \in BOOLEAN
    BY <1>1, Zenon
<1>5. OneCycleAtATime
    BY <1>1, <1>2 DEF OneCycleAtATime
<1> QED
    BY <1>2, <1>3, <1>4, <1>5 DEF ShadowInv, ShadowTypeOK

(* A run that begins is a cycle only if the rendering was not busy; if the *)
(* page was busy none the less, the cycle has raced it.                    *)
LEMMA BeginKeeps ==
    ASSUME ShadowInv, NEW kind \in {"tick", "trigger", "hand"}, Begin(kind)
    PROVE  /\ runs' \in [Slots -> Runs]
           /\ busy' \in BOOLEAN /\ rendered' \in BOOLEAN /\ raced' \in BOOLEAN
           /\ OneCycleAtATime'
           /\ \E s \in Slots : runs'[s].by = kind
           /\ \A s \in Slots : runs[s].by \in {"tick", "trigger"} => runs'[s] = runs[s]
<1>1. PICK s \in Slots :
        runs[s] = NoRun /\ runs' = [runs EXCEPT ![s] = [by |-> kind, cycle |-> ~rendered]]
    BY DEF Begin
<1> USE DEF ShadowInv, ShadowTypeOK
<1>2. /\ runs' \in [Slots -> Runs] /\ runs'[s].by = kind
      /\ \A t \in Slots : t # s => runs'[t] = runs[t]
    BY <1>1 DEF Runs
<1>3. runs[s].by = "none" /\ runs[s].cycle = FALSE
    BY <1>1 DEF NoRun
<1>4. busy' \in BOOLEAN /\ rendered' \in BOOLEAN /\ raced' \in BOOLEAN
    BY Zenon DEF Begin
<1>5. ASSUME rendered = TRUE PROVE OneCycleAtATime'
    <2>1. runs'[s].cycle = FALSE
        BY <1>1, <1>5
    <2>2. Cycles' = Cycles
        BY <1>2, <1>3, <2>1 DEF Cycles
    <2>3. (busy' <=> busy) /\ (raced' <=> raced)
        BY <1>5, Zenon DEF Begin
    <2> QED
        BY <2>2, <2>3, Zenon DEF OneCycleAtATime
<1>6. ASSUME rendered = FALSE PROVE OneCycleAtATime'
    <2>1. runs'[s].cycle = TRUE
        BY <1>1, <1>6
    <2>2. Cycles' = Cycles \union {s}
        BY <1>2, <1>3, <2>1 DEF Cycles
    <2>3. busy' /\ (raced' <=> raced \/ busy)
        BY <1>6, Zenon DEF Begin
    <2>4. ASSUME ~raced' PROVE \A t, u \in Cycles' : t = u
        <3>1. ~raced /\ ~busy
            BY <2>3, <2>4, Zenon
        <3>2. Cycles = {}
            BY <3>1 DEF OneCycleAtATime
        <3> QED
            BY <2>2, <3>2
    <2>5. Cycles' # {}
        BY <2>2
    <2> QED
        BY <2>3, <2>4, <2>5, Zenon DEF OneCycleAtATime
<1>7. rendered = TRUE \/ rendered = FALSE
    BY Zenon
<1> QED
    BY <1>2, <1>3, <1>4, <1>5, <1>6, <1>7

LEMMA RunEndsKeeps == ShadowInv /\ RunEnds => ShadowInv'
<1> SUFFICES ASSUME ShadowInv, RunEnds PROVE ShadowInv'
    OBVIOUS
<1>1. PICK s \in Slots :
        /\ runs[s] # NoRun
        /\ runs' = [runs EXCEPT ![s] = NoRun]
        /\ busy' = (busy /\ ~runs[s].cycle)
        /\ raced' = (raced /\ Cycles' # {})
        /\ snapshot' = IF runs[s].by = "hand" THEN snapshot
                       ELSE [snapshot EXCEPT
                           !.state = IF runs[s].by = "tick" THEN "running" ELSE @,
                           !.inFlight = FALSE]
        /\ UNCHANGED <<timer, rendered>>
    BY DEF RunEnds
<1> USE DEF ShadowInv, ShadowTypeOK
<1>2. runs' \in [Slots -> Runs] /\ \A t \in Slots : t # s => runs'[t] = runs[t]
    BY <1>1 DEF Runs, NoRun
<1>3. Cycles' = Cycles \ {s}
    BY <1>1 DEF Cycles, NoRun
<1>4. busy' \in BOOLEAN /\ rendered' \in BOOLEAN /\ raced' \in BOOLEAN /\ timer' \in BOOLEAN
    BY <1>1, Zenon
<1>5. OneCycleAtATime'
    <2>1. raced' => Cycles' # {}
        BY <1>1, Zenon
    <2>2. ASSUME ~raced' PROVE Cycles' = {} \/ ~raced
        BY <1>1, <2>2, Zenon
    <2>3. ASSUME ~raced' PROVE \A t, u \in Cycles' : t = u
        <3>1. CASE Cycles' = {}
            BY <3>1
        <3>2. CASE ~raced
            BY <1>3, <3>2 DEF OneCycleAtATime
        <3> QED
            BY <2>2, <2>3, <3>1, <3>2
    <2>4. ASSUME ~raced' PROVE busy' <=> Cycles' # {}
        <3>1. CASE s \in Cycles
            <4>1. runs[s].cycle
                BY <3>1 DEF Cycles
            <4>2. ~busy'
                BY <1>1, <4>1, Zenon
            <4>3. Cycles' = {}
                BY <1>3, <2>2, <2>4, <3>1 DEF OneCycleAtATime
            <4> QED
                BY <4>2, <4>3, Zenon
        <3>2. CASE s \notin Cycles
            <4>1. ~runs[s].cycle /\ Cycles' = Cycles
                BY <1>3, <3>2 DEF Cycles
            <4>2. ~raced
                BY <2>2, <2>4, <4>1 DEF OneCycleAtATime
            <4>3. busy' <=> busy
                BY <1>1, <4>1, Zenon
            <4> QED
                BY <4>1, <4>2, <4>3, Zenon DEF OneCycleAtATime
        <3> QED
            BY <3>1, <3>2
    <2> QED
        BY <2>1, <2>3, <2>4, Zenon DEF OneCycleAtATime
<1>6. snapshot' \in [state : {"stopped", "running"}, enabled : BOOLEAN, inFlight : BOOLEAN]
    BY <1>1
<1>7. ShadowTypeOK'
    BY <1>2, <1>4, <1>6, Zenon
<1>8. InFlightIsOpen'
    <2>1. timer' <=> snapshot'.enabled
        BY <1>1 DEF InFlightIsOpen
    <2>2. CASE runs[s].by = "hand"
        <3>1. snapshot' = snapshot
            BY <1>1, <2>2
        <3>2. ASSUME snapshot.inFlight PROVE \E t \in Slots : runs'[t].by \in {"tick", "trigger"}
            <4>1. PICK t \in Slots : runs[t].by \in {"tick", "trigger"}
                BY <3>2 DEF InFlightIsOpen
            <4>2. t # s
                BY <2>2, <4>1
            <4> QED
                BY <1>2, <4>1, <4>2
        <3> QED
            BY <2>1, <3>1, <3>2 DEF InFlightIsOpen
    <2>3. CASE runs[s].by # "hand"
        <3>1. ~snapshot'.inFlight
            BY <1>1, <2>3
        <3> QED
            BY <2>1, <3>1 DEF InFlightIsOpen
    <2> QED
        BY <2>2, <2>3
<1> QED
    BY <1>5, <1>7, <1>8

LEMMA ShadowInvKept == ShadowInv /\ [ShadowNext]_shadowVars => ShadowInv'
<1> SUFFICES ASSUME ShadowInv, [ShadowNext]_shadowVars PROVE ShadowInv'
    OBVIOUS
<1>1. ASSUME NEW kind \in {"tick", "trigger"}, Begin(kind),
             timer' \in BOOLEAN,
             snapshot' \in [state : {"stopped", "running"}, enabled : BOOLEAN, inFlight : BOOLEAN],
             timer' <=> snapshot'.enabled
      PROVE  ShadowInv'
    <2>1. /\ runs' \in [Slots -> Runs]
          /\ busy' \in BOOLEAN /\ rendered' \in BOOLEAN /\ raced' \in BOOLEAN
          /\ OneCycleAtATime'
          /\ \E s \in Slots : runs'[s].by = kind
        BY <1>1, BeginKeeps
    <2>2. ShadowTypeOK'
        BY <1>1, <2>1, Zenon DEF ShadowTypeOK
    <2>3. InFlightIsOpen'
        BY <1>1, <2>1 DEF InFlightIsOpen
    <2> QED
        BY <2>1, <2>2, <2>3 DEF ShadowInv
<1>2. CASE StartAndTrigger
    <2>1. /\ Begin("trigger") /\ timer' = TRUE
          /\ snapshot' = [state |-> "running", enabled |-> TRUE, inFlight |-> TRUE]
        BY <1>2 DEF StartAndTrigger, Started
    <2> QED
        BY <1>1, <2>1
<1>3. CASE Tick
    <2>1. Begin("tick") /\ timer' = timer /\ snapshot' = [snapshot EXCEPT !.inFlight = TRUE]
        BY <1>3 DEF Tick
    <2>2. /\ timer' \in BOOLEAN /\ (timer' <=> snapshot'.enabled)
          /\ snapshot' \in [state : {"stopped", "running"}, enabled : BOOLEAN, inFlight : BOOLEAN]
        BY <2>1 DEF ShadowInv, ShadowTypeOK, InFlightIsOpen
    <2> QED
        BY <1>1, <2>1, <2>2
<1>4. CASE Stop
    BY <1>4 DEF Stop, Stopped, ShadowInv, ShadowTypeOK, InFlightIsOpen, OneCycleAtATime, Cycles
<1>5. CASE RunEnds
    BY <1>5, RunEndsKeeps
<1>6. CASE RunByHand
    <2>1. Begin("hand") /\ timer' = timer /\ snapshot' = snapshot
        BY <1>6 DEF RunByHand
    <2>2. /\ runs' \in [Slots -> Runs]
          /\ busy' \in BOOLEAN /\ rendered' \in BOOLEAN /\ raced' \in BOOLEAN
          /\ OneCycleAtATime'
          /\ \A s \in Slots : runs[s].by \in {"tick", "trigger"} => runs'[s] = runs[s]
        BY <2>1, BeginKeeps
    <2>3. ShadowTypeOK'
        BY <2>1, <2>2, Zenon DEF ShadowInv, ShadowTypeOK
    <2>4. InFlightIsOpen'
        BY <2>1, <2>2 DEF ShadowInv, InFlightIsOpen
    <2> QED
        BY <2>2, <2>3, <2>4 DEF ShadowInv
<1>7. CASE Render
    <2>1. rendered' \in BOOLEAN /\ UNCHANGED <<timer, snapshot, runs, busy, raced>>
        BY <1>7, Zenon DEF Render, ShadowInv, ShadowTypeOK
    <2> QED
        BY <2>1 DEF ShadowInv, ShadowTypeOK, InFlightIsOpen, OneCycleAtATime, Cycles
<1>8. CASE UNCHANGED shadowVars
    BY <1>8 DEF shadowVars, ShadowInv, ShadowTypeOK, InFlightIsOpen, OneCycleAtATime, Cycles
<1> QED
    BY <1>2, <1>3, <1>4, <1>5, <1>6, <1>7, <1>8 DEF ShadowNext

(* The scheduler's flags and the runs that are open fit together, those    *)
(* that outlive a stop included.                                           *)
THEOREM ShadowInvariant == ShadowSpec => []ShadowInv
BY ShadowInvInit, ShadowInvKept, PTL DEF ShadowSpec

(* With any number of open awaits, restarts, renderings and runs by hand,  *)
(* two cycles run at a time only after one began between the setting of    *)
(* the busy mark and the rendering that shows it, and no longer than until *)
(* no cycle runs any more.                                                 *)
THEOREM CyclesExclude == ShadowSpec => []OneCycleAtATime
BY ShadowInvariant, PTL DEF ShadowInv

(* The snapshot never reports a run that is not there.                     *)
THEOREM InFlightIsReal == ShadowSpec => []InFlightIsOpen
BY ShadowInvariant, PTL DEF ShadowInv

-----------------------------------------------------------------------------
(* The promotion of a shadow strategy.                                     *)

IsState(x) ==
    x = [known |-> x.known, live |-> x.live, shadow |-> x.shadow, entries |-> x.entries,
         cycles |-> x.cycles, audit |-> x.audit]

IsEntry(e) ==
    e.id \in Strategies /\ e = [id |-> e.id, accepted |-> e.accepted, status |-> e.status]

\* The entries that are live are those of the live strategy.
LiveEntriesOK(x) ==
    /\ \A i \in DOMAIN x.entries : x.entries[i].status = "live" <=> x.entries[i].id = x.live
    /\ x.live # NoId => \E i \in DOMAIN x.entries : x.entries[i].id = x.live

ShadowEntryOK(x) ==
    x.shadow # NoId =>
        \E i \in DOMAIN x.entries : /\ x.entries[i].id = x.shadow /\ x.entries[i].accepted
                                     /\ x.entries[i].status = "shadow"

(* What LiveIsLastPromoted and RegistryAgrees say of one copy, and its     *)
(* shape.                                                                  *)
StateOK(x) ==
    /\ IsState(x) /\ x.audit \in Seq(Strategies)
    /\ \A i \in DOMAIN x.entries : IsEntry(x.entries[i])
    /\ x.live # NoId => x.audit # <<>> /\ x.audit[1] = x.live
    /\ LiveEntriesOK(x) /\ ShadowEntryOK(x)

LEMMA NoStateOK == StateOK(NoState)
<1>1. IsState(NoState)
    BY DEF NoState, IsState
<1>2. NoState.entries = <<>> /\ NoState.live = NoId /\ NoState.shadow = NoId /\ NoState.audit = <<>>
    BY DEF NoState
<1> QED
    BY <1>1, <1>2 DEF StateOK, LiveEntriesOK, ShadowEntryOK

LEMMA CycleResultOK ==
    ASSUME NEW previous, StateOK(previous), NEW top \in Rankings
    PROVE  StateOK(CycleResult(previous, top))
<1> DEFINE new    == CycleResult(previous, top)
           best   == top[1]
           shadow == IF best.accepted /\ best.id # previous.live THEN best.id ELSE NoId
           live   == IF \E i \in DOMAIN top : top[i].id = previous.live THEN previous.live ELSE NoId
           status == [i \in DOMAIN top |->
                         IF top[i].id = live THEN "live"
                         ELSE IF ~top[i].accepted THEN "rejected"
                         ELSE IF i = 1 \/ top[i].id = shadow THEN "shadow" ELSE "registry"]
           cycles == SubSeq(<<[best |-> best.id, at |-> now]>> \o previous.cycles, 1,
                            Min({KeptCycles, Len(previous.cycles) + 1}))
<1>1. new = [known |-> TRUE, live |-> live, shadow |-> shadow, entries |-> Entries(top, status),
             cycles |-> cycles, audit |-> previous.audit]
    BY DEF CycleResult
<1>2. PICK n \in 1 .. MaxEntries : top \in [1 .. n -> [id : Strategies, accepted : BOOLEAN]]
    BY DEF Rankings
<1>3. DOMAIN top = 1 .. n /\ 1 \in DOMAIN top
    BY <1>2, ScopesAssumption
<1>4. \A i \in DOMAIN top : top[i].id \in Strategies /\ top[i].id # NoId
    BY <1>2, <1>3, ScopesAssumption
<1> HIDE DEF new, cycles
<1>5. /\ new.live = live /\ new.shadow = shadow /\ new.audit = previous.audit
      /\ new.entries = Entries(top, status)
    BY <1>1
<1>6. IsState(new)
    BY <1>1 DEF IsState
<1> DEFINE entry(i) == [id |-> top[i].id, accepted |-> top[i].accepted, status |-> status[i]]
<1>7. /\ DOMAIN new.entries = DOMAIN top
      /\ \A i \in DOMAIN top : new.entries[i] = entry(i)
    BY <1>5 DEF Entries
<1>8. \A i \in DOMAIN top : /\ entry(i).id = top[i].id /\ entry(i).accepted = top[i].accepted
                            /\ entry(i).status = status[i] /\ IsEntry(entry(i))
    <2> HIDE DEF status
    <2> QED
        BY <1>4 DEF IsEntry
<1> HIDE DEF entry
<1>9. new.audit \in Seq(Strategies) /\ (new.live # NoId => new.audit # <<>> /\ new.audit[1] = new.live)
    BY <1>5 DEF StateOK
<1>10. LiveEntriesOK(new)
    <2>1. \A i \in DOMAIN top : status[i] = "live" <=> top[i].id = live
        OBVIOUS
    <2>2. live # NoId => \E i \in DOMAIN top : top[i].id = live
        OBVIOUS
    <2>3. new.live = live
        BY <1>5
    <2> HIDE DEF status, live
    <2> QED
        BY <1>7, <1>8, <2>1, <2>2, <2>3 DEF LiveEntriesOK
<1>11. ShadowEntryOK(new)
    <2> SUFFICES ASSUME new.shadow # NoId
                 PROVE  /\ new.entries[1].id = new.shadow /\ new.entries[1].accepted
                        /\ new.entries[1].status = "shadow"
        BY <1>3, <1>7 DEF ShadowEntryOK
    <2>1. best.accepted /\ best.id # previous.live /\ new.shadow = best.id
        BY <1>5
    <2>2. status[1] = "shadow"
        BY <1>3, <1>4, <2>1
    <2>3. /\ new.entries[1].id = best.id /\ new.entries[1].accepted = best.accepted
          /\ new.entries[1].status = status[1]
        BY <1>3, <1>7, <1>8
    <2> QED
        BY <2>1, <2>2, <2>3
<1>12. \A i \in DOMAIN new.entries : IsEntry(new.entries[i])
    BY <1>7, <1>8
<1>13. StateOK(new)
    BY <1>6, <1>9, <1>12, <1>10, <1>11, Zenon DEF StateOK
<1> QED
    BY <1>13 DEF new

LEMMA PromotedOK ==
    ASSUME NEW state, StateOK(state), NEW id, Ready(state, id)
    PROVE  StateOK(Promoted(state, id))
<1> DEFINE new == Promoted(state, id)
           status == [i \in DOMAIN state.entries |->
                         IF state.entries[i].id = id THEN "live"
                         ELSE IF state.entries[i].status = "live" THEN "registry"
                         ELSE state.entries[i].status]
<1>1. PICK shadow \in DOMAIN state.entries : state.entries[shadow].id = id
    BY DEF Ready
<1>2. \A i \in DOMAIN state.entries : IsEntry(state.entries[i])
    BY DEF StateOK
<1>3. id \in Strategies /\ id # NoId
    BY <1>1, <1>2, ScopesAssumption DEF IsEntry
<1>4. new = [state EXCEPT !.entries = Entries(state.entries, status), !.live = id,
                          !.shadow = NoId, !.audit = <<id>> \o state.audit]
    BY DEF Promoted
<1> HIDE DEF new
<1>5. /\ new.live = id /\ new.shadow = NoId /\ new.audit = <<id>> \o state.audit
      /\ new.entries = Entries(state.entries, status) /\ IsState(new)
    BY <1>4 DEF StateOK, IsState
<1> DEFINE entry(i) == [id |-> state.entries[i].id, accepted |-> state.entries[i].accepted,
                        status |-> status[i]]
<1>6. /\ DOMAIN new.entries = DOMAIN state.entries
      /\ \A i \in DOMAIN new.entries : new.entries[i] = entry(i)
    BY <1>5 DEF Entries
<1>7. \A i \in DOMAIN state.entries : /\ entry(i).id = state.entries[i].id
                                      /\ entry(i).status = status[i] /\ IsEntry(entry(i))
    <2>1. \A i \in DOMAIN state.entries : state.entries[i].id \in Strategies
        BY <1>2 DEF IsEntry
    <2> HIDE DEF status
    <2> QED
        BY <2>1 DEF IsEntry
<1> HIDE DEF entry
<1>8. new.audit \in Seq(Strategies) /\ new.audit # <<>> /\ new.audit[1] = new.live
    BY <1>3, <1>5 DEF StateOK
<1>9. LiveEntriesOK(new) /\ ShadowEntryOK(new)
    <2>1. \A i \in DOMAIN state.entries :
              status[i] = "live" <=> state.entries[i].id = id
        OBVIOUS
    <2> HIDE DEF status
    <2> QED
        BY <1>1, <1>5, <1>6, <1>7, <2>1 DEF LiveEntriesOK, ShadowEntryOK
<1>10. \A i \in DOMAIN new.entries : IsEntry(new.entries[i])
    BY <1>6, <1>7
<1>11. StateOK(new)
    BY <1>5, <1>8, <1>9, <1>10, Zenon DEF StateOK
<1> QED
    BY <1>11 DEF new

-----------------------------------------------------------------------------
IsRequest(r) == r = [phase |-> r.phase, scope |-> r.scope, state |-> r.state, id |-> r.id]

(* Every copy of a state, stored, held or under way, is sound.             *)
CopiesInv ==
    /\ db = [s \in Scopes |-> db[s]] /\ file = [s \in Scopes |-> file[s]]
    /\ \A s \in Scopes : StateOK(db[s]) /\ StateOK(file[s])
    /\ page = [scope |-> page.scope, held |-> page.held, loading |-> page.loading]
    /\ page.scope \in Scopes
    /\ StateOK(page.held)
    /\ cycle = [n \in 1 .. MaxRuns |-> cycle[n]]
    /\ \A n \in 1 .. MaxRuns : IsRequest(cycle[n]) /\ StateOK(cycle[n].state)
    /\ IsRequest(promotion) /\ StateOK(promotion.state)
    /\ promotion.phase # "idle" => promotion.scope \in Scopes

LEMMA CopiesInvInit == PromotionInit => CopiesInv
<1> SUFFICES ASSUME PromotionInit PROVE CopiesInv
    OBVIOUS
<1>1. /\ IsRequest(promotion) /\ promotion.phase = "idle" /\ promotion.state = NoState
      /\ cycle = [n \in 1 .. MaxRuns |-> Idle] /\ IsRequest(Idle) /\ Idle.state = NoState
    BY DEF PromotionInit, Idle, IsRequest
<1>2. PICK s \in Scopes : page = [scope |-> s, held |-> NoState, loading |-> TRUE]
    BY DEF PromotionInit
<1>3. page.scope = s /\ page.held = NoState
    BY <1>2
<1> QED
    BY <1>1, <1>2, <1>3, NoStateOK DEF PromotionInit, CopiesInv

\* What CopiesInv says of the cycle requests.
CycleRequestsOK ==
    /\ cycle = [n \in 1 .. MaxRuns |-> cycle[n]]
    /\ \A n \in 1 .. MaxRuns : IsRequest(cycle[n]) /\ StateOK(cycle[n].state)

LEMMA CycleRequestKept ==
    ASSUME CycleRequestsOK, NEW m, NEW r, IsRequest(r), StateOK(r.state),
           cycle' = [cycle EXCEPT ![m] = r]
    PROVE  CycleRequestsOK'
BY DEF CycleRequestsOK

LEMMA StartCycleKeeps ==
    ASSUME CopiesInv, NEW scope, NEW held, StateOK(held), StartCycle(scope, held)
    PROVE  CycleRequestsOK'
<1>1. IsRequest(Request(scope, held, NoId)) /\ Request(scope, held, NoId).state = held
    BY DEF Request, IsRequest
<1> QED
    BY <1>1, CycleRequestKept DEF StartCycle, CopiesInv, CycleRequestsOK

(* What run-once does with the outcome of a cycle.                         *)
Cycled(n, top) ==
    LET result == CycleResult(cycle[n].state, top)
        stored(copies) == [copies EXCEPT ![cycle[n].scope] = result]
    IN  /\ cycle' = [cycle EXCEPT ![n].phase = "done", ![n].state = result]
        /\ \/ db' = stored(db) /\ UNCHANGED file
           \/ file' = stored(file) /\ db' \in {db, stored(db)}

LEMMA RunOnceKeeps == ASSUME CopiesInv, NEW n \in 1 .. MaxRuns, RunOnce(n) PROVE CopiesInv'
<1>1. PICK top \in Rankings : Cycled(n, top)
    BY Zenon DEF RunOnce, Cycled
<1> DEFINE result == CycleResult(cycle[n].state, top)
           request == [cycle[n] EXCEPT !.phase = "done", !.state = result]
<1>2. StateOK(result)
    BY CycleResultOK DEF CopiesInv
<1>3. /\ cycle' = [cycle EXCEPT ![n] = request]
      /\ db' \in {db, [db EXCEPT ![cycle[n].scope] = result]}
      /\ file' \in {file, [file EXCEPT ![cycle[n].scope] = result]}
    <2>1. n \in DOMAIN cycle
        BY DEF CopiesInv
    <2>2. /\ cycle' = [cycle EXCEPT ![n].phase = "done", ![n].state = result]
          /\ db' \in {db, [db EXCEPT ![cycle[n].scope] = result]}
          /\ file' \in {file, [file EXCEPT ![cycle[n].scope] = result]}
        BY <1>1 DEF Cycled
    <2> HIDE DEF result
    <2> QED
        BY <2>1, <2>2
<1> HIDE DEF result
<1>4. IsRequest(request) /\ request.state = result
    <2>1. IsRequest(cycle[n])
        BY DEF CopiesInv
    <2>2. request = [cycle[n] EXCEPT !.phase = "done", !.state = result]
        OBVIOUS
    <2> HIDE DEF request
    <2> QED
        BY <2>1, <2>2 DEF IsRequest
<1> HIDE DEF request
<1>5. CycleRequestsOK'
    BY <1>2, <1>3, <1>4, CycleRequestKept DEF CopiesInv, CycleRequestsOK
<1>6. /\ db' = [s \in Scopes |-> db'[s]] /\ file' = [s \in Scopes |-> file'[s]]
      /\ \A s \in Scopes : StateOK(db'[s]) /\ StateOK(file'[s])
    <2> DEFINE Stored(copies) == /\ copies = [s \in Scopes |-> copies[s]]
                                 /\ \A s \in Scopes : StateOK(copies[s])
    <2>1. Stored(db) /\ Stored(file)
        BY DEF CopiesInv
    <2>2. ASSUME NEW copies, Stored(copies)
          PROVE  Stored([copies EXCEPT ![cycle[n].scope] = result])
        BY <1>2, <2>2
    <2>3. Stored(db')
        BY <1>3, <2>1, <2>2
    <2>4. Stored(file')
        BY <1>3, <2>1, <2>2
    <2> QED
        BY <2>3, <2>4
<1> QED
    BY <1>5, <1>6 DEF CopiesInv, CycleRequestsOK, RunOnce

LEMMA PromoteInOK ==
    ASSUME NEW copies, copies = [s \in Scopes |-> copies[s]], \A s \in Scopes : StateOK(copies[s]),
           promotion.scope \in Scopes
    PROVE  /\ PromoteIn(copies).copies = [s \in Scopes |-> PromoteIn(copies).copies[s]]
           /\ \A s \in Scopes : StateOK(PromoteIn(copies).copies[s])
           /\ StateOK(PromoteIn(copies).answer)
<1> DEFINE state == copies[promotion.scope]
           after == Promoted(state, promotion.id)
           ready == state.known /\ Ready(state, promotion.id)
<1>1. CASE ready
    <2>1. StateOK(after)
        BY <1>1, PromotedOK
    <2>2. /\ PromoteIn(copies).copies = [copies EXCEPT ![promotion.scope] = after]
          /\ PromoteIn(copies).answer = after
        BY <1>1 DEF PromoteIn
    <2> HIDE DEF after
    <2> QED
        BY <2>1, <2>2
<1>2. CASE ~ready
    BY <1>2, NoStateOK DEF PromoteIn
<1> QED
    BY <1>1, <1>2

LEMMA PromoteKeeps == CopiesInv /\ Promote => CopiesInv'
<1> SUFFICES ASSUME CopiesInv, Promote PROVE CopiesInv'
    OBVIOUS
<1>1. promotion.scope \in Scopes
    BY DEF CopiesInv, Promote
<1>2. /\ db = [s \in Scopes |-> db[s]] /\ \A s \in Scopes : StateOK(db[s])
      /\ file = [s \in Scopes |-> file[s]] /\ \A s \in Scopes : StateOK(file[s])
    BY DEF CopiesInv
<1> DEFINE inDb == PromoteIn(db)
           inFile == PromoteIn(file)
<1>3. /\ inDb.copies = [s \in Scopes |-> inDb.copies[s]]
      /\ \A s \in Scopes : StateOK(inDb.copies[s])
      /\ StateOK(inDb.answer)
    BY <1>1, <1>2, PromoteInOK
<1>4. /\ inFile.copies = [s \in Scopes |-> inFile.copies[s]]
      /\ \A s \in Scopes : StateOK(inFile.copies[s])
      /\ StateOK(inFile.answer)
    BY <1>1, <1>2, PromoteInOK
<1>5. /\ db' \in {db, inDb.copies} /\ file' \in {file, inFile.copies}
      /\ \E answer \in {inDb.answer, inFile.answer} :
             promotion' = [promotion EXCEPT !.phase = "done", !.state = answer]
    BY DEF Promote
<1> HIDE DEF inDb, inFile
<1>6. /\ db' = [s \in Scopes |-> db'[s]] /\ file' = [s \in Scopes |-> file'[s]]
      /\ \A s \in Scopes : StateOK(db'[s]) /\ StateOK(file'[s])
    BY <1>2, <1>3, <1>4, <1>5
<1>7. IsRequest(promotion') /\ StateOK(promotion'.state) /\ promotion'.scope = promotion.scope
    BY <1>3, <1>4, <1>5 DEF CopiesInv, IsRequest
<1> QED
    BY <1>1, <1>6, <1>7 DEF CopiesInv, Promote

LEMMA CopiesInvKept == CopiesInv /\ [PromotionNext]_promotionVars => CopiesInv'
<1> SUFFICES ASSUME CopiesInv, [PromotionNext]_promotionVars PROVE CopiesInv'
    OBVIOUS
<1>1. CASE RunCycle
    <2>1. CycleRequestsOK'
        BY <1>1, StartCycleKeeps DEF RunCycle, CopiesInv
    <2> QED
        BY <1>1, <2>1 DEF RunCycle, CopiesInv, CycleRequestsOK
<1>2. CASE SelectScope
    <2>1. PICK s \in Scopes : page' = [scope |-> s, held |-> NoState, loading |-> TRUE]
        BY <1>2 DEF SelectScope
    <2>2. CycleRequestsOK'
        <3>1. CASE UNCHANGED cycle
            BY <3>1 DEF CopiesInv, CycleRequestsOK
        <3>2. CASE \E scope \in Scopes : StartCycle(scope, page.held)
            BY <3>2, StartCycleKeeps DEF CopiesInv
        <3> QED
            BY <1>2, <3>1, <3>2 DEF SelectScope
    <2>3. page'.scope = s /\ page'.held = NoState
          /\ page' = [scope |-> page'.scope, held |-> page'.held, loading |-> page'.loading]
        BY <2>1
    <2> QED
        BY <1>2, <2>2, <2>3, NoStateOK DEF SelectScope, CopiesInv, CycleRequestsOK
<1>3. CASE StateLoaded
    <2>1. PICK state \in {db[page.scope], file[page.scope], NoState} :
              page' = [page EXCEPT !.held = state, !.loading = FALSE]
        BY <1>3 DEF StateLoaded
    <2>2. StateOK(state)
        BY NoStateOK DEF CopiesInv
    <2>3. page'.scope = page.scope /\ page'.held = state
          /\ page' = [scope |-> page'.scope, held |-> page'.held, loading |-> page'.loading]
        BY <2>1 DEF CopiesInv
    <2> QED
        BY <1>3, <2>2, <2>3 DEF StateLoaded, CopiesInv
<1>4. ASSUME NEW n \in 1 .. MaxRuns, CycleAnswered(n) PROVE CopiesInv'
    <2>1. CycleRequestsOK'
        <3>1. IsRequest(Idle) /\ Idle.state = NoState
            BY DEF Idle, IsRequest
        <3> QED
            BY <1>4, <3>1, NoStateOK, CycleRequestKept DEF CycleAnswered, CopiesInv, CycleRequestsOK
    <2>2. page'.scope = page.scope /\ page'.held \in {page.held, cycle[n].state}
          /\ page' = [scope |-> page'.scope, held |-> page'.held, loading |-> page'.loading]
        BY <1>4 DEF CycleAnswered, CopiesInv
    <2> QED
        BY <1>4, <2>1, <2>2 DEF CycleAnswered, CopiesInv, CycleRequestsOK
<1>5. CASE AskPromotion
    <2>1. /\ IsRequest(promotion') /\ promotion'.scope = page.scope
          /\ promotion'.state = NoState
        BY <1>5 DEF AskPromotion, Request, IsRequest
    <2> QED
        BY <1>5, <2>1, NoStateOK DEF AskPromotion, CopiesInv
<1>6. CASE PromotionAnswered
    <2>1. /\ IsRequest(promotion') /\ promotion'.phase = "idle"
          /\ promotion'.state = NoState
        BY <1>6 DEF PromotionAnswered, Idle, IsRequest
    <2>2. page'.scope = page.scope /\ page'.held \in {page.held, promotion.state}
          /\ page' = [scope |-> page'.scope, held |-> page'.held, loading |-> page'.loading]
        BY <1>6 DEF PromotionAnswered, CopiesInv
    <2> QED
        BY <1>6, <2>1, <2>2, NoStateOK DEF PromotionAnswered, CopiesInv
<1>7. ASSUME NEW n \in 1 .. MaxRuns, RunOnce(n) PROVE CopiesInv'
    BY <1>7, RunOnceKeeps
<1>8. CASE Promote
    BY <1>8, PromoteKeeps
<1>9. CASE TimePasses
    BY <1>9 DEF TimePasses, CopiesInv
<1>10. CASE UNCHANGED promotionVars
    BY <1>10 DEF promotionVars, CopiesInv
<1> QED
    BY <1>1, <1>2, <1>3, <1>4, <1>5, <1>6, <1>7, <1>8, <1>9, <1>10 DEF PromotionNext

(* Every copy of the state is sound, in the tables, the files, the page    *)
(* and the requests.                                                       *)
THEOREM CopiesInvariant == PromotionSpec => []CopiesInv
BY CopiesInvInit, CopiesInvKept, PTL DEF PromotionSpec

LEMMA EveryCopyOK == CopiesInv => \A state \in Copies : StateOK(state)
BY DEF CopiesInv, Copies

(* Nothing goes live but by a promotion on record.                         *)
THEOREM LiveWasPromoted == PromotionSpec => []LiveIsLastPromoted
<1>1. CopiesInv => LiveIsLastPromoted
    BY EveryCopyOK DEF StateOK, LiveIsLastPromoted
<1> QED
    BY <1>1, CopiesInvariant, PTL

(* The registry agrees with the two pointers in every copy, entries that   *)
(* share an id included.                                                   *)
THEOREM RegistryMatchesPointers == PromotionSpec => []RegistryAgrees
<1>1. CopiesInv => RegistryAgrees
    BY EveryCopyOK DEF StateOK, RegistryAgrees, LiveEntriesOK, ShadowEntryOK, ToSet
<1> QED
    BY <1>1, CopiesInvariant, PTL

-----------------------------------------------------------------------------
(* The samples for the predictor.                                          *)

LEMMA CutInTwo ==
    ASSUME NEW q \in Seq(Nat), NEW n \in Nat
    PROVE  /\ FirstOf(q, n) \in Seq(Nat) /\ AllBut(q, n) \in Seq(Nat)
           /\ ToSet(q) \subseteq ToSet(FirstOf(q, n)) \union ToSet(AllBut(q, n))
<1> DEFINE k == IF Len(q) < n THEN Len(q) ELSE n
           first == FirstOf(q, n)
           rest  == AllBut(q, n)
<1>1. k \in Nat /\ k <= Len(q) /\ Len(q) \in Nat /\ DOMAIN q = 1 .. Len(q)
    OBVIOUS
<1>2. /\ first \in Seq(Nat) /\ Len(first) = k
      /\ \A i \in 1 .. k : first[i] = q[i]
    <2>1. first = SubSeq(q, 1, k)
        BY DEF FirstOf
    <2> HIDE DEF k, first
    <2> QED
        BY <1>1, <2>1
<1>3. /\ rest \in Seq(Nat)
      /\ \A i \in n + 1 .. Len(q) : i - n \in DOMAIN rest /\ rest[i - n] = q[i]
    <2>1. rest = SubSeq(q, n + 1, Len(q))
        BY DEF AllBut
    <2> HIDE DEF rest
    <2> QED
        BY <1>1, <2>1, SMTT(40)
<1>4. ASSUME NEW i \in 1 .. Len(q) PROVE q[i] \in ToSet(first) \union ToSet(rest)
    <2> HIDE DEF first, rest
    <2>1. CASE i <= k
        BY <1>1, <1>2, <2>1 DEF ToSet
    <2>2. CASE i > k
        <3>1. i \in n + 1 .. Len(q)
            BY <1>1, <2>2
        <3> QED
            BY <1>3, <3>1 DEF ToSet
    <2> QED
        BY <1>1, <2>1, <2>2
<1> HIDE DEF first, rest
<1>5. ToSet(q) \subseteq ToSet(first) \union ToSet(rest)
    BY <1>1, <1>4 DEF ToSet
<1> QED
    BY <1>2, <1>3, <1>5 DEF first, rest

LEMMA JoinedSet ==
    ASSUME NEW a \in Seq(Nat), NEW b \in Seq(Nat)
    PROVE  /\ a \o b \in Seq(Nat)
           /\ ToSet(a \o b) = ToSet(a) \union ToSet(b)
<1> DEFINE c == a \o b
<1>1. /\ c \in Seq(Nat) /\ Len(c) = Len(a) + Len(b)
      /\ \A i \in 1 .. Len(a) : c[i] = a[i]
      /\ \A i \in 1 .. Len(b) : c[Len(a) + i] = b[i]
    OBVIOUS
<1> HIDE DEF c
<1>2. Len(a) \in Nat /\ Len(b) \in Nat /\ DOMAIN a = 1 .. Len(a) /\ DOMAIN b = 1 .. Len(b)
      /\ DOMAIN c = 1 .. Len(c)
    BY <1>1
<1>3. ToSet(c) \subseteq ToSet(a) \union ToSet(b)
    <2> SUFFICES ASSUME NEW i \in 1 .. Len(c) PROVE c[i] \in ToSet(a) \union ToSet(b)
        BY <1>2 DEF ToSet
    <2>1. CASE i <= Len(a)
        <3>1. i \in 1 .. Len(a) /\ c[i] = a[i]
            BY <1>1, <1>2, <2>1
        <3> QED
            BY <1>2, <3>1 DEF ToSet
    <2>2. CASE i > Len(a)
        <3>1. i - Len(a) \in 1 .. Len(b) /\ c[i] = b[i - Len(a)]
            BY <1>1, <1>2, <2>2, SMTT(30)
        <3> QED
            BY <1>2, <3>1 DEF ToSet
    <2> QED
        BY <1>2, <2>1, <2>2
<1>4. ToSet(a) \subseteq ToSet(c)
    <2>1. \A i \in 1 .. Len(a) : i \in 1 .. Len(c)
        BY <1>1, <1>2
    <2> QED
        BY <1>1, <1>2, <2>1 DEF ToSet
<1>5. ToSet(b) \subseteq ToSet(c)
    <2>1. \A i \in 1 .. Len(b) : Len(a) + i \in 1 .. Len(c)
        BY <1>1, <1>2
    <2> QED
        BY <1>1, <1>2, <2>1 DEF ToSet
<1> QED
    BY <1>1, <1>3, <1>4, <1>5 DEF c

Phases == {"none", "posted", "answered", "givenUp"}
Answers == {"none", "ok", "serverError", "degraded", "refused"}
FlushRecord == [phase : Phases, batch : Seq(Nat), answer : Answers]

(* Where the samples are that the page need not keep.                      *)
Settled == ToSet(trainer.buffer) \union learned \union dropped \union unread

(* A batch whose answer will not bring it back has reached the predictor.  *)
TrainedIsThere ==
    \A f \in Flushes : flush[f].phase = "answered" /\ ~GoesBack(flush[f].answer)
                          => ToSet(flush[f].batch) \subseteq Settled

(* The queues are queues of samples, and a flush that is not under way     *)
(* holds none.                                                             *)
TrainingInv ==
    /\ queued \in Nat /\ buffer \in Seq(Nat)
    /\ flush \in [Flushes -> FlushRecord]
    /\ \A f \in Flushes : flush[f].phase = "none" => flush[f].batch = <<>>
    /\ trainer.buffer \in Seq(Nat)
    /\ trainer = [buffer |-> trainer.buffer, looping |-> trainer.looping]
    /\ TrainedIsThere
    /\ NoSampleForgotten

(* Samples in the batches the page answers for.                            *)
InFlight == UNION {ToSet(flush[f].batch) : f \in {g \in Flushes : flush[g].phase # "givenUp"}}

LEMMA NoFlushIsFlush ==
    NoFlush \in FlushRecord /\ NoFlush.phase = "none" /\ NoFlush.batch = <<>>
<1>1. <<>> \in Seq(Nat) /\ "none" \in Phases /\ "none" \in Answers
    BY DEF Phases, Answers
<1>2. \A e \in Seq(Nat) : [phase |-> "none", batch |-> e, answer |-> "none"] \in FlushRecord
    BY <1>1 DEF FlushRecord
<1> QED
    BY <1>1, <1>2, Zenon DEF NoFlush

LEMMA WithPhase ==
    ASSUME NEW r \in FlushRecord, NEW phase \in Phases
    PROVE  /\ [r EXCEPT !.phase = phase] \in FlushRecord
           /\ [r EXCEPT !.phase = phase].phase = phase
           /\ [r EXCEPT !.phase = phase].batch = r.batch
BY DEF FlushRecord

LEMMA EmptySet == ToSet(<<>>) = {}
BY DEF ToSet

LEMMA TrainingInvInit == TrainingInit => TrainingInv
<1> SUFFICES ASSUME TrainingInit PROVE TrainingInv
    OBVIOUS
<1>1. trainer = [buffer |-> trainer.buffer, looping |-> trainer.looping] /\ trainer.buffer = <<>>
    BY DEF TrainingInit
<1>2. flush \in [Flushes -> FlushRecord] /\ \A f \in Flushes : flush[f].batch = <<>>
    BY NoFlushIsFlush DEF TrainingInit
<1>3. \A f \in Flushes : flush[f].phase = "none"
    BY NoFlushIsFlush DEF TrainingInit
<1> QED
    BY <1>1, <1>2, <1>3 DEF TrainingInit, TrainingInv, NoSampleForgotten, TrainedIsThere

(* One flush changes: what it held and no longer holds must be elsewhere.  *)
LEMMA FlushChanges ==
    ASSUME TrainingInv, NEW f \in Flushes, NEW r \in FlushRecord,
           flush' = [flush EXCEPT ![f] = r], r.phase = "none" => r.batch = <<>>,
           Settled \subseteq Settled',
           r.phase = "answered" /\ ~GoesBack(r.answer) => ToSet(r.batch) \subseteq Settled'
    PROVE  /\ TrainedIsThere'
           /\ flush' \in [Flushes -> FlushRecord]
           /\ \A g \in Flushes : flush'[g].phase = "none" => flush'[g].batch = <<>>
           /\ InFlight \subseteq InFlight' \union
                  (IF flush[f].phase = "givenUp" THEN {} ELSE ToSet(flush[f].batch))
           /\ r.phase # "givenUp" => ToSet(r.batch) \subseteq InFlight'
<1>1. flush'[f] = r /\ \A g \in Flushes \ {f} : flush'[g] = flush[g]
    BY DEF TrainingInv
<1>2. flush' \in [Flushes -> FlushRecord]
    BY DEF TrainingInv
<1>3. \A g \in Flushes : flush'[g].phase = "none" => flush'[g].batch = <<>>
    BY <1>1 DEF TrainingInv
<1>4. ASSUME NEW g \in Flushes, flush[g].phase # "givenUp", g # f
      PROVE  ToSet(flush[g].batch) \subseteq InFlight'
    BY <1>1, <1>4 DEF InFlight
<1>5. r.phase # "givenUp" => ToSet(r.batch) \subseteq InFlight'
    BY <1>1 DEF InFlight
<1>6. InFlight \subseteq InFlight' \union
                  (IF flush[f].phase = "givenUp" THEN {} ELSE ToSet(flush[f].batch))
    <2> SUFFICES ASSUME NEW g \in Flushes, flush[g].phase # "givenUp",
                        NEW s \in ToSet(flush[g].batch)
                 PROVE  s \in InFlight' \union
                            (IF flush[f].phase = "givenUp" THEN {} ELSE ToSet(flush[f].batch))
        BY DEF InFlight
    <2> QED
        BY <1>4
<1>7. TrainedIsThere'
    <2> SUFFICES ASSUME NEW g \in Flushes, flush'[g].phase = "answered", ~GoesBack(flush'[g].answer)
                 PROVE  ToSet(flush'[g].batch) \subseteq Settled'
        BY DEF TrainedIsThere, GoesBack
    <2> QED
        BY <1>1 DEF TrainedIsThere, TrainingInv
<1> QED
    BY <1>2, <1>3, <1>5, <1>6, <1>7

(* Where a sample can be.                                                  *)
Known == ToSet(buffer) \union InFlight \union Settled

(* No sample is forgotten by a step that keeps every sample of before in   *)
(* one of the places and has a place for every new one.                    *)
LEMMA NothingForgotten ==
    ASSUME TrainingInv, Known \subseteq Known', 1 .. queued' \subseteq (1 .. queued) \union Known'
    PROVE  NoSampleForgotten'
<1>1. \A s \in 1 .. queued : s \in Known
    BY DEF TrainingInv, NoSampleForgotten, OnTheWay, Known, InFlight, Settled
<1> QED
    BY <1>1 DEF NoSampleForgotten, OnTheWay, Known, InFlight, Settled

LEMMA PostKeeps ==
    ASSUME TrainingInv, NEW samples \in Seq(Nat), Post(samples), Settled \subseteq Settled'
    PROVE  /\ buffer' \in Seq(Nat) /\ TrainedIsThere'
           /\ flush' \in [Flushes -> FlushRecord]
           /\ \A g \in Flushes : flush'[g].phase = "none" => flush'[g].batch = <<>>
           /\ InFlight \subseteq InFlight'
           /\ ToSet(samples) \subseteq ToSet(buffer') \union InFlight'
<1>1. PICK f \in Flushes :
          /\ flush[f].phase = "none"
          /\ flush' = [flush EXCEPT ![f] = [NoFlush EXCEPT !.phase = "posted",
                                                           !.batch = FirstOf(samples, FlushSize)]]
    BY DEF Post
<1>2. /\ FirstOf(samples, FlushSize) \in Seq(Nat) /\ AllBut(samples, FlushSize) \in Seq(Nat)
      /\ ToSet(samples) \subseteq ToSet(FirstOf(samples, FlushSize))
                               \union ToSet(AllBut(samples, FlushSize))
    BY CutInTwo, TrainingAssumption
<1> DEFINE r == [NoFlush EXCEPT !.phase = "posted", !.batch = FirstOf(samples, FlushSize)]
<1>3. r \in FlushRecord /\ r.phase = "posted" /\ r.batch = FirstOf(samples, FlushSize)
    <2>1. PICK phase \in Phases : phase = "posted"
        BY DEF Phases
    <2>2. r = [NoFlush EXCEPT !.phase = phase, !.batch = FirstOf(samples, FlushSize)]
        BY <2>1
    <2> HIDE DEF r
    <2>3. r \in FlushRecord /\ r.phase = phase /\ r.batch = FirstOf(samples, FlushSize)
        BY <1>2, <2>2, NoFlushIsFlush DEF FlushRecord
    <2> QED
        BY <2>1, <2>3
<1> HIDE DEF r
<1>4. flush' = [flush EXCEPT ![f] = r]
    BY <1>1 DEF r
<1>5. /\ flush' \in [Flushes -> FlushRecord] /\ TrainedIsThere'
      /\ \A g \in Flushes : flush'[g].phase = "none" => flush'[g].batch = <<>>
      /\ InFlight \subseteq InFlight' \union
             (IF flush[f].phase = "givenUp" THEN {} ELSE ToSet(flush[f].batch))
      /\ r.phase # "givenUp" => ToSet(r.batch) \subseteq InFlight'
    BY <1>3, <1>4, FlushChanges
<1>6. ToSet(flush[f].batch) = {}
    BY <1>1, EmptySet DEF TrainingInv
<1>7. buffer' = AllBut(samples, FlushSize)
    BY DEF Post, Remaining
<1> QED
    BY <1>2, <1>3, <1>5, <1>6, <1>7

LEMMA FlushIntervalKeeps == TrainingInv /\ FlushInterval => TrainingInv'
<1> SUFFICES ASSUME TrainingInv, FlushInterval PROVE TrainingInv'
    OBVIOUS
<1>1. Post(buffer) /\ buffer \in Seq(Nat)
    BY DEF FlushInterval, TrainingInv
<1>2. UNCHANGED <<queued, trainer, learned, dropped, unread>>
    BY DEF FlushInterval
<1>4. Settled' = Settled
    BY <1>2 DEF Settled
<1>3. NoSampleForgotten'
    BY <1>1, <1>2, <1>4, PostKeeps, NothingForgotten DEF Known
<1> QED
    BY <1>1, <1>2, <1>3, <1>4, PostKeeps DEF TrainingInv

LEMMA QueueSamplesKeeps ==
    ASSUME TrainingInv, NEW count \in 1 .. Samples, QueueSamples(count)
    PROVE  TrainingInv'
<1> DEFINE new == [i \in 1 .. count |-> queued + i]
           samples == buffer \o new
<1>0. count \in Nat /\ queued \in Nat /\ buffer \in Seq(Nat)
    BY TrainingAssumption DEF TrainingInv
<1>1. new \in Seq(Nat) /\ DOMAIN new = 1 .. count /\ \A i \in 1 .. count : new[i] = queued + i
    BY <1>0
<1>2. UNCHANGED <<trainer, learned, dropped, unread>> /\ queued' = queued + count
    BY DEF QueueSamples
<1>3. \/ Post(samples)
      \/ buffer' = samples /\ UNCHANGED flush
    BY DEF QueueSamples
<1> HIDE DEF new
<1>4. samples \in Seq(Nat) /\ ToSet(samples) = ToSet(buffer) \union ToSet(new)
    BY <1>0, <1>1, JoinedSet
<1> HIDE DEF samples
<1>5. \A s \in 1 .. queued' : s \in 1 .. queued \/ s \in ToSet(new)
    <2> SUFFICES ASSUME NEW s \in 1 .. queued', s \notin 1 .. queued PROVE s \in ToSet(new)
        OBVIOUS
    <2>1. s - queued \in 1 .. count /\ new[s - queued] = s
        BY <1>0, <1>1, <1>2
    <2> QED
        BY <1>1, <2>1 DEF ToSet
<1>8. Settled' = Settled
    BY <1>2 DEF Settled
<1>6. /\ buffer' \in Seq(Nat) /\ TrainedIsThere'
      /\ flush' \in [Flushes -> FlushRecord]
      /\ \A g \in Flushes : flush'[g].phase = "none" => flush'[g].batch = <<>>
      /\ InFlight \subseteq InFlight'
      /\ ToSet(samples) \subseteq ToSet(buffer') \union InFlight'
    <2>1. CASE Post(samples)
        BY <1>4, <1>8, <2>1, PostKeeps
    <2>2. CASE buffer' = samples /\ UNCHANGED flush
        BY <1>4, <1>8, <2>2 DEF TrainingInv, InFlight, TrainedIsThere, GoesBack
    <2> QED
        BY <1>3, <2>1, <2>2
<1>7. NoSampleForgotten'
    BY <1>2, <1>4, <1>5, <1>6, NothingForgotten DEF Known, Settled
<1> QED
    BY <1>0, <1>2, <1>6, <1>7 DEF TrainingInv

(* The flush of a post ends, or holds an answer.                           *)
LEMMA AnswerChanges ==
    ASSUME TrainingInv, NEW f \in Flushes, NEW answer \in Answers,
           flush[f].phase \in {"posted", "givenUp"},
           flush' = [flush EXCEPT ![f] = IF @.phase = "givenUp" THEN NoFlush
                                         ELSE [@ EXCEPT !.phase = "answered", !.answer = answer]],
           Settled \subseteq Settled',
           GoesBack(answer) \/ ToSet(flush[f].batch) \subseteq Settled'
    PROVE  /\ TrainedIsThere'
           /\ flush' \in [Flushes -> FlushRecord]
           /\ \A g \in Flushes : flush'[g].phase = "none" => flush'[g].batch = <<>>
           /\ InFlight \subseteq InFlight'
<1> DEFINE r == IF flush[f].phase = "givenUp" THEN NoFlush
                ELSE [flush[f] EXCEPT !.phase = "answered", !.answer = answer]
<1>0. PICK phase \in Phases : phase = "answered"
    BY DEF Phases
<1>1. flush' = [flush EXCEPT ![f] = r] /\ flush[f] \in FlushRecord
    BY DEF TrainingInv
<1>2. /\ r \in FlushRecord /\ (r.phase = "none" => r.batch = <<>>)
      /\ flush[f].phase # "givenUp" => /\ r.phase = "answered" /\ r.batch = flush[f].batch
                                       /\ r.answer = answer
      /\ flush[f].phase = "givenUp" => r.phase = "none"
    <2>1. r = IF flush[f].phase = "givenUp" THEN NoFlush
              ELSE [flush[f] EXCEPT !.phase = phase, !.answer = answer]
        BY <1>0
    <2> HIDE DEF r
    <2>2. CASE flush[f].phase = "givenUp"
        BY <2>1, <2>2, NoFlushIsFlush
    <2>3. CASE flush[f].phase # "givenUp"
        <3>1. r = [flush[f] EXCEPT !.phase = phase, !.answer = answer]
            BY <2>1, <2>3
        <3>2. /\ r \in FlushRecord /\ r.phase = phase
              /\ r.batch = flush[f].batch /\ r.answer = answer
            BY <1>1, <3>1 DEF FlushRecord
        <3> QED
            BY <1>0, <2>3, <3>2
    <2> QED
        BY <2>2, <2>3
<1> HIDE DEF r
<1>3. /\ flush' \in [Flushes -> FlushRecord] /\ TrainedIsThere'
      /\ \A g \in Flushes : flush'[g].phase = "none" => flush'[g].batch = <<>>
      /\ InFlight \subseteq InFlight' \union
             (IF flush[f].phase = "givenUp" THEN {} ELSE ToSet(flush[f].batch))
      /\ r.phase # "givenUp" => ToSet(r.batch) \subseteq InFlight'
    BY <1>1, <1>2, FlushChanges, ZenonT(30)
<1> QED
    BY <1>2, <1>3

LEMMA TrainKeeps ==
    ASSUME TrainingInv, NEW f \in Flushes, NEW answer \in Answers, Train(f, answer)
    PROVE  TrainingInv'
<1> DEFINE batch == flush[f].batch
           all   == trainer.buffer \o batch
           over  == Len(all) - MaxBufferSize
<1>1. batch \in Seq(Nat) /\ trainer.buffer \in Seq(Nat) /\ MaxBufferSize \in Int
    BY TrainingAssumption DEF TrainingInv, FlushRecord
<1>2. all \in Seq(Nat) /\ ToSet(all) = ToSet(trainer.buffer) \union ToSet(batch)
    BY <1>1, JoinedSet
<1> HIDE DEF batch
<1>3. /\ Taken(batch).kept \in Seq(Nat)
      /\ ToSet(all) \subseteq ToSet(Taken(batch).kept) \union Taken(batch).lost
    <2>1. /\ Taken(batch).kept = IF over > 0 THEN AllBut(all, over) ELSE all
          /\ Taken(batch).lost = IF over > 0 THEN ToSet(FirstOf(all, over)) ELSE {}
        BY DEF Taken
    <2> HIDE DEF all
    <2>2. over \in Int
        BY <1>1, <1>2
    <2> HIDE DEF over
    <2>3. CASE over > 0
        <3>1. over \in Nat
            BY <2>2, <2>3
        <3>2. /\ AllBut(all, over) \in Seq(Nat)
              /\ ToSet(all) \subseteq ToSet(FirstOf(all, over)) \union ToSet(AllBut(all, over))
            BY <1>2, <3>1, CutInTwo
        <3> QED
            BY <2>1, <2>3, <3>2
    <2>4. CASE ~(over > 0)
        BY <1>2, <2>1, <2>4
    <2> QED
        BY <2>3, <2>4
<1>4. /\ trainer' = [trainer EXCEPT !.buffer = Taken(batch).kept]
      /\ dropped' = dropped \union Taken(batch).lost
      /\ UNCHANGED <<queued, buffer, learned, unread>>
    BY DEF Train, AddSamples, batch
<1> HIDE DEF all
<1>5. /\ trainer'.buffer = Taken(batch).kept
      /\ trainer' = [buffer |-> trainer'.buffer, looping |-> trainer'.looping]
    BY <1>4 DEF TrainingInv
<1>8. Settled \subseteq Settled' /\ ToSet(batch) \subseteq Settled'
    BY <1>2, <1>3, <1>4, <1>5 DEF Settled
<1>6. /\ flush' \in [Flushes -> FlushRecord] /\ TrainedIsThere'
      /\ \A g \in Flushes : flush'[g].phase = "none" => flush'[g].batch = <<>>
      /\ InFlight \subseteq InFlight'
    BY <1>8, AnswerChanges DEF Train, batch
<1>7. NoSampleForgotten'
    BY <1>2, <1>3, <1>4, <1>5, <1>6, NothingForgotten DEF Known, Settled
<1> QED
    BY <1>3, <1>4, <1>5, <1>6, <1>7 DEF TrainingInv

LEMMA NotTrainedKeeps ==
    ASSUME TrainingInv, NEW f \in Flushes, NEW answer \in {"refused", "degraded"},
           NotTrained(f, answer)
    PROVE  TrainingInv'
<1>2. UNCHANGED <<queued, buffer, posts, trainer, learned, dropped, unread>>
    BY DEF NotTrained
<1>4. answer \in Answers /\ GoesBack(answer) /\ Settled' = Settled
    BY <1>2 DEF Answers, GoesBack, Settled
<1>1. /\ flush' \in [Flushes -> FlushRecord] /\ TrainedIsThere'
      /\ \A g \in Flushes : flush'[g].phase = "none" => flush'[g].batch = <<>>
      /\ InFlight \subseteq InFlight'
    BY <1>4, AnswerChanges DEF NotTrained
<1>3. NoSampleForgotten'
    BY <1>1, <1>2, NothingForgotten DEF Known, Settled
<1> QED
    BY <1>1, <1>2, <1>3 DEF TrainingInv

(* A batch ends at the page: it goes back, or need not be kept.            *)
LEMMA BatchEnds ==
    ASSUME TrainingInv, NEW f \in Flushes, NEW r \in FlushRecord,
           flush' = [flush EXCEPT ![f] = r], r.phase = "none" => r.batch = <<>>,
           r.phase # "answered", UNCHANGED <<queued, trainer>>, Settled \subseteq Settled',
           \/ buffer' = flush[f].batch \o buffer
           \/ buffer' = buffer /\ ToSet(flush[f].batch) \subseteq Settled'
    PROVE  TrainingInv'
<1>2. flush[f].batch \in Seq(Nat) /\ buffer \in Seq(Nat)
    BY DEF TrainingInv, FlushRecord
<1>3. /\ flush' \in [Flushes -> FlushRecord] /\ TrainedIsThere'
      /\ \A g \in Flushes : flush'[g].phase = "none" => flush'[g].batch = <<>>
      /\ InFlight \subseteq InFlight' \union
             (IF flush[f].phase = "givenUp" THEN {} ELSE ToSet(flush[f].batch))
    BY FlushChanges
<1>4. /\ buffer' \in Seq(Nat) /\ ToSet(buffer) \subseteq ToSet(buffer')
      /\ ToSet(flush[f].batch) \subseteq ToSet(buffer') \union Settled'
    BY <1>2, JoinedSet
<1>5. NoSampleForgotten'
    BY <1>3, <1>4, NothingForgotten DEF Known, Settled
<1> QED
    BY <1>3, <1>4, <1>5 DEF TrainingInv

LEMMA ReceiveKeeps == ASSUME TrainingInv, NEW f \in Flushes, Receive(f) PROVE TrainingInv'
<1>1. /\ flush' = [flush EXCEPT ![f] = NoFlush] /\ flush[f].phase = "answered"
      /\ UNCHANGED <<queued, trainer, learned, dropped, unread>>
      /\ buffer' = IF GoesBack(flush[f].answer) THEN flush[f].batch \o buffer ELSE buffer
    BY DEF Receive
<1>2. ~GoesBack(flush[f].answer) => ToSet(flush[f].batch) \subseteq Settled
    BY <1>1 DEF TrainingInv, TrainedIsThere
<1>3. Settled' = Settled
    BY <1>1 DEF Settled
<1> QED
    BY <1>1, <1>2, <1>3, NoFlushIsFlush, BatchEnds

LEMMA ReceiveUnreadKeeps ==
    ASSUME TrainingInv, NEW f \in Flushes, ReceiveUnread(f) PROVE TrainingInv'
<1>1. /\ flush' = [flush EXCEPT ![f] = NoFlush]
      /\ flush[f].phase = "answered" /\ flush[f].answer # "refused"
      /\ unread' = IF flush[f].answer = "degraded" THEN unread \union ToSet(flush[f].batch)
                                                   ELSE unread
      /\ UNCHANGED <<queued, buffer, trainer, learned, dropped>>
    BY DEF ReceiveUnread
<1>2. Settled \subseteq Settled'
    BY <1>1 DEF Settled
<1>3. ToSet(flush[f].batch) \subseteq Settled'
    <2>1. CASE flush[f].answer = "degraded"
        BY <1>1, <2>1 DEF Settled
    <2>2. CASE flush[f].answer # "degraded"
        <3>1. ~GoesBack(flush[f].answer)
            BY <1>1, <2>2 DEF GoesBack
        <3> QED
            BY <1>1, <1>2, <3>1 DEF TrainingInv, TrainedIsThere
    <2> QED
        BY <2>1, <2>2
<1> QED
    BY <1>1, <1>2, <1>3, NoFlushIsFlush, BatchEnds

LEMMA GiveUpKeeps == ASSUME TrainingInv, NEW f \in Flushes, GiveUp(f) PROVE TrainingInv'
<1> DEFINE r == IF flush[f].phase = "posted" THEN [flush[f] EXCEPT !.phase = "givenUp"] ELSE NoFlush
<1>1. /\ flush' = [flush EXCEPT ![f] = r] /\ flush[f] \in FlushRecord
      /\ UNCHANGED <<queued, trainer, learned, dropped, unread>>
      /\ buffer' = flush[f].batch \o buffer
    BY DEF GiveUp, TrainingInv
<1>2. r \in FlushRecord /\ (r.phase = "none" => r.batch = <<>>) /\ r.phase # "answered"
    <2>1. PICK phase \in Phases : phase = "givenUp"
        BY DEF Phases
    <2>2. r = IF flush[f].phase = "posted" THEN [flush[f] EXCEPT !.phase = phase] ELSE NoFlush
        BY <2>1
    <2> HIDE DEF r
    <2> QED
        BY <1>1, <2>1, <2>2, NoFlushIsFlush, WithPhase
<1> HIDE DEF r
<1>3. Settled' = Settled
    BY <1>1 DEF Settled
<1> QED
    BY <1>1, <1>2, <1>3, BatchEnds

LEMMA LearnBatchKeeps ==
    ASSUME TrainingInv, NEW raises \in BOOLEAN, LearnBatch(raises) PROVE TrainingInv'
<1> DEFINE first == FirstOf(trainer.buffer, TrainingBatchSize)
           rest  == AllBut(trainer.buffer, TrainingBatchSize)
<1>1. /\ rest \in Seq(Nat) /\ ToSet(trainer.buffer) \subseteq ToSet(first) \union ToSet(rest)
    BY CutInTwo, TrainingAssumption DEF TrainingInv
<1>2. /\ trainer' = [buffer |-> rest, looping |-> ~raises]
      /\ \/ dropped' = dropped \union ToSet(first) /\ UNCHANGED learned
         \/ learned' = learned \union ToSet(first) /\ UNCHANGED dropped
      /\ UNCHANGED <<queued, buffer, flush, posts, unread>>
    BY DEF LearnBatch
<1>3. trainer'.buffer = rest
      /\ trainer' = [buffer |-> trainer'.buffer, looping |-> trainer'.looping]
    BY <1>2, Zenon
<1> HIDE DEF first, rest
<1>4. InFlight' = InFlight /\ Settled \subseteq Settled'
    BY <1>1, <1>2, <1>3 DEF InFlight, Settled
<1>5. NoSampleForgotten'
    BY <1>1, <1>2, <1>3, <1>4, NothingForgotten DEF Known
<1>6. TrainedIsThere'
    BY <1>2, <1>4 DEF TrainingInv, TrainedIsThere, GoesBack
<1> QED
    BY <1>1, <1>2, <1>3, <1>5, <1>6 DEF TrainingInv

LEMMA RestartPredictorKeeps == TrainingInv /\ RestartPredictor => TrainingInv'
<1> SUFFICES ASSUME TrainingInv, RestartPredictor PROVE TrainingInv'
    OBVIOUS
<1>1. /\ trainer'.buffer = <<>>
      /\ trainer' = [buffer |-> trainer'.buffer, looping |-> trainer'.looping]
    BY DEF RestartPredictor
<1>2. /\ dropped' = dropped \union ToSet(trainer.buffer)
      /\ UNCHANGED <<queued, buffer, flush, posts, learned, unread>>
    BY DEF RestartPredictor
<1>4. InFlight' = InFlight /\ Settled \subseteq Settled'
    BY <1>1, <1>2 DEF InFlight, Settled
<1>5. NoSampleForgotten'
    BY <1>1, <1>2, <1>4, NothingForgotten DEF Known
<1>6. TrainedIsThere'
    BY <1>2, <1>4 DEF TrainingInv, TrainedIsThere, GoesBack
<1> QED
    BY <1>1, <1>2, <1>5, <1>6 DEF TrainingInv

LEMMA TrainingInvKept == TrainingInv /\ [TrainingNext]_trainingVars => TrainingInv'
<1> SUFFICES ASSUME TrainingInv, [TrainingNext]_trainingVars PROVE TrainingInv'
    OBVIOUS
<1>1. ASSUME NEW count \in 1 .. Samples, QueueSamples(count) PROVE TrainingInv'
    BY <1>1, QueueSamplesKeeps
<1>2. CASE FlushInterval
    BY <1>2, FlushIntervalKeeps
<1>3. ASSUME NEW f \in Flushes, NEW answer \in {"ok", "serverError", "degraded"}, Train(f, answer)
      PROVE  TrainingInv'
    <2>1. answer \in Answers
        BY DEF Answers
    <2> QED
        BY <1>3, <2>1, TrainKeeps
<1>4. ASSUME NEW f \in Flushes, NEW answer \in {"refused", "degraded"}, NotTrained(f, answer)
      PROVE  TrainingInv'
    BY <1>4, NotTrainedKeeps
<1>5. ASSUME NEW f \in Flushes, Receive(f) \/ ReceiveUnread(f) PROVE TrainingInv'
    BY <1>5, ReceiveKeeps, ReceiveUnreadKeeps
<1>6. ASSUME NEW f \in Flushes, GiveUp(f) PROVE TrainingInv'
    BY <1>6, GiveUpKeeps
<1>7. ASSUME NEW raises \in BOOLEAN, LearnBatch(raises) PROVE TrainingInv'
    BY <1>7, LearnBatchKeeps
<1>8. CASE RestartPredictor
    BY <1>8, RestartPredictorKeeps
<1>9. CASE UNCHANGED trainingVars
    BY <1>9 DEF trainingVars, TrainingInv, NoSampleForgotten, OnTheWay, TrainedIsThere, Settled,
               GoesBack
<1> QED
    BY <1>1, <1>2, <1>3, <1>4, <1>5, <1>6, <1>7, <1>8, <1>9 DEF TrainingNext

(* What was queued, what is under way and what the predictor has add up at *)
(* every step.                                                             *)
THEOREM TrainingInvariant == TrainingSpec => []TrainingInv
BY TrainingInvInit, TrainingInvKept, PTL DEF TrainingSpec

(* No sample is forgotten, for any number of samples and of flushes that   *)
(* overlap, and any sizes of batches and buffers.                          *)
THEOREM SamplesAreKept == TrainingSpec => []NoSampleForgotten
BY TrainingInvariant, PTL DEF TrainingInv

-----------------------------------------------------------------------------
(* The calls to the control plane.                                         *)

CallStates == {"idle", "sending", "answered", "unreachable"}

CallRecord == [state : CallStates, read : BOOLEAN,
               attempts : Int, address : 1 .. Addresses, attempt : Int, sent : Int,
               failure : FailureClasses \union {"none"}]

(* What a write carries while it is under way: the addresses before the    *)
(* present one performed it once at most, the others not yet.              *)
FetchInv ==
    /\ call \in [Calls -> CallRecord]
    /\ performed \in [Calls -> [1 .. Addresses -> Nat]]
    /\ \A c \in Calls : call[c].state = "idle" => \A a \in 1 .. Addresses : performed[c][a] = 0
    /\ \A c \in Calls : call[c].state = "sending" /\ ~call[c].read =>
           \A a \in 1 .. Addresses : a >= call[c].address => performed[c][a] = 0
    /\ WriteOncePerAddress

LEMMA AttemptsIsInt == \A read \in BOOLEAN : Attempts(read) \in Int
<1> SUFFICES ASSUME NEW read \in BOOLEAN PROVE Attempts(read) \in Int
    OBVIOUS
<1> DEFINE full == IF read THEN RetryAttempts ELSE 1
<1>1. full \in Int
    BY FetchAssumption
<1>2. PICK x \in {1, full - 1} : \A y \in {1, full - 1} : x >= y
    BY <1>1
<1>3. Max({1, full - 1}) \in {1, full - 1}
    BY <1>2 DEF Max
<1> QED
    BY <1>1, <1>3 DEF Attempts

LEMMA NoCallIsCall == NoCall \in CallRecord /\ NoCall.state = "idle" /\ NoCall.read = TRUE
BY FetchAssumption DEF NoCall, CallRecord, CallStates

LEMMA StateAndMethod ==
    \A r \in CallRecord : \A state \in CallStates : \A read \in BOOLEAN :
        [r EXCEPT !.state = state, !.read = read] \in CallRecord
<1> TAKE r \in CallRecord
<1> TAKE state \in CallStates
<1> TAKE read \in BOOLEAN
<1> QED
    BY DEF CallRecord, CallStates

(* The record a call starts from, or is left with.                         *)
LEMMA FromNoCall ==
    \A state \in CallStates : \A read \in BOOLEAN :
        [NoCall EXCEPT !.state = state, !.read = read] \in CallRecord
BY NoCallIsCall, StateAndMethod, Zenon

LEMMA CallCounts ==
    ASSUME NEW r \in CallRecord, NEW attempts \in Int, NEW sent \in Int
    PROVE  /\ [r EXCEPT !.attempts = attempts, !.sent = sent] \in CallRecord
           /\ [r EXCEPT !.attempts = attempts, !.sent = sent].state = r.state
           /\ [r EXCEPT !.attempts = attempts, !.sent = sent].read = r.read
BY DEF CallRecord, CallStates

LEMMA NextAttempt ==
    ASSUME NEW r \in CallRecord, NEW failure \in FailureClasses, NEW address \in 1 .. Addresses,
           NEW attempt \in Int, NEW sent \in Int
    PROVE  /\ [r EXCEPT !.attempt = attempt, !.sent = sent, !.failure = failure] \in CallRecord
           /\ [r EXCEPT !.address = address, !.attempt = attempt, !.sent = sent,
                        !.failure = failure] \in CallRecord
BY DEF CallRecord, CallStates

LEMMA FetchInvInit == FetchInit => FetchInv
BY FetchAssumption DEF FetchInit, FetchInv, NoCall, CallRecord, CallStates, WriteOncePerAddress

LEMMA FetchKeeps ==
    ASSUME FetchInv, NEW c \in Calls, NEW read \in BOOLEAN, Fetch(c, read)
    PROVE  FetchInv'
<1> DEFINE new == [NoCall EXCEPT !.state = "sending", !.read = read,
                                 !.attempts = Attempts(read), !.sent = 1]
<1>1. new \in CallRecord /\ new.state = "sending" /\ new.read = read
    <2>1. Attempts(read) \in Int /\ 1 \in Int
        BY AttemptsIsInt
    <2>2. "sending" \in CallStates
        BY DEF CallStates
    <2>3. PICK begun : begun = [NoCall EXCEPT !.state = "sending", !.read = read]
        OBVIOUS
    <2>5. begun \in CallRecord
        BY <2>2, <2>3, FromNoCall, Zenon
    <2>6. begun.state = "sending"
        BY <2>3, NoCallIsCall, Zenon DEF CallRecord, CallStates
    <2>7. begun.read = read
        BY <2>3, NoCallIsCall, Zenon DEF CallRecord, CallStates
    <2>4. new = [begun EXCEPT !.attempts = Attempts(read), !.sent = 1]
        BY <2>3, Zenon
    <2> HIDE DEF new
    <2> QED
        BY <2>1, <2>4, <2>5, <2>6, <2>7, CallCounts, ZenonT(30)
<1>2. call' = [call EXCEPT ![c] = new] /\ performed' = performed /\ call[c].state = "idle"
    BY DEF Fetch
<1> HIDE DEF new
<1> QED
    BY <1>1, <1>2 DEF FetchInv, WriteOncePerAddress

LEMMA PerformedOnce ==
    ASSUME FetchInv, NEW c \in Calls, call[c].state = "sending"
    PROVE  /\ PerformedBy(c) \in [Calls -> [1 .. Addresses -> Nat]]
           /\ \A d \in Calls \ {c} : PerformedBy(c)[d] = performed[d]
           /\ ~call[c].read => \A a \in 1 .. Addresses :
                  /\ PerformedBy(c)[c][a] <= 1
                  /\ a > call[c].address => PerformedBy(c)[c][a] = 0
<1> DEFINE at == call[c].address
<1>1. at \in 1 .. Addresses /\ performed[c] \in [1 .. Addresses -> Nat]
    BY DEF FetchInv, CallRecord, CallStates
<1>2. PerformedBy(c) = [performed EXCEPT ![c] = [performed[c] EXCEPT ![at] = performed[c][at] + 1]]
    BY DEF PerformedBy
<1>3. performed \in [Calls -> [1 .. Addresses -> Nat]]
    BY DEF FetchInv
<1>4. ~call[c].read => \A a \in 1 .. Addresses :
          performed[c][a] <= 1 /\ (a >= at => performed[c][a] = 0)
    BY DEF FetchInv, WriteOncePerAddress
<1> HIDE DEF at
<1>5. at \in Int
    BY <1>1, FetchAssumption
<1> QED
    BY <1>1, <1>2, <1>3, <1>4, <1>5, FetchAssumption DEF at

LEMMA OverIsOver ==
    ASSUME FetchInv, NEW c \in Calls, NEW state \in {"answered", "unreachable"}
    PROVE  /\ Over(c, state) \in CallRecord
           /\ Over(c, state).state = state
           /\ Over(c, state).read = call[c].read
<1>1. call[c].read \in BOOLEAN
    BY DEF FetchInv, CallRecord, CallStates
<1>2. state \in CallStates
    BY DEF CallStates
<1>3. Over(c, state) = [NoCall EXCEPT !.state = state, !.read = call[c].read]
    BY DEF Over
<1>4. Over(c, state) \in CallRecord
    BY <1>1, <1>2, <1>3, FromNoCall, ZenonT(30)
<1>5. Over(c, state).state = state
    BY <1>3, NoCallIsCall, Zenon DEF CallRecord, CallStates
<1>6. Over(c, state).read = call[c].read
    BY <1>3, NoCallIsCall, Zenon DEF CallRecord, CallStates
<1> QED
    BY <1>4, <1>5, <1>6

LEMMA AnswerKeeps == ASSUME FetchInv, NEW c \in Calls, Answer(c) PROVE FetchInv'
<1>1. call' = [call EXCEPT ![c] = Over(c, "answered")] /\ performed' = PerformedBy(c)
      /\ call[c].state = "sending"
    BY DEF Answer
<1> QED
    BY <1>1, OverIsOver, PerformedOnce DEF FetchInv, WriteOncePerAddress

LEMMA GoOnKeeps == ASSUME FetchInv, NEW c \in Calls, GoOn(c) PROVE FetchInv'
<1>1. NoCall \in CallRecord /\ NoCall.state = "idle" /\ NoCall.read
    BY FetchAssumption DEF NoCall, CallRecord, CallStates
<1> QED
    BY <1>1 DEF GoOn, FetchInv, WriteOncePerAddress

(* An attempt that failed leaves the call at this address only if it is a  *)
(* read; a write moves on to an address that has not performed it.         *)
LEMMA FailKeeps ==
    ASSUME FetchInv, NEW c \in Calls, NEW failure \in Failures, NEW done \in BOOLEAN,
           Fail(c, failure, done)
    PROVE  FetchInv'
<1>1. call[c].state = "sending" /\ call[c] \in CallRecord
    BY DEF Fail, FetchInv
<1> DEFINE r == call[c]
<1>0. /\ r.state = "sending"
      /\ r.read \in BOOLEAN /\ r.attempts \in Int /\ r.address \in 1 .. Addresses
      /\ r.attempt \in Int /\ r.sent \in Int
    BY <1>1 DEF CallRecord, CallStates
<1>2. failure \in FailureClasses
    BY FetchAssumption
<1>3. /\ performed' \in [Calls -> [1 .. Addresses -> Nat]]
      /\ \A d \in Calls \ {c} : performed'[d] = performed[d]
      /\ ~call[c].read => \A a \in 1 .. Addresses :
             /\ performed'[c][a] <= 1
             /\ a > call[c].address => performed'[c][a] = 0
    <2>1. CASE done
        BY <1>1, <2>1, PerformedOnce DEF Fail
    <2>2. CASE ~done
        <3>1. performed' = performed
            BY <2>2 DEF Fail
        <3>2. call[c].address \in Int
            BY <1>1, FetchAssumption DEF CallRecord, CallStates
        <3> QED
            BY <1>1, <3>1, <3>2, FetchAssumption DEF FetchInv, WriteOncePerAddress
    <2> QED
        BY <2>1, <2>2
<1>4. PICK new \in CallRecord :
          /\ call' = [call EXCEPT ![c] = new]
          /\ new.read = call[c].read /\ new.state # "idle"
          /\ new.state = "sending" /\ ~new.read => new.address > call[c].address
    <2>1. CASE ShouldRetry(c, failure)
        <3> DEFINE new == [call[c] EXCEPT !.attempt = @ + 1, !.sent = @ + 1, !.failure = failure]
        <3>1. new \in CallRecord /\ new.read = call[c].read /\ new.state = "sending"
            <4>1. r.attempt + 1 \in Int /\ r.sent + 1 \in Int
                BY <1>0
            <4>2. [r EXCEPT !.attempt = r.attempt + 1, !.sent = r.sent + 1, !.failure = failure]
                      \in CallRecord
                BY <1>0, <1>1, <1>2, <4>1, NextAttempt
            <4> QED
                BY <1>0, <1>1, <4>2
        <3>2. call' = [call EXCEPT ![c] = new]
            BY <2>1 DEF Fail, FetchInv
        <3>3. new.read
            BY <2>1, <3>1 DEF ShouldRetry
        <3> QED
            BY <3>1, <3>2, <3>3
    <2>2. CASE ~ShouldRetry(c, failure) /\ call[c].address < Addresses
        <3> DEFINE new == [call[c] EXCEPT !.address = @ + 1, !.attempt = 1,
                                          !.sent = @ + 1, !.failure = failure]
        <3>1. /\ new \in CallRecord /\ new.read = call[c].read /\ new.state = "sending"
              /\ new.address = call[c].address + 1 /\ call[c].address \in Int
            <4>1. /\ r.address + 1 \in 1 .. Addresses /\ r.sent + 1 \in Int
                  /\ r.address \in Int /\ 1 \in Int
                BY <1>0, <2>2, FetchAssumption
            <4>2. [r EXCEPT !.address = r.address + 1, !.attempt = 1, !.sent = r.sent + 1,
                            !.failure = failure] \in CallRecord
                BY <1>0, <1>1, <1>2, <4>1, NextAttempt
            <4> QED
                BY <1>0, <1>1, <4>1, <4>2
        <3>2. call' = [call EXCEPT ![c] = new]
            <4>1. call[c].address # Addresses
                BY <1>0, <2>2, FetchAssumption
            <4> QED
                BY <2>2, <4>1 DEF Fail, FetchInv
        <3> HIDE DEF new
        <3>3. new.address > call[c].address
            BY <3>1
        <3> QED
            BY <3>1, <3>2, <3>3
    <2>3. CASE ~ShouldRetry(c, failure) /\ call[c].address = Addresses
        <3>1. call' = [call EXCEPT ![c] = Over(c, "unreachable")]
            BY <2>3, FetchAssumption DEF Fail
        <3> QED
            BY <3>1, OverIsOver
    <2> QED
        BY <2>1, <2>2, <2>3 DEF Fail
<1>5. new.address \in 1 .. Addresses /\ call[c].address \in 1 .. Addresses
    BY <1>1, <1>4 DEF CallRecord, CallStates
<1>6. call' \in [Calls -> CallRecord] /\ call'[c] = new
      /\ \A d \in Calls \ {c} : call'[d] = call[d]
    BY <1>4 DEF FetchInv
<1>7. \A d \in Calls : call'[d].state = "idle" => \A a \in 1 .. Addresses : performed'[d][a] = 0
    BY <1>3, <1>4, <1>6 DEF FetchInv
<1>8. \A d \in Calls : call'[d].state = "sending" /\ ~call'[d].read =>
          \A a \in 1 .. Addresses : a >= call'[d].address => performed'[d][a] = 0
    <2>1. \A a \in 1 .. Addresses : new.state = "sending" /\ ~new.read /\ a >= new.address
                                       => performed'[c][a] = 0
        BY <1>3, <1>4, <1>5, FetchAssumption
    <2>2. \A d \in Calls \ {c} : call'[d] = call[d] /\ performed'[d] = performed[d]
        BY <1>3, <1>6
    <2> QED
        BY <1>6, <2>1, <2>2 DEF FetchInv
<1>9. WriteOncePerAddress'
    BY <1>3, <1>4, <1>6 DEF FetchInv, WriteOncePerAddress
<1> QED
    BY <1>3, <1>6, <1>7, <1>8, <1>9 DEF FetchInv

LEMMA FetchInvKept == FetchInv /\ [FetchNext]_fetchVars => FetchInv'
<1> SUFFICES ASSUME FetchInv, [FetchNext]_fetchVars PROVE FetchInv'
    OBVIOUS
<1>1. ASSUME NEW c \in Calls, NEW read \in BOOLEAN, Fetch(c, read) PROVE FetchInv'
    BY <1>1, FetchKeeps
<1>2. ASSUME NEW c \in Calls, Answer(c) PROVE FetchInv'
    BY <1>2, AnswerKeeps
<1>3. ASSUME NEW c \in Calls, GoOn(c) PROVE FetchInv'
    BY <1>3, GoOnKeeps
<1>4. ASSUME NEW c \in Calls, NEW failure \in Failures, NEW done \in BOOLEAN,
             Fail(c, failure, done)
      PROVE  FetchInv'
    BY <1>4, FailKeeps
<1>5. CASE UNCHANGED fetchVars
    BY <1>5 DEF fetchVars, FetchInv, WriteOncePerAddress
<1> QED
    BY <1>1, <1>2, <1>3, <1>4, <1>5 DEF FetchNext

(* A write under way was performed by no address it still has to try.      *)
THEOREM FetchInvariant == FetchSpec => []FetchInv
BY FetchInvInit, FetchInvKept, PTL DEF FetchSpec

(* A call that writes is performed at most once by each address, for any   *)
(* number of calls, attempts and failures.                                 *)
THEOREM WritesHappenOnce == FetchSpec => []WriteOncePerAddress
BY FetchInvariant, PTL DEF FetchInv

-----------------------------------------------------------------------------
(* The write-backs.                                                        *)

KeyAnswers == {"none", "accepted", "refused"}
Records == [Keys -> [answer : KeyAnswers, old : BOOLEAN, newer : Nat]]
FreshRecords == {recs \in Records : \A k \in Keys : ~recs[k].old}

Undecided == {"prune", "pruning", "known", "upstream", "unreachable"}
Emptied == {"pruning", "storing"}

Writebacks == [phase : {"idle", "lookup", "save", "store"} \union Undecided \union Emptied,
               key : Keys \union {NoCaller}, dry : BOOLEAN, answer : KeyAnswers,
               next : FreshRecords]

Senders == [key : Keys, used : SUBSET Keys, waits : Calls \union {NoCaller}, submits : Nat]

TuningShape ==
    /\ writeback \in [Calls -> Writebacks]
    /\ \A c \in Calls : ~Phase(c, "idle") => writeback[c].key \in Keys
    /\ records \in Records
    /\ sender \in Senders
    /\ applied \in [Keys -> Nat]

Solo == \A c, d \in Calls : Phase(c, "idle") \/ Phase(d, "idle") \/ c = d

(* The one that opened the file finds it as it left it.                    *)
FileEmptied == \A c \in Calls : writeback[c].phase \in Emptied => records = NoRecords

Kept(recs, k) == recs[k].answer # "none" /\ ~recs[k].old

(* A request that found no answer is the first to apply its key, or one    *)
(* that follows a loss; one that is to be recorded has an answer.          *)
FoundNothing(w) == w.phase \in Undecided /\ (w.answer = "none" \/ w.phase = "upstream")

FoundNone ==
    \A c \in Calls :
        /\ FoundNothing(writeback[c]) =>
              applied[writeback[c].key] = 0 \/ writeback[c].key \in doubtful
        /\ Phase(c, "save") => writeback[c].answer # "none"

(* Where the answer of a key is while a request is under way: with the     *)
(* request that is to record it or that emptied the file, else in the      *)
(* file.                                                                   *)
AnsweredBy(w, k, recs) ==
    IF w.phase \in Emptied \/ (w.phase = "store" /\ w.key = k) THEN Kept(w.next, k)
    ELSE (w.phase = "save" /\ w.key = k) \/ Kept(recs, k)

Answered(k) ==
    /\ \A c \in Calls : Phase(c, "idle") \/ AnsweredBy(writeback[c], k, records)
    /\ (\A c \in Calls : Phase(c, "idle")) => Kept(records, k)

AppliedIsAnswered ==
    \A k \in Keys : applied[k] = 0 \/ k \in doubtful \/ (applied[k] = 1 /\ Answered(k))

TuningInv ==
    /\ TuningShape
    /\ serial => Solo /\ FileEmptied /\ FoundNone /\ AppliedIsAnswered

LEMMA NoRecordsShape ==
    NoRecords \in Records /\ NoRecords \in FreshRecords /\ \A k \in Keys : ~Kept(NoRecords, k)
BY DEF NoRecords, Unknown, Records, FreshRecords, KeyAnswers, Kept

LEMMA FreshIsRecords == \A recs \in FreshRecords : recs \in Records
BY DEF FreshRecords, Records

LEMMA IdleShape == NoWriteback \in Writebacks /\ NoWriteback.phase = "idle"
BY NoRecordsShape DEF NoWriteback, Writebacks, KeyAnswers

LEMMA TuningInvInit == TuningInit => TuningInv
<1> SUFFICES ASSUME TuningInit PROVE TuningInv
    OBVIOUS
<1>1. \A c \in Calls : writeback[c] = NoWriteback /\ writeback[c].phase = "idle"
    BY IdleShape DEF TuningInit
<1>2. PICK k \in Keys, done \in SUBSET Keys, newer \in [Keys -> 0 .. MaxRecords - 1] :
          /\ sender = [key |-> k, used |-> {k} \union done, waits |-> NoCaller, submits |-> 0]
          /\ records = Earlier(done, newer)
          /\ applied = [j \in Keys |-> IF j \in done THEN 1 ELSE 0]
    BY DEF TuningInit
<1>3. /\ Unknown \in [answer : KeyAnswers, old : BOOLEAN, newer : Nat]
      /\ \A j \in Keys : [answer |-> "accepted", old |-> FALSE, newer |-> newer[j]]
                            \in [answer : KeyAnswers, old : BOOLEAN, newer : Nat]
    <2>1. \A j \in Keys : newer[j] \in Nat
        BY TuningAssumption
    <2> QED
        BY <2>1 DEF Unknown, KeyAnswers
<1>4. TuningShape
    <2>1. writeback \in [Calls -> Writebacks]
        BY IdleShape DEF TuningInit
    <2>2. records \in Records /\ applied \in [Keys -> Nat]
        BY <1>2, <1>3 DEF Records, Earlier
    <2>3. sender \in Senders
        BY <1>2 DEF Senders
    <2> QED
        BY <1>1, <2>1, <2>2, <2>3 DEF TuningShape, Phase
<1>5. Solo /\ FileEmptied /\ FoundNone
    BY <1>1 DEF Solo, FileEmptied, FoundNone, FoundNothing, Phase, Undecided, Emptied
<1>6. AppliedIsAnswered
    <2> SUFFICES ASSUME NEW j \in Keys, applied[j] # 0 PROVE applied[j] = 1 /\ Answered(j)
        BY DEF AppliedIsAnswered
    <2>1. applied[j] = 1 /\ records[j].answer = "accepted" /\ ~records[j].old
        BY <1>2 DEF Earlier
    <2>2. Kept(records, j)
        BY <2>1 DEF Kept
    <2> QED
        BY <1>1, <2>1, <2>2 DEF Answered, Phase
<1> QED
    BY <1>4, <1>5, <1>6 DEF TuningInv

-----------------------------------------------------------------------------
LEMMA SoloKnows ==
    ASSUME TuningInv, serial, NEW c \in Calls, ~Phase(c, "idle"), NEW k \in Keys
    PROVE  applied[k] = 0 \/ k \in doubtful \/ (applied[k] = 1 /\ AnsweredBy(writeback[c], k, records))
BY DEF TuningInv, AppliedIsAnswered, Answered

(* A step of one request keeps the invariant if what the request then is   *)
(* agrees with the file and with what was applied.                         *)
LEMMA SoloStep ==
    ASSUME TuningInv, NEW c \in Calls, serial' => \A d \in Calls : d # c => Phase(d, "idle"),
           NEW w \in Writebacks, w.phase # "idle" => w.key \in Keys,
           writeback' = [writeback EXCEPT ![c] = w],
           records' \in Records, applied' \in [Keys -> Nat],
           sender' \in Senders,
           serial' => (w.phase \in Emptied => records' = NoRecords),
           serial' => (FoundNothing(w) => applied'[w.key] = 0 \/ w.key \in doubtful'),
           serial' => (w.phase = "save" => w.answer # "none"),
           serial' => \A k \in Keys : \/ applied'[k] = 0 \/ k \in doubtful'
                                      \/ applied'[k] = 1 /\ AnsweredBy(w, k, records')
    PROVE  TuningInv'
<1>1. writeback'[c] = w /\ \A d \in Calls : d # c => writeback'[d] = writeback[d]
    BY DEF TuningInv, TuningShape
<1>2. TuningShape'
    <2>1. writeback' \in [Calls -> Writebacks]
        BY DEF TuningInv, TuningShape
    <2>2. \A d \in Calls : writeback'[d].phase # "idle" => writeback'[d].key \in Keys
        BY <1>1 DEF TuningInv, TuningShape, Phase
    <2> QED
        BY <2>1, <2>2 DEF TuningShape, Phase
<1>3. ASSUME serial' PROVE (Solo /\ FileEmptied /\ FoundNone /\ AppliedIsAnswered)'
    <2>1. \A d \in Calls : d # c => writeback'[d].phase = "idle"
        BY <1>1, <1>3 DEF Phase
    <2>2. Solo'
        BY <2>1 DEF Solo, Phase
    <2>3. FileEmptied'
        BY <1>1, <1>3, <2>1 DEF FileEmptied, Emptied
    <2>4. FoundNone'
        BY <1>1, <1>3, <2>1 DEF FoundNone, FoundNothing, Phase, Undecided
    <2>5. ASSUME NEW k \in Keys, AnsweredBy(w, k, records') PROVE Answered(k)'
        <3>1. \A d \in Calls : \/ writeback'[d].phase = "idle"
                               \/ AnsweredBy(writeback'[d], k, records')
            BY <1>1, <2>1, <2>5
        <3>2. writeback'[c].phase = "idle" => Kept(records', k)
            BY <1>1, <2>5 DEF AnsweredBy, Emptied
        <3> QED
            BY <3>1, <3>2 DEF Answered, Phase
    <2>6. AppliedIsAnswered'
        BY <1>3, <2>5 DEF AppliedIsAnswered
    <2> QED
        BY <2>2, <2>3, <2>4, <2>6
<1> QED
    BY <1>2, <1>3 DEF TuningInv

LEMMA OthersIdle ==
    ASSUME TuningInv, serial, NEW c \in Calls, ~Phase(c, "idle")
    PROVE  \A d \in Calls : d # c => Phase(d, "idle")
BY DEF TuningInv, Solo

LEMMA ReplyShape ==
    ASSUME TuningInv, NEW c \in Calls, NEW answer, Reply(c, answer)
    PROVE  sender' \in Senders
<1>1. sender \in Senders
    BY DEF TuningInv, TuningShape
<1>2. CASE sender.waits # c
    BY <1>1, <1>2 DEF Reply
<1>3. ASSUME NEW k \in Keys,
             sender' = [sender EXCEPT !.key = k, !.used = @ \union {k}, !.waits = NoCaller]
      PROVE  sender' \in Senders
    BY <1>1, <1>3 DEF Senders
<1>4. CASE sender' = [sender EXCEPT !.waits = NoCaller, !.submits = MaxSubmits]
    BY <1>1, <1>4, TuningAssumption DEF Senders
<1>5. CASE sender' = [sender EXCEPT !.waits = NoCaller]
    BY <1>1, <1>5 DEF Senders
<1> QED
    BY <1>2, <1>3, <1>4, <1>5 DEF Reply

LEMMA SubmitKeeps ==
    ASSUME TuningInv, NEW c \in Calls, NEW dry \in BOOLEAN, Submit(c, dry)
    PROVE  TuningInv'
<1> DEFINE w == [NoWriteback EXCEPT !.phase = "lookup", !.dry = dry, !.key = sender.key]
<1>1. /\ writeback' = [writeback EXCEPT ![c] = w]
      /\ serial' = (serial /\ \A d \in Calls : Phase(d, "idle"))
      /\ sender' = [sender EXCEPT !.waits = c, !.submits = @ + 1]
      /\ UNCHANGED <<records, applied, doubtful>>
    BY DEF Submit
<1>2. sender \in Senders /\ sender.key \in Keys
    BY DEF TuningInv, TuningShape, Senders
<1>3. w \in Writebacks /\ w.phase = "lookup" /\ w.key \in Keys
    BY <1>2, IdleShape DEF Writebacks
<1>4. sender' \in Senders
    <2>1. PICK n \in Nat : sender' = [sender EXCEPT !.waits = c, !.submits = n]
        <3>1. sender.submits + 1 \in Nat
            BY <1>2 DEF Senders
        <3> QED
            BY <1>1, <3>1
    <2> QED
        BY <1>2, <2>1 DEF Senders
<1> HIDE DEF w
<1>5. records' \in Records /\ applied' \in [Keys -> Nat]
    BY <1>1 DEF TuningInv, TuningShape
<1>6. ASSUME serial', NEW k \in Keys
      PROVE  applied'[k] = 0 \/ k \in doubtful' \/ (applied'[k] = 1 /\ AnsweredBy(w, k, records'))
    <2>1. serial /\ \A d \in Calls : writeback[d].phase = "idle"
        BY <1>1, <1>6 DEF Phase
    <2>2. Answered(k) => Kept(records, k)
        BY <2>1 DEF Answered, Phase
    <2>3. applied[k] = 0 \/ k \in doubtful \/ (applied[k] = 1 /\ Answered(k))
        BY <2>1 DEF TuningInv, AppliedIsAnswered
    <2> QED
        BY <1>1, <1>3, <2>2, <2>3 DEF AnsweredBy, Emptied
<1>7. serial' => \A d \in Calls : d # c => Phase(d, "idle")
    BY <1>1
<1>8. w.phase \notin Emptied /\ w.phase \notin Undecided /\ w.phase # "save"
    BY <1>3 DEF Undecided, Emptied
<1> QED
    BY <1>1, <1>3, <1>4, <1>5, <1>6, <1>7, <1>8, SoloStep DEF FoundNothing

(* What the steps of a request share that apply nothing: it is the only    *)
(* one, and an answer it held is still held, or its key is in doubt.       *)
LEMMA GoesOn ==
    ASSUME TuningInv, NEW c \in Calls, ~Phase(c, "idle"),
           NEW w \in Writebacks, w.phase # "idle" => w.key \in Keys,
           writeback' = [writeback EXCEPT ![c] = w],
           UNCHANGED <<applied, serial>>, doubtful \subseteq doubtful',
           sender' \in Senders, records' \in Records,
           serial => (w.phase \in Emptied => records' = NoRecords),
           serial => (FoundNothing(w) => applied[w.key] = 0 \/ w.key \in doubtful'),
           serial => (w.phase = "save" => w.answer # "none"),
           serial => \A k \in Keys : \/ applied[k] = 0 \/ k \in doubtful'
                                     \/ (AnsweredBy(writeback[c], k, records)
                                            => AnsweredBy(w, k, records'))
    PROVE  TuningInv'
<1>1. serial' => \A d \in Calls : d # c => Phase(d, "idle")
    BY OthersIdle
<1>2. ASSUME serial', NEW k \in Keys
      PROVE  applied'[k] = 0 \/ k \in doubtful' \/ (applied'[k] = 1 /\ AnsweredBy(w, k, records'))
    <2>1. applied[k] = 0 \/ k \in doubtful \/ (applied[k] = 1 /\ AnsweredBy(writeback[c], k, records))
        BY <1>2, SoloKnows
    <2> QED
        BY <1>2, <2>1
<1>3. applied' \in [Keys -> Nat]
    BY DEF TuningInv, TuningShape
<1> QED
    BY <1>1, <1>2, <1>3, SoloStep

LEMMA DoubtedKeys ==
    ASSUME TuningInv, NEW keys \in SUBSET Keys
    PROVE  /\ doubtful \subseteq Doubted(keys, applied)
           /\ \A k \in keys : applied[k] = 0 \/ k \in Doubted(keys, applied)
<1>1. \A k \in Keys : applied[k] \in Nat
    BY DEF TuningInv, TuningShape
<1> QED
    BY <1>1 DEF Doubted

LEMMA FreshKeeps ==
    ASSUME NEW recs \in Records
    PROVE  /\ Fresh(recs) \in FreshRecords
           /\ \A k \in Keys : Fresh(recs)[k].answer = "none" => ~Kept(recs, k)
<1>1. Unknown \in [answer : KeyAnswers, old : BOOLEAN, newer : Nat] /\ ~Unknown.old
    BY DEF Unknown, KeyAnswers
<1>2. \A k \in Keys : Fresh(recs)[k] = IF recs[k].old THEN Unknown ELSE recs[k]
    BY DEF Fresh
<1>3. Fresh(recs) \in FreshRecords
    BY <1>1 DEF Fresh, Records, FreshRecords
<1> QED
    BY <1>2, <1>3 DEF Kept

LEMMA LookupKeeps ==
    ASSUME TuningInv, NEW c \in Calls, NEW readable \in BOOLEAN, Lookup(c, readable)
    PROVE  TuningInv'
<1> DEFINE key == writeback[c].key
           fresh == Fresh(Read(readable))
           found == fresh[key].answer
           pruned == [writeback[c] EXCEPT !.answer = found, !.phase = "prune", !.next = fresh]
           known == [writeback[c] EXCEPT !.answer = found, !.phase = "known"]
<1>1. /\ writeback[c] \in Writebacks /\ writeback[c].phase = "lookup" /\ ~Phase(c, "idle")
      /\ key \in Keys
    BY DEF Lookup, Phase, TuningInv, TuningShape
<1>2. /\ fresh \in FreshRecords /\ found \in KeyAnswers
      /\ readable /\ found = "none" => ~Kept(records, key)
    <2>1. Read(readable) \in Records /\ (readable => Read(readable) = records)
        BY NoRecordsShape DEF Read, TuningInv, TuningShape
    <2>2. fresh \in FreshRecords /\ \A k \in Keys : fresh[k].answer = "none" => ~Kept(Read(readable), k)
        BY <2>1, FreshKeeps
    <2> HIDE DEF fresh
    <2> QED
        BY <1>1, <2>1, <2>2 DEF FreshRecords, Records
<1>3. /\ \/ writeback' = [writeback EXCEPT ![c] = pruned]
         \/ writeback' = [writeback EXCEPT ![c] = known]
      /\ UNCHANGED <<records, sender, applied, serial>>
      /\ doubtful' = IF readable THEN doubtful ELSE Doubted({key}, applied)
    BY DEF Lookup, TuningInv, TuningShape
<1>4. /\ pruned \in Writebacks /\ pruned.phase = "prune" /\ pruned.answer = found
      /\ pruned.key = key
      /\ known \in Writebacks /\ known.phase = "known" /\ known.answer = found
      /\ known.key = key
    <2> HIDE DEF fresh, found
    <2> QED
        BY <1>1, <1>2 DEF Writebacks, Undecided
<1>5. PICK w \in {pruned, known} : writeback' = [writeback EXCEPT ![c] = w]
    BY <1>3
<1>6. /\ w \in Writebacks /\ w.key = key /\ w.answer = found
      /\ w.phase \in {"known", "prune"}
    BY <1>4, <1>5
<1> HIDE DEF fresh, found, pruned, known
<1>7. sender' \in Senders /\ records' \in Records
    BY <1>3 DEF TuningInv, TuningShape
<1>8. /\ doubtful \subseteq doubtful'
      /\ ~readable => applied[key] = 0 \/ key \in doubtful'
    <2>1. {key} \in SUBSET Keys
        BY <1>1
    <2> QED
        BY <1>3, <2>1, DoubtedKeys
<1>9. ASSUME serial, w.answer = "none" PROVE applied[w.key] = 0 \/ w.key \in doubtful'
    <2>1. CASE readable
        <3>1. applied[key] = 0 \/ key \in doubtful \/ AnsweredBy(writeback[c], key, records)
            BY <1>1, <1>9, SoloKnows
        <3>2. AnsweredBy(writeback[c], key, records) => Kept(records, key)
            BY <1>1 DEF AnsweredBy, Emptied
        <3> QED
            BY <1>2, <1>6, <1>8, <1>9, <2>1, <3>1, <3>2
    <2>2. CASE ~readable
        BY <1>6, <1>8, <2>2
    <2> QED
        BY <2>1, <2>2
<1>10. \A k \in Keys : AnsweredBy(writeback[c], k, records) => AnsweredBy(w, k, records')
    BY <1>1, <1>3, <1>6 DEF AnsweredBy, Emptied
<1>11. w.phase \notin Emptied /\ w.phase # "save" /\ w.phase # "upstream"
    BY <1>6 DEF Emptied
<1> QED
    BY <1>1, <1>3, <1>5, <1>6, <1>7, <1>8, <1>9, <1>10, <1>11, GoesOn DEF FoundNothing

LEMMA PageKeeps ==
    ASSUME TuningInv, sender' \in Senders,
           UNCHANGED <<writeback, records, applied, doubtful, serial>>
    PROVE  TuningInv'
<1>1. TuningShape'
    BY DEF TuningInv, TuningShape, Phase
<1>2. serial' => (Solo /\ FileEmptied /\ FoundNone /\ AppliedIsAnswered)'
    BY DEF TuningInv, Solo, FileEmptied, FoundNone, AppliedIsAnswered, Answered, Phase
<1> QED
    BY <1>1, <1>2 DEF TuningInv

LEMMA AgeKeeps == ASSUME TuningInv, NEW k \in Keys, Age(k) PROVE TuningInv'
<1>1. /\ records[k].answer # "none" /\ doubtful' = Doubted({k}, applied)
      /\ records' = [records EXCEPT ![k].old = TRUE]
      /\ UNCHANGED <<writeback, sender, applied, serial>>
    BY DEF Age
<1>2. records \in Records
    BY DEF TuningInv, TuningShape
<1>3. records' \in Records /\ \A j \in Keys : j # k => records'[j] = records[j]
    BY <1>1, <1>2 DEF Records
<1>4. TuningShape'
    BY <1>1, <1>3 DEF TuningInv, TuningShape, Phase
<1>5. ASSUME serial' PROVE (Solo /\ FileEmptied /\ FoundNone /\ AppliedIsAnswered)'
    <2>0. doubtful \subseteq doubtful' /\ (applied[k] = 0 \/ k \in doubtful')
        <3>1. {k} \in SUBSET Keys
            OBVIOUS
        <3> QED
            BY <1>1, <3>1, DoubtedKeys
    <2>1. Solo' /\ FoundNone'
        <3>1. Solo'
            BY <1>1, <1>5 DEF TuningInv, Solo, Phase
        <3> QED
            BY <1>1, <1>5, <2>0, <3>1 DEF TuningInv, FoundNone, Phase
    <2>2. FileEmptied'
        <3>1. records # NoRecords
            BY <1>1 DEF NoRecords, Unknown
        <3> QED
            BY <1>1, <1>5, <3>1 DEF TuningInv, FileEmptied
    <2>3. ASSUME NEW j \in Keys, j # k, Answered(j) PROVE Answered(j)'
        <3>1. Kept(records', j) <=> Kept(records, j)
            BY <1>3, <2>3 DEF Kept
        <3>2. \A c \in Calls : AnsweredBy(writeback[c], j, records)
                               => AnsweredBy(writeback[c], j, records')
            BY <3>1 DEF AnsweredBy
        <3> QED
            BY <1>1, <2>3, <3>1, <3>2 DEF Answered, Phase
    <2>4. AppliedIsAnswered'
        BY <1>1, <1>5, <2>0, <2>3 DEF TuningInv, AppliedIsAnswered
    <2> QED
        BY <2>1, <2>2, <2>4
<1> QED
    BY <1>4, <1>5 DEF TuningInv

(* A request that held no answer ends.                                     *)
LEMMA EndKeeps ==
    ASSUME TuningInv, NEW c \in Calls, writeback[c].phase = "known",
           writeback' = [writeback EXCEPT ![c] = NoWriteback], sender' \in Senders,
           UNCHANGED <<records, applied, doubtful, serial>>
    PROVE  TuningInv'
<1>1. ~Phase(c, "idle") /\ records' \in Records
    BY DEF Phase, TuningInv, TuningShape
<1>2. \A k \in Keys : AnsweredBy(writeback[c], k, records) => AnsweredBy(NoWriteback, k, records')
    BY IdleShape DEF AnsweredBy, Emptied
<1>3. NoWriteback.phase \notin Emptied \union {"save"} \union Undecided
    BY IdleShape DEF Undecided, Emptied
<1> QED
    BY <1>1, <1>2, <1>3, IdleShape, GoesOn DEF FoundNothing

LEMMA ReplayKeeps == ASSUME TuningInv, NEW c \in Calls, Replay(c) PROVE TuningInv'
<1>1. sender' \in Senders
    BY ReplyShape DEF Replay
<1> QED
    BY <1>1, EndKeeps DEF Replay, Phase

(* A request that ends with an error leaves in doubt what it held.         *)
LEMMA RouteThrowsKeeps == ASSUME TuningInv, NEW c \in Calls, RouteThrows(c) PROVE TuningInv'
<1> DEFINE old == writeback[c]
<1>1. /\ old \in Writebacks /\ ~Phase(c, "idle") /\ old.key \in Keys
      /\ old.phase \in {"unreachable", "save", "prune", "store", "pruning", "storing"}
    BY DEF RouteThrows, Phase, TuningInv, TuningShape
<1>2. /\ writeback' = [writeback EXCEPT ![c] = NoWriteback]
      /\ records' = IF old.phase \in {"pruning", "storing"} THEN NoRecords ELSE records
      /\ doubtful' = Doubted(LostWith(old), applied)
      /\ UNCHANGED <<applied, serial>>
    BY DEF RouteThrows
<1>3. sender' \in Senders /\ records' \in Records
    <2>1. sender' \in Senders
        BY ReplyShape DEF RouteThrows
    <2> QED
        BY <1>2, <2>1, NoRecordsShape DEF TuningInv, TuningShape
<1>4. LostWith(old) \in SUBSET Keys
    BY <1>1 DEF LostWith
<1>5. /\ doubtful \subseteq doubtful'
      /\ \A k \in LostWith(old) : applied[k] = 0 \/ k \in doubtful'
    BY <1>2, <1>4, DoubtedKeys
<1>6. ASSUME NEW k \in Keys, AnsweredBy(old, k, records), k \notin LostWith(old)
      PROVE  AnsweredBy(NoWriteback, k, records')
    <2>1. old.phase \notin {"pruning", "storing"}
        BY <1>6 DEF LostWith, AnsweredBy, Emptied, Kept
    <2>2. Kept(records, k)
        BY <1>6, <2>1 DEF LostWith, AnsweredBy, Emptied
    <2> QED
        BY <1>2, <2>1, <2>2, IdleShape DEF AnsweredBy, Emptied
<1>7. NoWriteback.phase \notin Emptied \union {"save"} \union Undecided
    BY IdleShape DEF Undecided, Emptied
<1>8. \A k \in Keys : \/ applied[k] = 0 \/ k \in doubtful'
                      \/ (AnsweredBy(old, k, records) => AnsweredBy(NoWriteback, k, records'))
    BY <1>5, <1>6
<1> HIDE DEF old
<1> QED
    BY <1>1, <1>2, <1>3, <1>5, <1>7, <1>8, IdleShape, GoesOn DEF FoundNothing, old

(* A request goes on to another phase before anything was applied.         *)
LEMMA PhaseKeeps ==
    ASSUME TuningInv, NEW c \in Calls, writeback[c].phase = "known",
           NEW phase \in {"upstream", "save"}, NEW answer \in KeyAnswers,
           phase = "save" => answer # "none",
           phase = "upstream" => answer = "none" /\ writeback[c].answer = "none",
           writeback' = [writeback EXCEPT ![c].phase = phase, ![c].answer = answer],
           UNCHANGED <<records, sender, applied, doubtful, serial>>
    PROVE  TuningInv'
<1> DEFINE w == [writeback[c] EXCEPT !.phase = phase, !.answer = answer]
<1>1. writeback[c] \in Writebacks /\ ~Phase(c, "idle") /\ writeback[c].key \in Keys
    BY DEF TuningInv, TuningShape, Phase, Undecided
<1>2. writeback' = [writeback EXCEPT ![c] = w]
    BY DEF TuningInv, TuningShape
<1>3. /\ w \in Writebacks /\ w.phase = phase /\ w.answer = answer
      /\ w.key = writeback[c].key
    BY <1>1 DEF Writebacks, Undecided
<1> HIDE DEF w
<1>4. sender' \in Senders /\ records' \in Records
    BY DEF TuningInv, TuningShape
<1>5. \A k \in Keys : AnsweredBy(writeback[c], k, records) => AnsweredBy(w, k, records')
    BY <1>3 DEF AnsweredBy, Emptied
<1>6. serial => (FoundNothing(w) => applied[w.key] = 0 \/ w.key \in doubtful)
    BY <1>3 DEF TuningInv, FoundNone, FoundNothing, Undecided
<1>7. w.phase \notin Emptied /\ (w.phase = "save" => w.answer # "none")
    BY <1>3 DEF Emptied
<1> QED
    BY <1>1, <1>2, <1>3, <1>4, <1>5, <1>6, <1>7, GoesOn

LEMMA RefuseKeeps ==
    ASSUME TuningInv, NEW c \in Calls, NEW recorded \in BOOLEAN, Refuse(c, recorded)
    PROVE  TuningInv'
<1>1. CASE recorded
    <2>1. /\ writeback' = [writeback EXCEPT ![c].phase = "save", ![c].answer = "refused"]
          /\ UNCHANGED <<records, sender, applied, doubtful, serial>>
          /\ writeback[c].phase = "known"
        BY <1>1 DEF Refuse, Phase
    <2>2. ASSUME NEW phase \in {"upstream", "save"}, NEW answer \in KeyAnswers,
                 phase = "save", answer = "refused"
          PROVE  TuningInv'
        <3>1. writeback[c].phase = "known"
            BY <2>1
        <3>2. writeback' = [writeback EXCEPT ![c].phase = phase, ![c].answer = answer]
            BY <2>1, <2>2
        <3>3. /\ phase = "save" => answer # "none"
              /\ phase = "upstream" => answer = "none" /\ writeback[c].answer = "none"
            BY <2>2
        <3> QED
            BY <2>1, <3>1, <3>2, <3>3, PhaseKeeps
    <2> QED
        BY <2>2 DEF KeyAnswers
<1>2. CASE ~recorded
    <2>1. sender' \in Senders
        BY <1>2, ReplyShape DEF Refuse
    <2> QED
        BY <1>2, <2>1, EndKeeps DEF Refuse, Phase
<1> QED
    BY <1>1, <1>2

LEMMA SamePhaseAnswer ==
    ASSUME TuningInv, NEW c \in Calls, NEW phase,
           writeback' = [writeback EXCEPT ![c].phase = phase]
    PROVE  /\ writeback' = [writeback EXCEPT ![c].phase = phase,
                                             ![c].answer = writeback[c].answer]
           /\ writeback[c].answer \in KeyAnswers
<1>1. writeback \in [Calls -> Writebacks] /\ writeback[c] \in Writebacks
    BY DEF TuningInv, TuningShape
<1>2. [writeback[c] EXCEPT !.phase = phase]
        = [writeback[c] EXCEPT !.phase = phase, !.answer = writeback[c].answer]
    BY <1>1 DEF Writebacks
<1> QED
    BY <1>1, <1>2 DEF Writebacks

LEMMA ForwardKeeps == ASSUME TuningInv, NEW c \in Calls, Forward(c) PROVE TuningInv'
<1>1. /\ writeback' = [writeback EXCEPT ![c].phase = "upstream"]
      /\ UNCHANGED <<records, sender, applied, doubtful, serial>>
      /\ writeback[c].phase = "known" /\ writeback[c].answer = "none"
    BY DEF Forward, To, Phase
<1>2. ASSUME NEW phase \in {"upstream", "save"}, NEW answer \in KeyAnswers,
             phase = "upstream", answer = writeback[c].answer
      PROVE  TuningInv'
    <2>1. writeback' = [writeback EXCEPT ![c].phase = phase, ![c].answer = answer]
        BY <1>1, <1>2, SamePhaseAnswer
    <2>2. writeback[c].phase = "known"
        BY <1>1
    <2>3. /\ phase = "save" => answer # "none"
          /\ phase = "upstream" => answer = "none" /\ writeback[c].answer = "none"
        BY <1>1, <1>2
    <2> QED
        BY <1>1, <1>2, <2>1, <2>2, <2>3, PhaseKeeps
<1> QED
    BY <1>1, <1>2, SamePhaseAnswer

(* What one application adds to the history.                               *)
LEMMA AppliedShape ==
    ASSUME TuningInv, NEW c \in Calls, writeback[c].key \in Keys
    PROVE  /\ Applied(c) \in [Keys -> Nat]
           /\ \A k \in Keys : k # writeback[c].key => Applied(c)[k] = applied[k]
           /\ Applied(c)[writeback[c].key] \in {applied[writeback[c].key],
                                               applied[writeback[c].key] + 1}
<1>1. applied \in [Keys -> Nat]
    BY DEF TuningInv, TuningShape
<1>2. CASE writeback[c].dry
    BY <1>1, <1>2 DEF Applied
<1>3. CASE ~writeback[c].dry
    <2>1. Applied(c) = [applied EXCEPT ![writeback[c].key] = @ + 1]
        BY <1>3 DEF Applied
    <2> QED
        BY <1>1, <2>1
<1> QED
    BY <1>2, <1>3

(* Without an answer upstream, the key was not applied before or is in     *)
(* doubt.                                                                  *)
LEMMA UpstreamAnswersKeeps ==
    ASSUME TuningInv, NEW c \in Calls, NEW answer \in {"accepted", "refused"},
           UpstreamAnswers(c, answer)
    PROVE  TuningInv'
<1> DEFINE w == [writeback[c] EXCEPT !.phase = "save", !.answer = answer]
           key == writeback[c].key
<1>1. /\ writeback[c] \in Writebacks /\ writeback[c].phase = "upstream" /\ ~Phase(c, "idle")
      /\ key \in Keys
    BY DEF UpstreamAnswers, Phase, TuningInv, TuningShape
<1>2. /\ writeback' = [writeback EXCEPT ![c] = w] /\ applied' = Applied(c)
      /\ UNCHANGED <<records, sender, doubtful, serial>>
    BY DEF UpstreamAnswers, TuningInv, TuningShape
<1>3. w \in Writebacks /\ w.phase = "save" /\ w.answer = answer /\ w.key = key
    BY <1>1 DEF Writebacks, KeyAnswers
<1> HIDE DEF w, key
<1>4. /\ applied' \in [Keys -> Nat] /\ applied'[key] \in {applied[key], applied[key] + 1}
      /\ \A k \in Keys : k # key => applied'[k] = applied[k]
    BY <1>1, <1>2, AppliedShape DEF key
<1>5. records' \in Records /\ sender' \in Senders
    BY <1>2 DEF TuningInv, TuningShape
<1>6. serial' => \A d \in Calls : d # c => Phase(d, "idle")
    BY <1>1, <1>2, OthersIdle
<1>7. ASSUME serial', NEW k \in Keys
      PROVE  applied'[k] = 0 \/ k \in doubtful' \/ (applied'[k] = 1 /\ AnsweredBy(w, k, records'))
    <2>1. CASE k = key
        <3>1. applied[key] = 0 \/ key \in doubtful
            BY <1>1, <1>2, <1>7 DEF TuningInv, FoundNone, FoundNothing, Undecided, key
        <3>2. AnsweredBy(w, k, records')
            BY <1>3, <2>1 DEF AnsweredBy, Emptied
        <3> QED
            BY <1>2, <1>4, <2>1, <3>1, <3>2
    <2>2. CASE k # key
        <3>1. applied[k] = 0 \/ k \in doubtful
              \/ (applied[k] = 1 /\ AnsweredBy(writeback[c], k, records))
            BY <1>1, <1>2, <1>7, SoloKnows
        <3>2. AnsweredBy(writeback[c], k, records) => AnsweredBy(w, k, records')
            BY <1>1, <1>2, <1>3, <2>2 DEF AnsweredBy, Emptied
        <3> QED
            BY <1>2, <1>4, <2>2, <3>1, <3>2
    <2> QED
        BY <2>1, <2>2
<1>8. w.phase \notin Emptied /\ w.phase \notin Undecided /\ w.answer # "none"
    BY <1>3 DEF Undecided, Emptied
<1> QED
    BY <1>1, <1>2, <1>3, <1>4, <1>5, <1>6, <1>7, <1>8, SoloStep DEF FoundNothing

LEMMA UpstreamFailsKeeps ==
    ASSUME TuningInv, NEW c \in Calls, NEW done \in BOOLEAN, UpstreamFails(c, done)
    PROVE  TuningInv'
<1> DEFINE key == writeback[c].key
           gone == [writeback[c] EXCEPT !.phase = "unreachable"]
<1>1. /\ writeback[c] \in Writebacks /\ writeback[c].phase = "upstream" /\ ~Phase(c, "idle")
      /\ key \in Keys
    BY DEF UpstreamFails, Phase, TuningInv, TuningShape
<1>2. /\ \/ writeback' = [writeback EXCEPT ![c] = writeback[c]]
         \/ writeback' = [writeback EXCEPT ![c] = gone]
      /\ UNCHANGED <<records, sender, serial>>
    BY DEF UpstreamFails, To, TuningInv, TuningShape
<1>3. PICK w \in {writeback[c], gone} : writeback' = [writeback EXCEPT ![c] = w]
    BY <1>2
<1>4. /\ w \in Writebacks /\ w.phase \in {"upstream", "unreachable"}
      /\ w.key = key /\ w.answer = writeback[c].answer
    BY <1>1 DEF Writebacks, Undecided
<1> HIDE DEF key, gone
<1>5. /\ applied' \in [Keys -> Nat] /\ \A k \in Keys : k # key => applied'[k] = applied[k]
      /\ doubtful' = Doubted({key}, applied')
    <2>1. applied' \in {applied, Applied(c)} /\ doubtful' = Doubted({key}, applied')
        BY DEF UpstreamFails, key
    <2> QED
        BY <1>1, <2>1, AppliedShape DEF key, TuningInv, TuningShape
<1>6. doubtful \subseteq doubtful' /\ (applied'[key] = 0 \/ key \in doubtful')
    <2>1. applied'[key] \in Nat
        BY <1>1, <1>5
    <2> QED
        BY <1>5, <2>1 DEF Doubted
<1>7. records' \in Records /\ sender' \in Senders
    BY <1>2 DEF TuningInv, TuningShape
<1>8. serial' => \A d \in Calls : d # c => Phase(d, "idle")
    BY <1>1, <1>2, OthersIdle
<1>9. applied'[w.key] = 0 \/ w.key \in doubtful'
    BY <1>4, <1>6
<1>10. ASSUME serial', NEW k \in Keys
       PROVE  applied'[k] = 0 \/ k \in doubtful' \/ (applied'[k] = 1 /\ AnsweredBy(w, k, records'))
    <2>1. applied[k] = 0 \/ k \in doubtful
          \/ (applied[k] = 1 /\ AnsweredBy(writeback[c], k, records))
        BY <1>1, <1>2, <1>10, SoloKnows
    <2>2. AnsweredBy(writeback[c], k, records) => AnsweredBy(w, k, records')
        BY <1>1, <1>2, <1>4 DEF AnsweredBy, Emptied
    <2>3. CASE k = key
        BY <1>6, <2>3
    <2>4. CASE k # key
        BY <1>5, <1>6, <2>1, <2>2, <2>4
    <2> QED
        BY <2>3, <2>4
<1>11. w.phase \notin Emptied /\ w.phase # "save"
    BY <1>4 DEF Emptied
<1>12. w.phase # "idle" => w.key \in Keys
    BY <1>1, <1>4
<1> QED
    BY <1>3, <1>4, <1>5, <1>7, <1>8, <1>9, <1>10, <1>11, <1>12, SoloStep

LEMMA WithAnswerKeeps ==
    ASSUME NEW recs \in Records, NEW w \in Writebacks, w.key \in Keys
    PROVE  /\ WithAnswer(recs, w) \in FreshRecords
           /\ w.answer # "none" => Kept(WithAnswer(recs, w), w.key)
<1> DEFINE fresh == Fresh(recs)
           pushed == Pushed(recs, w)
           Record == [answer : KeyAnswers, old : BOOLEAN, newer : Nat]
           record == [answer |-> w.answer, old |-> FALSE, newer |-> 0]
<1>1. fresh \in FreshRecords
    BY FreshKeeps
<1>2. record \in Record /\ Unknown \in Record /\ ~record.old /\ ~Unknown.old
    BY DEF Writebacks, Unknown, KeyAnswers
<1>3. pushed \in FreshRecords /\ pushed[w.key] = record
    <2>1. \A k \in Keys : pushed[k] = IF k = w.key THEN record
                                      ELSE IF fresh[k].answer = "none" THEN Unknown
                                      ELSE [fresh[k] EXCEPT !.newer = @ + 1]
        BY DEF Pushed
    <2>2. ASSUME NEW k \in Keys
          PROVE  /\ [fresh[k] EXCEPT !.newer = @ + 1] \in Record
                 /\ ~[fresh[k] EXCEPT !.newer = @ + 1].old
        <3>1. fresh[k] \in Record /\ ~fresh[k].old
            BY <1>1 DEF FreshRecords, Records
        <3> HIDE DEF fresh
        <3> QED
            BY <3>1
    <2>3. \A k \in Keys : pushed[k] \in Record /\ ~pushed[k].old
        <3> HIDE DEF fresh, pushed, record, Record
        <3> QED
            BY <1>2, <2>1, <2>2
    <2>4. pushed = [k \in Keys |-> pushed[k]]
        BY DEF Pushed
    <2> HIDE DEF fresh, pushed
    <2> QED
        BY <2>1, <2>3, <2>4 DEF FreshRecords, Records
<1> HIDE DEF pushed
<1>4. WithAnswer(recs, w) = Newest(pushed)
    BY DEF WithAnswer, pushed
<1>5. Newest(pushed) \in FreshRecords
    <2>1. \A k \in Keys : pushed[k] \in Record /\ ~pushed[k].old
        BY <1>3 DEF FreshRecords, Records
    <2>2. \A k \in Keys : Newest(pushed)[k] \in {pushed[k], Unknown}
        BY DEF Newest
    <2>3. Newest(pushed) = [k \in Keys |-> Newest(pushed)[k]]
        BY DEF Newest
    <2> QED
        BY <1>2, <2>1, <2>2, <2>3 DEF FreshRecords, Records
<1>6. Newest(pushed)[w.key] = record
    <2> DEFINE newer == {j \in Keys : pushed[j].answer # "none" /\ pushed[j].newer < pushed[w.key].newer}
    <2>1. \A j \in Keys : pushed[j].newer \in Nat
        BY <1>3 DEF FreshRecords, Records
    <2>2. newer = {}
        BY <1>3, <2>1
    <2>3. Cardinality(newer) < MaxRecords
        BY <2>2, FS_EmptySet, TuningAssumption
    <2>4. Newest(pushed)[w.key] = IF Cardinality(newer) < MaxRecords THEN pushed[w.key] ELSE Unknown
        BY DEF Newest
    <2> HIDE DEF newer
    <2> QED
        BY <1>3, <2>3, <2>4
<1> QED
    BY <1>4, <1>5, <1>6 DEF Kept

LEMMA SaveKeeps ==
    ASSUME TuningInv, NEW c \in Calls, NEW readable \in BOOLEAN, Save(c, readable)
    PROVE  TuningInv'
<1> DEFINE next == WithAnswer(Read(readable), writeback[c])
           w == [writeback[c] EXCEPT !.phase = "store", !.next = next]
<1>1. /\ writeback[c] \in Writebacks /\ writeback[c].phase = "save" /\ ~Phase(c, "idle")
      /\ writeback[c].key \in Keys /\ records \in Records
    BY DEF Save, Phase, TuningInv, TuningShape
<1>2. /\ writeback' = [writeback EXCEPT ![c] = w]
      /\ UNCHANGED <<records, sender, applied, doubtful, serial>>
    BY DEF Save, TuningInv, TuningShape
<1>3. /\ next \in FreshRecords
      /\ writeback[c].answer # "none" => Kept(next, writeback[c].key)
    <2>1. Read(readable) \in Records
        BY <1>1, NoRecordsShape DEF Read
    <2> QED
        BY <1>1, <2>1, WithAnswerKeeps
<1> HIDE DEF next
<1>4. w \in Writebacks /\ w.phase = "store" /\ w.next = next /\ w.key = writeback[c].key
    BY <1>1, <1>3 DEF Writebacks
<1> HIDE DEF w
<1>5. sender' \in Senders /\ records' \in Records
    BY <1>2 DEF TuningInv, TuningShape
<1>6. serial => \A k \in Keys :
                    AnsweredBy(writeback[c], k, records) => AnsweredBy(w, k, records')
    <2>1. serial => writeback[c].answer # "none"
        BY <1>1 DEF TuningInv, FoundNone, Phase
    <2> QED
        BY <1>1, <1>2, <1>3, <1>4, <2>1 DEF AnsweredBy, Emptied
<1>7. w.phase \notin Emptied \union {"save"} \union Undecided
    BY <1>4 DEF Undecided, Emptied
<1> QED
    BY <1>1, <1>2, <1>4, <1>5, <1>6, <1>7, GoesOn DEF FoundNothing

(* What the emptied file had and the new one will not have is in doubt.    *)
LEMMA OpenRecordsKeeps == ASSUME TuningInv, NEW c \in Calls, OpenRecords(c) PROVE TuningInv'
<1> DEFINE phase == IF Phase(c, "prune") THEN "pruning" ELSE "storing"
           w == [writeback[c] EXCEPT !.phase = phase]
           gone == {k \in Keys : /\ records[k].answer # "none"
                                 /\ writeback[c].next[k].answer = "none"}
<1>1. /\ writeback[c] \in Writebacks /\ writeback[c].phase \in {"prune", "store"}
      /\ ~Phase(c, "idle") /\ writeback[c].key \in Keys
    BY DEF OpenRecords, Phase, TuningInv, TuningShape
<1>2. /\ writeback' = [writeback EXCEPT ![c] = w] /\ records' = NoRecords
      /\ doubtful' = Doubted(gone, applied)
      /\ UNCHANGED <<sender, applied, serial>>
    BY DEF OpenRecords, To, TuningInv, TuningShape
<1>3. \/ writeback[c].phase = "prune" /\ phase = "pruning"
      \/ writeback[c].phase = "store" /\ phase = "storing"
    BY <1>1 DEF Phase
<1> HIDE DEF phase
<1>4. /\ w \in Writebacks /\ w.phase = phase /\ w.next = writeback[c].next
      /\ w.key = writeback[c].key /\ w.answer = writeback[c].answer
    BY <1>1, <1>3 DEF Writebacks, Emptied, Undecided
<1> HIDE DEF w
<1>5. sender' \in Senders /\ records' \in Records
    BY <1>2, NoRecordsShape DEF TuningInv, TuningShape
<1>6. /\ doubtful \subseteq doubtful'
      /\ \A k \in gone : applied[k] = 0 \/ k \in doubtful'
    <2>1. gone \in SUBSET Keys
        OBVIOUS
    <2> QED
        BY <1>2, <2>1, DoubtedKeys
<1>7. ASSUME NEW k \in Keys, AnsweredBy(writeback[c], k, records), k \notin gone
      PROVE  AnsweredBy(w, k, records')
    <2>1. ~writeback[c].next[k].old
        BY <1>1 DEF Writebacks, FreshRecords
    <2>2. Kept(writeback[c].next, k)
        BY <1>1, <1>7, <2>1 DEF AnsweredBy, Emptied, Kept
    <2> QED
        BY <1>3, <1>4, <2>2 DEF AnsweredBy, Emptied
<1>8. \A k \in Keys : \/ applied[k] = 0 \/ k \in doubtful'
                      \/ (AnsweredBy(writeback[c], k, records) => AnsweredBy(w, k, records'))
    BY <1>6, <1>7
<1>9. ASSUME serial, FoundNothing(w)
      PROVE  applied[w.key] = 0 \/ w.key \in doubtful'
    <2>1. FoundNothing(writeback[c])
        BY <1>3, <1>4, <1>9 DEF FoundNothing, Undecided
    <2>2. applied[writeback[c].key] = 0 \/ writeback[c].key \in doubtful
        BY <1>9, <2>1 DEF TuningInv, FoundNone
    <2> QED
        BY <1>4, <1>6, <2>2
<1>10. w.phase # "save" /\ (w.phase # "idle" => w.key \in Keys)
    BY <1>1, <1>3, <1>4
<1> HIDE DEF gone
<1> QED
    BY <1>1, <1>2, <1>4, <1>5, <1>6, <1>8, <1>9, <1>10, GoesOn

LEMMA WriteRecordsKeeps == ASSUME TuningInv, NEW c \in Calls, WriteRecords(c) PROVE TuningInv'
<1> DEFINE known == [writeback[c] EXCEPT !.phase = "known", !.next = NoRecords]
<1>1. /\ writeback[c] \in Writebacks /\ writeback[c].phase \in {"pruning", "storing"}
      /\ ~Phase(c, "idle") /\ writeback[c].key \in Keys
    BY DEF WriteRecords, Phase, TuningInv, TuningShape
<1>2. UNCHANGED <<applied, doubtful, serial>>
    BY DEF WriteRecords
<1>3. \/ /\ writeback[c].phase = "pruning" /\ writeback' = [writeback EXCEPT ![c] = known]
         /\ UNCHANGED sender
      \/ /\ writeback' = [writeback EXCEPT ![c] = NoWriteback]
         /\ Reply(c, writeback[c].answer)
    BY <1>1 DEF WriteRecords, Phase, TuningInv, TuningShape
<1>4. /\ known \in Writebacks /\ known.phase = "known" /\ known.key = writeback[c].key
      /\ known.answer = writeback[c].answer
    BY <1>1, NoRecordsShape DEF Writebacks, Undecided
<1> HIDE DEF known
<1>5. PICK w \in {known, NoWriteback} :
          /\ writeback' = [writeback EXCEPT ![c] = w]
          /\ w = known => writeback[c].phase = "pruning"
    BY <1>3, <1>4, IdleShape
<1>6. /\ w \in Writebacks /\ (w.phase # "idle" => w.key \in Keys)
      /\ w.phase \in {"known", "idle"}
    BY <1>1, <1>4, <1>5, IdleShape
<1>7. sender' \in Senders
    BY <1>3, ReplyShape DEF TuningInv, TuningShape
<1>8. records' \in Records
    BY <1>1, NoRecordsShape, FreshIsRecords DEF WriteRecords, Writebacks
<1>9. serial => records' = writeback[c].next
    BY <1>1, <1>2 DEF WriteRecords, TuningInv, FileEmptied, Emptied
<1>10. serial => \A k \in Keys : AnsweredBy(writeback[c], k, records) => AnsweredBy(w, k, records')
    BY <1>1, <1>6, <1>9 DEF AnsweredBy, Emptied
<1>11. ASSUME serial, FoundNothing(w)
       PROVE  applied[w.key] = 0 \/ w.key \in doubtful'
    <2>1. w = known /\ w.answer = "none"
        BY <1>4, <1>5, <1>11, IdleShape DEF FoundNothing, Undecided
    <2>2. FoundNothing(writeback[c])
        BY <1>4, <1>5, <2>1 DEF FoundNothing, Undecided
    <2> QED
        BY <1>2, <1>4, <1>11, <2>1, <2>2 DEF TuningInv, FoundNone
<1>12. w.phase \notin Emptied \union {"save"}
    BY <1>6 DEF Emptied
<1> QED
    BY <1>1, <1>2, <1>5, <1>6, <1>7, <1>8, <1>9, <1>10, <1>11, <1>12, GoesOn

LEMMA TuningInvKept == TuningInv /\ [TuningNext]_tuningVars => TuningInv'
<1> SUFFICES ASSUME TuningInv, [TuningNext]_tuningVars PROVE TuningInv'
    OBVIOUS
<1>1. sender \in Senders
    BY DEF TuningInv, TuningShape
<1>2. ASSUME NEW k \in Keys, EditKey(k) PROVE TuningInv'
    <2>1. sender' \in Senders
        BY <1>1, <1>2 DEF EditKey, Senders
    <2> QED
        BY <1>2, <2>1, PageKeeps DEF EditKey
<1>3. CASE LoseAnswer
    <2>1. sender' \in Senders
        BY <1>1, <1>3 DEF LoseAnswer, Senders
    <2> QED
        BY <1>3, <2>1, PageKeeps DEF LoseAnswer
<1>4. CASE UNCHANGED tuningVars
    BY <1>1, <1>4, PageKeeps DEF tuningVars
<1>5. ASSUME NEW c \in Calls, Replay(c) \/ Forward(c) \/ RouteThrows(c)
                              \/ OpenRecords(c) \/ WriteRecords(c)
      PROVE  TuningInv'
    BY <1>5, ReplayKeeps, ForwardKeeps, RouteThrowsKeeps, OpenRecordsKeeps, WriteRecordsKeeps
<1>6. ASSUME NEW c \in Calls, \/ \E dry \in BOOLEAN : Submit(c, dry)
                              \/ \E readable \in BOOLEAN : Lookup(c, readable) \/ Save(c, readable)
                              \/ \E recorded \in BOOLEAN : Refuse(c, recorded)
                              \/ \E answer \in {"accepted", "refused"} : UpstreamAnswers(c, answer)
                              \/ \E done \in BOOLEAN : UpstreamFails(c, done)
      PROVE  TuningInv'
    BY <1>6, SubmitKeeps, LookupKeeps, SaveKeeps, RefuseKeeps, UpstreamAnswersKeeps,
       UpstreamFailsKeeps
<1> QED
    BY <1>2, <1>3, <1>4, <1>5, <1>6, AgeKeeps DEF TuningNext

(* One after the other, for any number of keys and requests, and for any   *)
(* size of the file, write-backs apply a key again only after its answer   *)
(* or its record was lost: by a failed call, a throwing step, age, the     *)
(* file's limit or a file that could not be read.                          *)
THEOREM KeysApplyOnce == TuningSpec => []AppliedOncePerKey
<1>1. TuningInv => AppliedOncePerKey
    <2> SUFFICES ASSUME TuningInv, serial, NEW k \in Keys
                 PROVE  applied[k] <= 1 \/ k \in doubtful
        BY DEF AppliedOncePerKey
    <2> QED
        BY DEF TuningInv, AppliedIsAnswered
<1> QED
    BY <1>1, TuningInvInit, TuningInvKept, PTL DEF TuningSpec
=============================================================================
