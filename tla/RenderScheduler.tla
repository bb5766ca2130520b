-------------------------- MODULE RenderScheduler --------------------------
(***************************************************************************)
(* The frame scheduler of the chart (ui/mission-control/lib/               *)
(* renderScheduler.ts) and the chart that feeds it (app/terminal/          *)
(* InstitutionalChart.tsx).  One job of each type waits at most; an        *)
(* animation frame callback, flush(), runs the jobs by priority until the  *)
(* budget of the stage or of the frame is spent and then asks for another  *)
(* frame.  The chart marks a layer dirty when it enqueues its job, and the *)
(* job clears the mark when it has dealt with its data: drawn them, or     *)
(* found that they need not or cannot be drawn.  A chart that is removed   *)
(* takes its layers along, and the next one starts empty with no layer     *)
(* marked.                                                                 *)
(*                                                                         *)
(* A version counts as drawn when the series has taken the update of its   *)
(* job; which bars an update touches is left out.                          *)
(*                                                                         *)
(* The thread is the browser's only one: while a flush runs (elapsed # Off)*)
(* nothing else does.  Time is counted from the start of that flush.       *)
(***************************************************************************)
EXTENDS Integers

CONSTANTS Types,        \* "candle", "indicator", "dom", "overlay"
          Candle,       \* the layer of applyCandleUpdate()
          Indicator,    \* the layer of applyUpdates()
          Rank,         \* LAYER_PRIORITY of a type; higher goes first
          StageEnd,     \* cumulativeStageBudget() of a type
          FrameBudget,  \* frameBudgetMs
          MaxJobs,      \* bound: jobs enqueued in one behaviour
          MaxCharts     \* bound: charts created and removed

ASSUME RankAssumption ==
    /\ Rank \in [Types -> Int]
    /\ \A s, t \in Types : Rank[s] = Rank[t] => s = t
ASSUME BudgetAssumption ==
    /\ FrameBudget \in Nat \ {0}
    /\ StageEnd \in [Types -> 1 .. FrameBudget]
ASSUME RenderBoundsAssumption == MaxJobs \in Nat /\ MaxCharts \in Nat
ASSUME LayersAssumption == Candle # Indicator

Off == -1

VARIABLES queue,        \* the jobs that wait: type, generation, version
          running,      \* this.running
          rafs,         \* flush callbacks the browser has yet to call
          elapsed,      \* time spent in the flush under way, or Off
          threw,        \* a callback threw and the scheduler was not cleared since
          cleared,      \* clear() was called while a flush was due
          chart,        \* chartRef.current !== null
          generation,   \* chartGenerationRef
          dirty,        \* dirtyStateRef: layers whose mark is set
          newest,       \* version of each layer enqueued last
          drawn,        \* version of each layer the chart shows, or Bare
          refused,      \* history: version whose job unmarked its layer undrawn
          blank,        \* history: layers with no job since the chart was removed
          issued        \* versions so far

schedulerVars == <<queue, running, rafs, elapsed, threw, cleared>>
layerVars == <<dirty, drawn, refused>>
chartVars == <<chart, generation, layerVars, newest, blank, issued>>
renderVars == <<schedulerVars, chartVars>>

Bare == 0

Jobs == [type : Types, generation : 0 .. MaxCharts, version : 1 .. MaxJobs]

SchedulerInit ==
    /\ queue = {} /\ running = FALSE /\ rafs = 0 /\ elapsed = Off
    /\ threw = FALSE /\ cleared = FALSE
    /\ chart = FALSE /\ generation = 0
    /\ dirty = {}
    /\ newest = [t \in Types |-> 0]
    /\ drawn = [t \in Types |-> Bare]
    /\ refused = [t \in Types |-> 0]
    /\ blank = Types
    /\ issued = 0

-----------------------------------------------------------------------------
\* For the mutants: the job that waits is not replaced.
WithJobBeside(jobs, job) == jobs \union {job}

(* enqueue(): the newest job of a type replaces the one that waits.        *)
WithJob(jobs, job) == {j \in jobs : j.type # job.type} \union {job}

(* An effect of the chart marks its layer dirty and enqueues its job;      *)
(* without a chart it returns at once.                                     *)
Enqueue ==
    /\ elapsed = Off /\ chart /\ issued < MaxJobs
    /\ issued' = issued + 1
    /\ \E t \in Types :
        /\ queue' = WithJob(queue, [type |-> t, generation |-> generation,
                                    version |-> issued'])
        /\ dirty' = dirty \union {t}
        /\ newest' = [newest EXCEPT ![t] = issued']
        /\ blank' = blank \ {t}
    /\ running' = TRUE
    /\ rafs' = IF running THEN rafs ELSE rafs + 1
    /\ UNCHANGED <<elapsed, threw, cleared, chart, generation, drawn, refused>>

(* The layout is stable: an empty chart is created.  The effects of the    *)
(* layers do not run for it.                                               *)
CreateChart ==
    /\ elapsed = Off /\ ~chart /\ generation < MaxCharts
    /\ chart' = TRUE
    /\ generation' = generation + 1
    /\ UNCHANGED <<schedulerVars, layerVars, newest, blank, issued>>

(* The cleanup of that effect: clear() forgets the jobs, not the frame     *)
(* that was asked for, and the chart goes with all it shows.  The marks    *)
(* stay as they are.                                                       *)
RemoveChart ==
    /\ elapsed = Off /\ chart /\ generation < MaxCharts
    /\ queue' = {} /\ running' = FALSE
    /\ threw' = FALSE
    /\ cleared' = (cleared \/ rafs > 0)
    /\ chart' = FALSE
    /\ generation' = generation + 1
    /\ drawn' = [t \in Types |-> Bare]
    /\ blank' = Types
    /\ UNCHANGED <<rafs, elapsed, dirty, refused, newest, issued>>

-----------------------------------------------------------------------------
(* The head of the sorted queue: the job of the highest priority.          *)
HeadJobs == {j \in queue : \A k \in queue : Rank[k.type] =< Rank[j.type]}

(* The browser calls flush().                                              *)
AnimationFrame ==
    /\ elapsed = Off /\ rafs > 0
    /\ rafs' = rafs - 1
    /\ elapsed' = 0
    /\ UNCHANGED <<queue, running, threw, cleared, chartVars>>

(* requestAnimationFrame(this.flush) and return.                           *)
Reschedule == rafs' = rafs + 1 /\ elapsed' = Off

(* The job finds its layer dirty and, if it looks, its chart still there.  *)
Applies(job) ==
    /\ job.type \in dirty
    /\ job.type \in {Candle, Indicator} => job.generation = generation

(* What an applied job leaves its layer showing, and whether it clears the *)
(* mark.  Each draws its version and clears the mark.  Those of the        *)
(* candles and of the indicators may clear it with the old version still   *)
(* there: an update too small to see, one handed to the animation, data    *)
(* the series refuses.  The candles may also end up empty, when not even   *)
(* the whole data are taken; and three returns of theirs draw the whole    *)
(* data and leave the mark.                                                *)
Outcomes(job) ==
    {[shows |-> job.version, clears |-> TRUE]}
    \union {[shows |-> drawn[t], clears |-> TRUE] :
                t \in {job.type} \intersect {Candle, Indicator}}
    \union [shows : {job.version, Bare}, clears : {c \in BOOLEAN : job.type = Candle}]

Draw(job) ==
    IF Applies(job)
    THEN \E outcome \in Outcomes(job) :
           /\ drawn' = [drawn EXCEPT ![job.type] = outcome.shows]
           /\ dirty' = IF outcome.clears THEN dirty \ {job.type} ELSE dirty
           /\ refused' = IF outcome.clears /\ outcome.shows # job.version
                         THEN [refused EXCEPT ![job.type] = job.version]
                         ELSE refused
    ELSE UNCHANGED layerVars

(* One turn of flush()'s loop: the job is shifted and called, and the      *)
(* frame ends if its budget is spent.                                      *)
RunJob ==
    /\ elapsed # Off
    /\ \E job \in HeadJobs :
        /\ elapsed < StageEnd[job.type]
        /\ queue' = queue \ {job}
        /\ Draw(job)
    /\ \E now \in elapsed .. FrameBudget :
           IF now = FrameBudget THEN Reschedule
                                ELSE elapsed' = now /\ UNCHANGED rafs
    /\ UNCHANGED <<running, threw, cleared, chart, generation, newest, blank, issued>>

\* For the mutants: no frame is asked for.
StageSpentSilently ==
    /\ elapsed # Off
    /\ \E job \in HeadJobs : elapsed >= StageEnd[job.type]
    /\ elapsed' = Off
    /\ UNCHANGED <<queue, running, rafs, threw, cleared, chartVars>>

(* The budget of the head's stage is spent before it starts.               *)
StageSpent ==
    /\ elapsed # Off
    /\ \E job \in HeadJobs : elapsed >= StageEnd[job.type]
    /\ Reschedule
    /\ UNCHANGED <<queue, running, threw, cleared, chartVars>>

(* A callback throws out of flush(): the job is gone, running stays TRUE,  *)
(* and no frame is asked for.  Its layer keeps its mark and shows the old  *)
(* version, the new one, or neither.                                       *)
JobThrows ==
    /\ elapsed # Off
    /\ \E job \in HeadJobs :
        /\ elapsed < StageEnd[job.type] /\ Applies(job)
        /\ queue' = queue \ {job}
        /\ \E shown \in {drawn[job.type], job.version, Bare} :
               drawn' = [drawn EXCEPT ![job.type] = shown]
    /\ threw' = TRUE
    /\ elapsed' = Off
    /\ UNCHANGED <<running, rafs, cleared, chart, generation, dirty, refused, newest,
                   blank, issued>>

Drained ==
    /\ elapsed # Off /\ queue = {}
    /\ running' = FALSE
    /\ elapsed' = Off
    /\ UNCHANGED <<queue, rafs, threw, cleared, chartVars>>

(* The animation of the last candle, by frames of its own, reaches the     *)
(* target that a job left to it.                                           *)
AnimationSettles ==
    /\ elapsed = Off
    /\ Candle \in Types
    /\ drawn[Candle] # Bare /\ drawn[Candle] < refused[Candle]
    /\ drawn' = [drawn EXCEPT ![Candle] = refused[Candle]]
    /\ UNCHANGED <<schedulerVars, chart, generation, dirty, refused, newest, blank, issued>>

SchedulerNext ==
    \/ Enqueue \/ CreateChart \/ RemoveChart \/ AnimationSettles
    \/ AnimationFrame \/ RunJob \/ StageSpent \/ JobThrows \/ Drained

SchedulerSpec == SchedulerInit /\ [][SchedulerNext]_renderVars

-----------------------------------------------------------------------------
SchedulerTypeOK ==
    /\ queue \subseteq Jobs
    /\ running \in BOOLEAN /\ threw \in BOOLEAN /\ cleared \in BOOLEAN
    /\ rafs \in Nat
    /\ elapsed \in 0 .. FrameBudget - 1 \union {Off}
    /\ chart \in BOOLEAN
    /\ generation \in 0 .. MaxCharts
    /\ dirty \subseteq Types /\ blank \subseteq Types
    /\ newest \in [Types -> 0 .. MaxJobs]
    /\ drawn \in [Types -> 0 .. MaxJobs]
    /\ refused \in [Types -> 0 .. MaxJobs]
    /\ issued \in 0 .. MaxJobs

(* A job waits only while a flush is due or under way: enqueue() relies on *)
(* "running" to know that, and clear() and every exit of flush() keep it   *)
(* so; a callback that throws is the one exception.                        *)
WaitingHasFlush ==
    queue # {} => rafs > 0 \/ elapsed # Off \/ threw

(* As long as no chart was cleared with a frame due and no callback threw, *)
(* there is one flush loop exactly while "running" is set.                 *)
OneFlushLoop ==
    ~cleared /\ ~threw =>
        rafs + (IF elapsed = Off THEN 0 ELSE 1) = (IF running THEN 1 ELSE 0)

(* A layer that is not dirty was unmarked by the job of the version        *)
(* enqueued last, which drew it or itself let it be; an older job never    *)
(* takes the mark of a newer version away.  The layers of a chart that     *)
(* came after the last job of the layer are the exception: they show       *)
(* nothing, and no mark says so.                                           *)
CleanShowsNewest ==
    \A t \in Types \ dirty :
        \/ newest[t] \in {drawn[t], refused[t]}
        \/ t \in blank /\ drawn[t] = Bare

=============================================================================
