------------------------- MODULE IndicatorCompute -------------------------
(***************************************************************************)
(* Indicators off the main thread: the terminal page asks for the series   *)
(* of its bars on every change (app/terminal/page.tsx), the adapter sends  *)
(* the request to a worker and keeps a promise for it                      *)
(* (lib/indicators/workerAdapter.ts), the worker answers with the series   *)
(* or with an error (public/workers/indicatorWorker.js).  A request is the *)
(* number of the effect that made it.                                      *)
(***************************************************************************)
EXTENDS Integers, Sequences

CONSTANT MaxEffects     \* bound: runs of the page's effect

ASSUME EffectsAssumption == MaxEffects \in Nat \ {0}

Nothing == 0            \* an empty series is shown

VARIABLES worker,       \* this.worker !== null
          pending,      \* pendingRequests: promises the adapter will resolve
          requests,     \* messages to the worker
          answers,      \* messages from the worker: request, whether it failed
          resolved,     \* promises resolved whose then() has yet to run
          seq,          \* indicatorComputeSeqRef, the newest effect
          asked,        \* the newest effect has a computation to wait for
          shown         \* effect whose series the chart shows

adapterVars == <<worker, pending, requests, answers>>
indicatorVars == <<adapterVars, resolved, seq, asked, shown>>

Effects == 1 .. MaxEffects

IndicatorInit ==
    /\ worker = TRUE
    /\ pending = {} /\ requests = <<>> /\ answers = <<>>
    /\ resolved = {} /\ seq = 0 /\ asked = FALSE /\ shown = Nothing

(* The effect without bars or without indicators: nothing is computed.     *)
ClearEffect ==
    /\ seq < MaxEffects
    /\ seq' = seq + 1
    /\ asked' = FALSE
    /\ shown' = Nothing
    /\ UNCHANGED <<adapterVars, resolved>>

(* The effect calls compute(); without a worker the result is computed at  *)
(* once and its promise is resolved.                                       *)
ComputeEffect ==
    /\ seq < MaxEffects
    /\ seq' = seq + 1
    /\ asked' = TRUE
    /\ IF worker
       THEN /\ pending' = pending \union {seq'}
            /\ requests' = Append(requests, seq')
            /\ UNCHANGED resolved
       ELSE /\ resolved' = resolved \union {seq'}
            /\ UNCHANGED <<pending, requests>>
    /\ UNCHANGED <<worker, answers, shown>>

(* self.onmessage: the series, or an error such as an unknown indicator.   *)
WorkerComputes ==
    /\ worker /\ requests # <<>>
    /\ \E failed \in BOOLEAN :
           answers' = Append(answers, [request |-> Head(requests), failed |-> failed])
    /\ requests' = Tail(requests)
    /\ UNCHANGED <<worker, pending, resolved, seq, asked, shown>>

(* handleWorkerMessage(): an error is answered from the main thread, so    *)
(* that both ways the promise is resolved.                                 *)
HandleWorkerMessage ==
    /\ worker /\ answers # <<>>
    /\ LET request == Head(answers).request
       IN  /\ resolved' = resolved \union ({request} \intersect pending)
           /\ pending' = pending \ {request}
    /\ answers' = Tail(answers)
    /\ UNCHANGED <<worker, requests, seq, asked, shown>>

(* worker.onerror: terminate() ends the worker, loses both channels and    *)
(* forgets the promises.                                                   *)
WorkerError ==
    /\ worker
    /\ worker' = FALSE
    /\ pending' = {} /\ requests' = <<>> /\ answers' = <<>>
    /\ UNCHANGED <<resolved, seq, asked, shown>>

\* For the mutants: results are shown in the order they come.
ShowAnyResult ==
    \E request \in resolved :
        /\ resolved' = resolved \ {request}
        /\ shown' = request /\ asked' = FALSE
        /\ UNCHANGED <<adapterVars, seq>>

(* then(): a result of an older or cancelled effect is dropped.            *)
ShowResult ==
    \E request \in resolved :
        /\ resolved' = resolved \ {request}
        /\ IF request = seq
           THEN shown' = request /\ asked' = FALSE
           ELSE UNCHANGED <<shown, asked>>
        /\ UNCHANGED <<adapterVars, seq>>

IndicatorNext ==
    \/ ClearEffect \/ ComputeEffect
    \/ WorkerComputes \/ HandleWorkerMessage \/ WorkerError \/ ShowResult

IndicatorSpec == IndicatorInit /\ [][IndicatorNext]_indicatorVars

-----------------------------------------------------------------------------
IndicatorTypeOK ==
    /\ worker \in BOOLEAN /\ asked \in BOOLEAN
    /\ pending \subseteq Effects /\ resolved \subseteq Effects
    /\ requests \in Seq(Effects)
    /\ answers \in Seq([request : Effects, failed : BOOLEAN])
    /\ seq \in 0 .. MaxEffects
    /\ shown \in Effects \union {Nothing}

(* The chart never goes back to the series of an older effect, in whatever *)
(* order worker answers, fallbacks and the worker's failure come; and what *)
(* it shows while nothing is awaited belongs to the newest effect, or is   *)
(* the empty series of an effect that computes nothing.                    *)
ShownIsNewest ==
    /\ shown =< seq
    /\ ~asked => shown \in {seq, Nothing}
ShownNeverOlder == [][shown' # shown => shown' \in {seq', Nothing}]_indicatorVars

(* A promise the adapter keeps has its request with the worker or its      *)
(* answer on the way: no live promise waits for nothing.                   *)
PendingIsInFlight ==
    \A p \in pending :
        \/ \E i \in DOMAIN requests : requests[i] = p
        \/ \E i \in DOMAIN answers : answers[i].request = p

=============================================================================
