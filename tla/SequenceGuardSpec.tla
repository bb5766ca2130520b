------------------------- MODULE SequenceGuardSpec -------------------------
(***************************************************************************)
(* One GoldenFrameSequenceGuard object and its callers: any frame may be   *)
(* enqueued, poll() may be called at any time, reset() too.                *)
(***************************************************************************)
EXTENDS SequenceGuard

CONSTANTS MaxNumber, \* bound: sequence numbers are 0 .. MaxNumber
          Payloads   \* the candle snapshots a frame may carry

ASSUME MaxNumberAssumption == MaxNumber \in Nat

VARIABLES guard, \* queue, expectedSequence, gapStartedAt
          given, \* sequence of the frame poll() returned last, or NoSeq
          output \* that frame, as a set of at most one

guardVars == <<guard, given, output>>

NumberedFrames == [seq : 0 .. MaxNumber, payload : Payloads]

GuardInit ==
    /\ guard = EmptyGuard
    /\ given = NoSeq
    /\ output = {}

EnqueueFrame ==
    \E f \in NumberedFrames :
        /\ guard' = Enqueue(guard, f)
        /\ UNCHANGED <<given, output>>

PollGuard ==
    \E grace \in GraceWindows :
        LET result == Poll(guard, grace)
        IN  /\ guard' = result.guard
            /\ \/ /\ result.ready = {}
                  /\ UNCHANGED <<given, output>>
               \/ \E f \in result.ready : given' = f.seq /\ output' = {f}

ResetGuard ==
    /\ guard' = EmptyGuard
    /\ given' = NoSeq
    /\ output' = {}

ClockTick ==
    /\ guard' = Older(guard)
    /\ UNCHANGED <<given, output>>

GuardNext == EnqueueFrame \/ PollGuard \/ ResetGuard \/ ClockTick

GuardSpec == GuardInit /\ [][GuardNext]_guardVars

GuardTypeOK ==
    /\ guard \in [queue : SUBSET NumberedFrames, expected : Nat \union {NoSeq},
                  gap : 0 .. MaxGrace \union {NoGap}]
    /\ given \in 0 .. MaxNumber \union {NoSeq}
    /\ output \subseteq NumberedFrames

-----------------------------------------------------------------------------
(* The queue never exceeds its depth and holds one frame of a sequence:    *)
(* enqueue() replaces in place and evicts before it returns.               *)
QueueWellFormed ==
    /\ Cardinality(guard.queue) =< MaxQueueDepth
    /\ \A f, g \in guard.queue : f.seq = g.seq => f = g

(* Whatever was given out is below the expected sequence, so that a frame  *)
(* that repeats or precedes it can no longer be released.                  *)
GivenBelowExpected ==
    /\ given < guard.expected \/ given = NoSeq
    /\ guard.expected = NoSeq => guard.queue = {} /\ given = NoSeq

(* Between two resets the consumer of poll() sees strictly increasing      *)
(* sequence numbers, whatever the order of arrival, the repeats, the gaps  *)
(* and the evictions.                                                      *)
ReleasedInOrder ==
    [][given' # given /\ given' # NoSeq => given' > given]_guardVars

(* The guard implements the ordered buffer: its live frames are the        *)
(* abstract waiting frames.                                                *)
Ordered == INSTANCE OrderedRelease WITH Frames <- NumberedFrames,
                                              waiting <- Live(guard)
OrderedSpec == Ordered!AbstractSpec
=============================================================================
