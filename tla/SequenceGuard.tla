--------------------------- MODULE SequenceGuard ---------------------------
(***************************************************************************)
(* The data operations of GoldenFrameSequenceGuard                         *)
(* (ui/mission-control/lib/goldenFrameSequenceGuard.ts) and of its twin in *)
(* the worker thread (public/workers/goldenFrameWorker.js): a buffer that  *)
(* releases frames in the order of their depth sequence, waits a grace     *)
(* window at a gap and then skips one sequence number.                     *)
(*                                                                         *)
(* The sorted array without two entries of one sequence is a set of frames *)
(* with distinct "seq"; its head is the frame with the least one.  The     *)
(* clock is relative: "gap" is the time since gapStartedAt, saturated at   *)
(* the longest grace window, or NoGap where gapStartedAt is 0.             *)
(***************************************************************************)
EXTENDS Integers, FiniteSets

CONSTANTS MaxQueueDepth,  \* frames the queue holds before it evicts its head
          MaxGrace        \* the longest grace window, in ticks

ASSUME DepthAssumption == MaxQueueDepth \in Nat \ {0}
ASSUME GraceAssumption == MaxGrace \in Nat \ {0}

(* setGraceWindowMs(): any window the adaptive rule yields, never below 1. *)
GraceWindows == 1 .. MaxGrace

NoSeq == -1      \* expectedSequence === null, depthSequence === null
NoGap == -1      \* gapStartedAt === 0
NoWake == -1     \* nextWakeDelayMs === null

EmptyGuard == [queue |-> {}, expected |-> NoSeq, gap |-> NoGap]

(* shift(): the queue without its head, the frame of the least sequence.   *)
Shifted(queue) == {f \in queue : \E g \in queue : g.seq < f.seq}

\* For the mutants: a full queue gives up its newest frame.
EnqueueDroppingNewest(guard, frame) ==
    LET queue == {f \in guard.queue : f.seq # frame.seq} \union {frame}
        full  == Cardinality(queue) > MaxQueueDepth
    IN  [queue    |-> IF full
                      THEN {f \in queue : \E g \in queue : f.seq < g.seq}
                      ELSE queue,
         expected |-> IF guard.expected = NoSeq THEN frame.seq ELSE guard.expected,
         gap      |-> guard.gap]

(* enqueue(): replace the entry of the same sequence or insert; the first  *)
(* frame fixes the expected sequence; at capacity the head is evicted and  *)
(* the expected sequence moves by one, whatever the evicted sequence was.  *)
Enqueue(guard, frame) ==
    LET queue    == {f \in guard.queue : f.seq # frame.seq} \union {frame}
        first    == guard.expected = NoSeq
        expected == IF first THEN frame.seq ELSE guard.expected
        full     == Cardinality(queue) > MaxQueueDepth
    IN  [queue    |-> IF full THEN Shifted(queue) ELSE queue,
         expected |-> IF full THEN expected + 1 ELSE expected,
         gap      |-> IF first THEN NoGap ELSE guard.gap]

(* The frames poll() still releases: what is below the expected sequence   *)
(* is shifted out unseen.                                                  *)
Live(guard) == {f \in guard.queue : f.seq >= guard.expected}

(* poll() releases the head at the expected sequence.                      *)
Released(live, expected) ==
    [guard   |-> [queue    |-> {f \in live : f.seq # expected},
                  expected |-> expected + 1,
                  gap      |-> NoGap],
     ready   |-> {f \in live : f.seq = expected},
     wake    |-> NoWake]

Waiting(live, expected, gap, wake) ==
    [guard   |-> [queue |-> live, expected |-> expected, gap |-> gap],
     ready   |-> {},
     wake    |-> wake]

(* poll(): nothing queued, head due, gap seen for the first time, gap not  *)
(* yet old enough, and otherwise one sequence number given up: the loop    *)
(* restarts the gap at the present time, so it never skips two at once.    *)
Poll(guard, grace) ==
    LET live   == Live(guard)
        due(e) == \E f \in live : f.seq = e
        next   == guard.expected + 1
    IN  IF live = {} THEN Waiting({}, guard.expected, guard.gap, NoWake)
        ELSE IF due(guard.expected) THEN Released(live, guard.expected)
        ELSE IF guard.gap = NoGap
             THEN Waiting(live, guard.expected, 0, grace)
        ELSE IF guard.gap < grace
             THEN Waiting(live, guard.expected, guard.gap, grace - guard.gap)
        ELSE IF due(next) THEN Released(live, next)
        ELSE Waiting(live, next, 0, grace)

(* One tick of Date.now() as the guard sees it.                            *)
Older(guard) ==
    [guard EXCEPT !.gap = IF @ = NoGap \/ @ = MaxGrace THEN @ ELSE @ + 1]
=============================================================================
