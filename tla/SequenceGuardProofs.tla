------------------------- MODULE SequenceGuardProofs -------------------------
(***************************************************************************)
(* The sequence guard for any depth, grace windows and numbers: its queue  *)
(* is bounded and holds one frame of a number, frames leave in increasing  *)
(* order, and it implements the ordered buffer of OrderedRelease.  The     *)
(* gate around it, for any feeds, buffer and timeout: what waits has its   *)
(* timer, and frames of a market that was left do not come back.           *)
(* The rollback guard, for any sessions and requests: what is over stays   *)
(* over.                                                                   *)
(***************************************************************************)
EXTENDS SequenceGuardSpec, FrameGate, RollbackGuard, FiniteSetTheorems, WellFoundedInduction, TLAPS

GuardInv ==
    GuardTypeOK /\ IsFiniteSet(guard.queue) /\ QueueWellFormed /\ GivenBelowExpected

-----------------------------------------------------------------------------
(* A queue that is not empty has a head.                                   *)
LEMMA QueueHasHead ==
    ASSUME NEW queue \in SUBSET NumberedFrames, queue # {}
    PROVE  \E f \in queue : \A g \in queue : f.seq =< g.seq
<1> DEFINE numbers == {f.seq : f \in queue}
<1>1. numbers \subseteq Nat /\ numbers # {}
    BY MaxNumberAssumption DEF NumberedFrames
<1>2. PICK n \in numbers : \A m \in numbers : ~(<<m, n>> \in OpToRel(<, Nat))
    BY <1>1, NatLessThanWellFounded, WFMin
<1>3. \A m \in numbers : n =< m
    <2> SUFFICES ASSUME NEW m \in numbers, m < n PROVE FALSE
        BY <1>1
    <2>1. <<m, n>> \in Nat \X Nat
        BY <1>1
    <2>2. <<m, n>>[1] < <<m, n>>[2]
        OBVIOUS
    <2>3. <<m, n>> \in OpToRel(<, Nat)
        BY <2>1, <2>2, Zenon DEF OpToRel
    <2> QED
        BY <1>2, <2>3
<1>4. PICK f \in queue : f.seq = n
    OBVIOUS
<1> QED
    BY <1>3, <1>4

(* Shifting a queue that is one frame too long leaves it at its depth.     *)
LEMMA ShiftedFits ==
    ASSUME NEW queue \in SUBSET NumberedFrames, IsFiniteSet(queue),
           Cardinality(queue) =< MaxQueueDepth + 1, queue # {}
    PROVE  /\ Shifted(queue) \subseteq queue
           /\ IsFiniteSet(Shifted(queue))
           /\ Cardinality(Shifted(queue)) =< MaxQueueDepth
<1>1. PICK f \in queue : \A g \in queue : f.seq =< g.seq
    BY QueueHasHead
<1>2. Shifted(queue) \subseteq queue \ {f}
    <2> SUFFICES ASSUME NEW x \in Shifted(queue) PROVE x \in queue /\ x # f
        OBVIOUS
    <2>1. PICK g \in queue : g.seq < x.seq
        BY DEF Shifted
    <2>2. x \in queue
        BY DEF Shifted
    <2>3. g.seq \in Nat /\ x.seq \in Nat /\ f.seq =< g.seq
        BY <1>1, <2>2, MaxNumberAssumption DEF NumberedFrames
    <2> QED
        BY <2>1, <2>2, <2>3
<1>3. IsFiniteSet(queue \ {f}) /\ Cardinality(queue \ {f}) = Cardinality(queue) - 1
    BY FS_RemoveElement
<1>4. /\ IsFiniteSet(Shifted(queue))
      /\ Cardinality(Shifted(queue)) =< Cardinality(queue \ {f})
    BY <1>2, <1>3, FS_Subset
<1>5. Cardinality(queue) \in Nat /\ Cardinality(Shifted(queue)) \in Nat
    BY <1>4, FS_CardinalityType
<1> QED
    BY <1>2, <1>3, <1>4, <1>5, DepthAssumption

-----------------------------------------------------------------------------
LEMMA GuardInvInit == GuardInit => GuardInv
BY FS_EmptySet, DepthAssumption
DEF GuardInit, GuardInv, GuardTypeOK, QueueWellFormed, GivenBelowExpected, EmptyGuard, NoSeq, NoGap

(* enqueue() before the eviction: at most one frame too many.              *)
LEMMA WithFrameFits ==
    ASSUME GuardInv, NEW frame \in NumberedFrames,
           NEW queue, queue = {f \in guard.queue : f.seq # frame.seq} \union {frame}
    PROVE  /\ queue \subseteq NumberedFrames /\ queue # {} /\ IsFiniteSet(queue)
           /\ Cardinality(queue) =< MaxQueueDepth + 1
           /\ \A f, g \in queue : f.seq = g.seq => f = g
<1> DEFINE kept == {f \in guard.queue : f.seq # frame.seq}
<1> USE DEF GuardInv, GuardTypeOK, QueueWellFormed
<1>1. kept \in SUBSET guard.queue
    OBVIOUS
<1>2. IsFiniteSet(kept) /\ Cardinality(kept) =< Cardinality(guard.queue)
    BY <1>1, FS_Subset
<1>3. Cardinality(kept) \in Nat /\ Cardinality(guard.queue) \in Nat
    BY <1>2, FS_CardinalityType
<1>4. IsFiniteSet(queue) /\ Cardinality(queue) =< Cardinality(kept) + 1
    BY <1>2, <1>3, FS_AddElement, SMTT(30)
<1>5. Cardinality(queue) \in Nat
    BY <1>4, FS_CardinalityType
<1>6. Cardinality(queue) =< MaxQueueDepth + 1
    BY <1>2, <1>3, <1>4, <1>5, DepthAssumption
<1>7. \A f, g \in queue : f.seq = g.seq => f = g
    BY DEF GuardInv
<1>8. queue \subseteq NumberedFrames
    BY <1>1
<1> QED
    BY <1>4, <1>6, <1>7, <1>8

(* What enqueue() makes of the guard, in the three cases of the code.      *)
LEMMA EnqueueForms ==
    ASSUME GuardInv, NEW frame \in NumberedFrames,
           NEW queue, queue = {f \in guard.queue : f.seq # frame.seq} \union {frame},
           NEW after, after = Enqueue(guard, frame)
    PROVE  /\ after \in [queue : SUBSET NumberedFrames, expected : Nat,
                         gap : 0 .. MaxGrace \union {NoGap}]
           /\ \/ /\ guard.expected = NoSeq /\ guard.queue = {}
                 /\ after.queue = {frame} /\ after.expected = frame.seq
              \/ /\ guard.expected # NoSeq /\ Cardinality(queue) =< MaxQueueDepth
                 /\ after.queue = queue /\ after.expected = guard.expected
              \/ /\ guard.expected # NoSeq
                 /\ after.queue = Shifted(queue) /\ after.expected = guard.expected + 1
<1> USE DEF GuardInv, GuardTypeOK, NoSeq, NoGap
<1> DEFINE first == guard.expected = NoSeq
           expected == IF first THEN frame.seq ELSE guard.expected
           full == Cardinality(queue) > MaxQueueDepth
<1>1. after = [queue    |-> IF full THEN Shifted(queue) ELSE queue,
               expected |-> IF full THEN expected + 1 ELSE expected,
               gap      |-> IF first THEN NoGap ELSE guard.gap]
    BY DEF Enqueue
<1>2. /\ queue \subseteq NumberedFrames /\ IsFiniteSet(queue) /\ queue # {}
      /\ Cardinality(queue) =< MaxQueueDepth + 1
    BY WithFrameFits
<1>3. Cardinality(queue) \in Nat
    BY <1>2, FS_CardinalityType
<1>4. Shifted(queue) \subseteq NumberedFrames
    BY <1>2 DEF Shifted
<1>5. frame.seq \in Nat /\ expected \in Nat
    BY MaxNumberAssumption DEF NumberedFrames
<1>6. after \in [queue : SUBSET NumberedFrames, expected : Nat,
                 gap : 0 .. MaxGrace \union {NoGap}]
    BY <1>1, <1>2, <1>4, <1>5
<1>7. CASE first
    <2>1. guard.queue = {} /\ queue = {frame}
        BY <1>7 DEF GivenBelowExpected
    <2>2. ~full
        BY <2>1, FS_Singleton, DepthAssumption
    <2> QED
        BY <1>1, <1>6, <1>7, <2>1, <2>2
<1>8. CASE ~first /\ full
    BY <1>1, <1>6, <1>8
<1>9. CASE ~first /\ ~full
    BY <1>1, <1>3, <1>6, <1>9, DepthAssumption
<1> QED
    BY <1>7, <1>8, <1>9

LEMMA EnqueueKeeps == GuardInv /\ EnqueueFrame => GuardInv'
<1> SUFFICES ASSUME GuardInv, NEW frame \in NumberedFrames, guard' = Enqueue(guard, frame),
                    UNCHANGED <<given, output>>
             PROVE  GuardInv'
    BY DEF EnqueueFrame
<1> DEFINE queue == {f \in guard.queue : f.seq # frame.seq} \union {frame}
<1>1. /\ queue \subseteq NumberedFrames /\ queue # {} /\ IsFiniteSet(queue)
      /\ Cardinality(queue) =< MaxQueueDepth + 1
      /\ \A f, g \in queue : f.seq = g.seq => f = g
    BY WithFrameFits
<1>2. /\ guard' \in [queue : SUBSET NumberedFrames, expected : Nat,
                     gap : 0 .. MaxGrace \union {NoGap}]
      /\ \/ /\ guard.expected = NoSeq /\ guard.queue = {}
            /\ guard'.queue = {frame} /\ guard'.expected = frame.seq
         \/ /\ guard.expected # NoSeq /\ Cardinality(queue) =< MaxQueueDepth
            /\ guard'.queue = queue /\ guard'.expected = guard.expected
         \/ /\ guard.expected # NoSeq
            /\ guard'.queue = Shifted(queue) /\ guard'.expected = guard.expected + 1
    BY EnqueueForms
<1> HIDE DEF queue
<1> USE DEF NoSeq
<1>3. GuardTypeOK'
    BY <1>2 DEF GuardInv, GuardTypeOK
<1>4. IsFiniteSet(guard'.queue) /\ QueueWellFormed'
    <2>1. CASE guard'.queue = {frame}
        <3>1. IsFiniteSet({frame}) /\ Cardinality({frame}) = 1
            BY FS_Singleton
        <3>2. Cardinality(guard'.queue) =< MaxQueueDepth
            BY <2>1, <3>1, DepthAssumption
        <3> QED
            BY <2>1, <3>1, <3>2 DEF QueueWellFormed
    <2>2. CASE guard'.queue = queue /\ Cardinality(queue) =< MaxQueueDepth
        BY <1>1, <2>2 DEF QueueWellFormed
    <2>3. CASE guard'.queue = Shifted(queue)
        BY <1>1, <2>3, ShiftedFits DEF QueueWellFormed
    <2> QED
        BY <1>2, <2>1, <2>2, <2>3
<1>5. frame.seq \in Nat
    BY MaxNumberAssumption DEF NumberedFrames
<1>6. GivenBelowExpected'
    BY <1>2, <1>5, MaxNumberAssumption DEF GuardInv, GuardTypeOK, GivenBelowExpected
<1> QED
    BY <1>3, <1>4, <1>6 DEF GuardInv

-----------------------------------------------------------------------------
(* What poll() makes of the guard: nothing that is live leaves it but the  *)
(* frame it returns, whose number is the expected one or, after a gap, the *)
(* next.                                                                   *)
LEMMA PollForms ==
    ASSUME GuardInv, NEW grace \in GraceWindows, NEW result, result = Poll(guard, grace)
    PROVE  /\ result.guard \in [queue : SUBSET NumberedFrames, expected : Nat \union {NoSeq},
                                gap : 0 .. MaxGrace \union {NoGap}]
           /\ \/ /\ result.ready = {} /\ result.guard.queue = Live(guard)
                 /\ \/ result.guard.expected = guard.expected
                    \/ /\ guard.expected # NoSeq
                       /\ result.guard.expected = guard.expected + 1
                       /\ \A f \in Live(guard) : f.seq # guard.expected
              \/ \E e \in {guard.expected, guard.expected + 1} :
                    /\ guard.expected # NoSeq
                    /\ e = guard.expected + 1 =>
                          \A f \in Live(guard) : f.seq # guard.expected
                    /\ result.ready = {f \in Live(guard) : f.seq = e}
                    /\ result.ready # {}
                    /\ result.guard.queue = {f \in Live(guard) : f.seq # e}
                    /\ result.guard.expected = e + 1
<1> USE GraceAssumption DEF GuardInv, GuardTypeOK, NoSeq, NoGap, NoWake, GraceWindows
<1> DEFINE live == Live(guard)
           next == guard.expected + 1
           due(e) == \E f \in live : f.seq = e
<1>1. live \subseteq NumberedFrames /\ (guard.expected = NoSeq => live = {})
    BY DEF Live, GivenBelowExpected
<1>2. CASE live = {}
    <2>1. result = Waiting({}, guard.expected, guard.gap, NoWake)
        BY <1>2 DEF Poll
    <2> QED
        BY <1>2, <2>1 DEF Waiting
<1>3. CASE live # {} /\ due(guard.expected)
    <2>1. result = Released(live, guard.expected)
        BY <1>3 DEF Poll
    <2> QED
        BY <1>1, <1>3, <2>1 DEF Released
<1>4. CASE live # {} /\ ~due(guard.expected) /\ guard.gap = NoGap
    <2>1. result = Waiting(live, guard.expected, 0, grace)
        BY <1>4 DEF Poll
    <2> QED
        BY <1>1, <2>1 DEF Waiting
<1>5. CASE live # {} /\ ~due(guard.expected) /\ guard.gap # NoGap /\ guard.gap < grace
    <2>1. result = Waiting(live, guard.expected, guard.gap, grace - guard.gap)
        BY <1>5 DEF Poll
    <2> QED
        BY <1>1, <2>1 DEF Waiting
<1>6. CASE live # {} /\ ~due(guard.expected) /\ guard.gap # NoGap /\ ~(guard.gap < grace)
    <2>1. result = IF due(next) THEN Released(live, next) ELSE Waiting(live, next, 0, grace)
        BY <1>6 DEF Poll
    <2>2. CASE due(next)
        BY <1>1, <1>6, <2>1, <2>2 DEF Released
    <2>3. CASE ~due(next)
        BY <1>1, <1>6, <2>1, <2>3 DEF Waiting
    <2> QED
        BY <2>2, <2>3
<1> QED
    BY <1>2, <1>3, <1>4, <1>5, <1>6

LEMMA PollKeeps == GuardInv /\ PollGuard => GuardInv'
<1> SUFFICES ASSUME GuardInv, NEW grace \in GraceWindows,
                    guard' = Poll(guard, grace).guard,
                    \/ Poll(guard, grace).ready = {} /\ UNCHANGED <<given, output>>
                    \/ \E f \in Poll(guard, grace).ready : given' = f.seq /\ output' = {f}
             PROVE  GuardInv'
    BY Zenon DEF PollGuard
<1> DEFINE result == Poll(guard, grace)
<1>1. /\ result.guard \in [queue : SUBSET NumberedFrames, expected : Nat \union {NoSeq},
                           gap : 0 .. MaxGrace \union {NoGap}]
      /\ \/ /\ result.ready = {} /\ result.guard.queue = Live(guard)
            /\ \/ result.guard.expected = guard.expected
               \/ /\ guard.expected # NoSeq
                  /\ result.guard.expected = guard.expected + 1
                  /\ \A f \in Live(guard) : f.seq # guard.expected
         \/ \E e \in {guard.expected, guard.expected + 1} :
               /\ guard.expected # NoSeq
               /\ e = guard.expected + 1 =>
                     \A f \in Live(guard) : f.seq # guard.expected
               /\ result.ready = {f \in Live(guard) : f.seq = e}
               /\ result.ready # {}
               /\ result.guard.queue = {f \in Live(guard) : f.seq # e}
               /\ result.guard.expected = e + 1
    BY PollForms
<1> HIDE DEF result
<1>2. /\ guard' = result.guard
      /\ \/ result.ready = {} /\ UNCHANGED <<given, output>>
         \/ \E f \in result.ready : given' = f.seq /\ output' = {f}
    BY DEF result
<1> USE DEF GuardInv, GuardTypeOK, NoSeq
<1>3. Live(guard) \subseteq guard.queue
    BY DEF Live
<1>4. guard'.queue \in SUBSET guard.queue
    BY <1>1, <1>2, <1>3
<1>5. IsFiniteSet(guard'.queue) /\ QueueWellFormed'
    <2>1. IsFiniteSet(guard'.queue) /\ Cardinality(guard'.queue) =< Cardinality(guard.queue)
        BY <1>4, FS_Subset
    <2>2. Cardinality(guard'.queue) \in Nat /\ Cardinality(guard.queue) \in Nat
        BY <2>1, FS_CardinalityType
    <2>3. Cardinality(guard'.queue) =< MaxQueueDepth
        BY <2>1, <2>2, DepthAssumption DEF QueueWellFormed
    <2> QED
        BY <1>4, <2>1, <2>3 DEF QueueWellFormed
<1>6. CASE result.ready = {} /\ UNCHANGED <<given, output>>
    <2>1. GivenBelowExpected'
        BY <1>1, <1>2, <1>3, <1>6, MaxNumberAssumption DEF GivenBelowExpected
    <2> QED
        BY <1>1, <1>2, <1>5, <1>6, <2>1
<1>7. CASE \E f \in result.ready : given' = f.seq /\ output' = {f}
    <2>1. PICK f \in result.ready : given' = f.seq /\ output' = {f}
        BY <1>7
    <2>2. f \in NumberedFrames
        BY <1>1, <1>3, <2>1
    <2>3. f.seq \in 0 .. MaxNumber
        BY <2>2 DEF NumberedFrames
    <2>4. guard'.expected = f.seq + 1
        BY <1>1, <1>2, <2>1
    <2>5. GivenBelowExpected'
        BY <2>1, <2>3, <2>4, MaxNumberAssumption DEF GivenBelowExpected
    <2> QED
        BY <1>1, <1>2, <1>5, <2>1, <2>2, <2>3, <2>5
<1> QED
    BY <1>2, <1>6, <1>7

LEMMA GuardInvKept == GuardInv /\ [GuardNext]_guardVars => GuardInv'
<1> SUFFICES ASSUME GuardInv, [GuardNext]_guardVars PROVE GuardInv'
    OBVIOUS
<1>1. CASE EnqueueFrame
    BY <1>1, EnqueueKeeps
<1>2. CASE PollGuard
    BY <1>2, PollKeeps
<1>3. CASE ResetGuard
    BY <1>3, FS_EmptySet, DepthAssumption
    DEF ResetGuard, GuardInv, GuardTypeOK, QueueWellFormed, GivenBelowExpected,
        EmptyGuard, NoSeq, NoGap
<1>4. CASE ClockTick
    <2>1. /\ guard' \in [queue : SUBSET NumberedFrames, expected : Nat \union {NoSeq},
                         gap : 0 .. MaxGrace \union {NoGap}]
          /\ guard'.queue = guard.queue /\ guard'.expected = guard.expected
        BY <1>4, GraceAssumption DEF ClockTick, Older, GuardInv, GuardTypeOK, NoGap
    <2> QED
        BY <1>4, <2>1 DEF ClockTick, GuardInv, GuardTypeOK, QueueWellFormed, GivenBelowExpected
<1>5. CASE UNCHANGED guardVars
    BY <1>5 DEF guardVars, GuardInv, GuardTypeOK, QueueWellFormed, GivenBelowExpected
<1> QED
    BY <1>1, <1>2, <1>3, <1>4, <1>5 DEF GuardNext

(* What waits is above what was released, sorted, and free of repetitions. *)
THEOREM GuardInvariant == GuardSpec => []GuardInv
BY GuardInvInit, GuardInvKept, PTL DEF GuardSpec

(* The queue never exceeds its depth and holds one frame of a number, for  *)
(* every depth.                                                            *)
THEOREM QueueBounded == GuardSpec => []QueueWellFormed
BY GuardInvariant, PTL DEF GuardInv

(* Whatever was given out is below the number expected next: no repeat and *)
(* no predecessor of it can be released.                                   *)
THEOREM GivenStaysBelow == GuardSpec => []GivenBelowExpected
BY GuardInvariant, PTL DEF GuardInv

-----------------------------------------------------------------------------
(* What poll() returns is the lowest live frame and comes after whatever   *)
(* was given before; the other live frames stay.                           *)
LEMMA PollGivesLowest ==
    ASSUME GuardInv, NEW grace \in GraceWindows, NEW result, result = Poll(guard, grace)
    PROVE  \/ /\ result.ready = {}
              /\ Live(result.guard) = Live(guard)
           \/ /\ result.ready # {}
              /\ \A f \in result.ready :
                 /\ f \in Live(guard) /\ \A g \in Live(guard) : f.seq =< g.seq
                 /\ f.seq \in Nat /\ f.seq > given
                 /\ Live(result.guard) = Live(guard) \ {f}
<1> USE DEF GuardInv, GuardTypeOK, NoSeq
<1>1. /\ Live(guard) \subseteq guard.queue
      /\ \A f \in Live(guard) : f.seq \in Nat /\ f.seq >= guard.expected
    BY MaxNumberAssumption DEF Live, NumberedFrames
<1>2. /\ \/ /\ result.ready = {} /\ result.guard.queue = Live(guard)
            /\ \/ result.guard.expected = guard.expected
               \/ /\ guard.expected # NoSeq
                  /\ result.guard.expected = guard.expected + 1
                  /\ \A f \in Live(guard) : f.seq # guard.expected
         \/ \E e \in {guard.expected, guard.expected + 1} :
               /\ guard.expected # NoSeq
               /\ e = guard.expected + 1 =>
                     \A f \in Live(guard) : f.seq # guard.expected
               /\ result.ready = {f \in Live(guard) : f.seq = e}
               /\ result.ready # {}
               /\ result.guard.queue = {f \in Live(guard) : f.seq # e}
               /\ result.guard.expected = e + 1
    BY PollForms
<1>3. CASE /\ result.ready = {} /\ result.guard.queue = Live(guard)
           /\ \/ result.guard.expected = guard.expected
              \/ /\ guard.expected # NoSeq
                 /\ result.guard.expected = guard.expected + 1
                 /\ \A f \in Live(guard) : f.seq # guard.expected
    <2>1. \A f \in Live(guard) : f.seq >= result.guard.expected
        BY <1>1, <1>3
    <2>2. Live(result.guard) = {f \in Live(guard) : f.seq >= result.guard.expected}
        BY <1>3 DEF Live
    <2> QED
        BY <1>3, <2>1, <2>2
<1>4. ASSUME NEW e \in {guard.expected, guard.expected + 1}, guard.expected # NoSeq,
             e = guard.expected + 1 => \A f \in Live(guard) : f.seq # guard.expected,
             result.ready = {f \in Live(guard) : f.seq = e},
             result.guard.queue = {f \in Live(guard) : f.seq # e},
             result.guard.expected = e + 1,
             NEW f \in result.ready
      PROVE  /\ f \in Live(guard) /\ \A g \in Live(guard) : f.seq =< g.seq
             /\ f.seq \in Nat /\ f.seq > given
             /\ Live(result.guard) = Live(guard) \ {f}
    <2>1. f \in Live(guard) /\ f.seq = e /\ e \in Nat
        BY <1>1, <1>4
    <2>2. \A g \in Live(guard) : g.seq \in Nat /\ e =< g.seq
        BY <1>1, <1>4
    <2>3. \A g \in Live(guard) : g.seq = e => g = f
        BY <1>1, <2>1 DEF QueueWellFormed
    <2>4. Live(result.guard) = {g \in result.guard.queue : g.seq >= e + 1}
        BY <1>4 DEF Live
    <2>5. Live(result.guard) = Live(guard) \ {f}
        BY <1>4, <2>1, <2>2, <2>3, <2>4
    <2>6. f.seq > given
        BY <1>4, <2>1, MaxNumberAssumption DEF GivenBelowExpected
    <2> QED
        BY <2>1, <2>2, <2>5, <2>6
<1> QED
    BY <1>2, <1>3, <1>4

(* Between two resets the consumer sees strictly increasing numbers.       *)
LEMMA StepReleasesInOrder ==
    ASSUME GuardInv, [GuardNext]_guardVars
    PROVE  [given' # given /\ given' # NoSeq => given' > given]_guardVars
<1>1. CASE PollGuard
    <2>1. PICK grace \in GraceWindows :
            LET result == Poll(guard, grace)
            IN  \/ result.ready = {} /\ UNCHANGED <<given, output>>
                \/ \E f \in result.ready : given' = f.seq /\ output' = {f}
        BY <1>1, Zenon DEF PollGuard
    <2> DEFINE result == Poll(guard, grace)
    <2>2. \A f \in result.ready : f.seq > given
        BY PollGivesLowest
    <2> QED
        BY <2>1, <2>2
<1> QED
    BY <1>1 DEF GuardNext, EnqueueFrame, ResetGuard, ClockTick, guardVars

(* No frame leaves after one with a higher number, however frames arrive,  *)
(* repeat and are evicted.                                                 *)
THEOREM FramesLeaveInOrder == GuardSpec => ReleasedInOrder
BY GuardInvariant, StepReleasesInOrder, PTL DEF GuardSpec, ReleasedInOrder

-----------------------------------------------------------------------------
(* The refinement: the live frames of the guard are the waiting frames of  *)
(* the ordered buffer.                                                     *)

LiveIn(queue, expected) == {f \in queue : f.seq >= expected}

(* An eviction takes from the live frames at most the lowest one.          *)
LEMMA EvictionTakesLowest ==
    ASSUME NEW queue \in SUBSET NumberedFrames, NEW expected \in Nat,
           \A f, g \in queue : f.seq = g.seq => f = g
    PROVE  LiveIn(Shifted(queue), expected + 1)
              \in {LiveIn(queue, expected),
                   LiveIn(queue, expected) \ Ordered!Lowest(LiveIn(queue, expected))}
<1> DEFINE live == LiveIn(queue, expected)
           after == LiveIn(Shifted(queue), expected + 1)
<1> USE DEF LiveIn
<1>1. \A f \in queue : f.seq \in Nat
    BY MaxNumberAssumption DEF NumberedFrames
<1>2. after \subseteq live
    BY <1>1 DEF Shifted
<1>3. CASE \E f \in queue : f.seq = expected
    <2>1. PICK f \in queue : f.seq = expected
        BY <1>3
    <2>2. Ordered!Lowest(live) = {f}
        BY <1>1, <2>1 DEF Ordered!Lowest
    <2>3. \A g \in live : g # f => g.seq >= expected + 1
        BY <1>1, <2>1
    <2>4. \A g \in live \ {f} : g \in after
        BY <1>1, <2>1, <2>3 DEF Shifted
    <2>5. f \notin after
        BY <1>1, <2>1
    <2> QED
        BY <1>2, <2>2, <2>4, <2>5
<1>4. CASE /\ \A f \in queue : f.seq # expected
           /\ \E f \in queue : f.seq < expected
    <2>1. PICK f \in queue : f.seq < expected
        BY <1>4
    <2>2. \A g \in live : f.seq < g.seq /\ g.seq >= expected + 1
        BY <1>1, <1>4, <2>1
    <2>3. live \subseteq after
        BY <2>1, <2>2 DEF Shifted
    <2> QED
        BY <1>2, <2>3
<1>5. CASE \A f \in queue : f.seq > expected
    <2>1. live = queue
        BY <1>1, <1>5
    <2>2. after = Shifted(queue)
        BY <1>1, <1>5 DEF Shifted
    <2>3. Shifted(queue) = queue \ Ordered!Lowest(queue)
        BY <1>1 DEF Shifted, Ordered!Lowest
    <2> QED
        BY <2>1, <2>2, <2>3
<1>6. \/ \E f \in queue : f.seq = expected
      \/ (\A f \in queue : f.seq # expected) /\ \E f \in queue : f.seq < expected
      \/ \A f \in queue : f.seq > expected
    BY <1>1
<1> QED
    BY <1>3, <1>4, <1>5, <1>6, Zenon

(* enqueue() accepts a live frame, refuses an old one, and in either case  *)
(* may evict.                                                              *)
LEMMA EnqueueRefines ==
    ASSUME GuardInv, NEW frame \in NumberedFrames, guard' = Enqueue(guard, frame),
           UNCHANGED <<given, output>>
    PROVE  Ordered!Accept \/ Ordered!Refuse
<1> DEFINE queue == {f \in guard.queue : f.seq # frame.seq} \union {frame}
           more == {g \in Live(guard) : g.seq # frame.seq} \union {frame}
           live == LiveIn(queue, guard.expected)
<1>1. /\ queue \subseteq NumberedFrames
      /\ \A f, g \in queue : f.seq = g.seq => f = g
    BY WithFrameFits
<1>2. \/ /\ guard.expected = NoSeq /\ guard.queue = {}
         /\ guard'.queue = {frame} /\ guard'.expected = frame.seq
      \/ /\ guard.expected # NoSeq /\ guard'.queue = queue
         /\ guard'.expected = guard.expected
      \/ /\ guard.expected # NoSeq
         /\ guard'.queue = Shifted(queue) /\ guard'.expected = guard.expected + 1
    BY EnqueueForms
<1> USE DEF GuardInv, GuardTypeOK, NoSeq
<1>3. frame.seq \in Nat /\ Live(guard)' = {f \in guard'.queue : f.seq >= guard'.expected}
    BY MaxNumberAssumption DEF NumberedFrames, Live
<1>4. CASE guard.expected = NoSeq
    <2>1. given = NoSeq /\ guard.queue = {} /\ Live(guard) = {}
        BY <1>4 DEF GivenBelowExpected, Live
    <2>2. Live(guard)' = {frame} /\ more = {frame} /\ frame.seq > given
        BY <1>2, <1>3, <1>4, <2>1
    <2> QED
        BY <2>2 DEF Ordered!Accept
<1>5. CASE guard.expected # NoSeq
    <2>1. guard.expected \in Nat
        BY <1>5
    <2>2. Live(guard)' \in {live, live \ Ordered!Lowest(live)}
        <3>1. CASE guard'.queue = queue /\ guard'.expected = guard.expected
            BY <1>3, <3>1 DEF LiveIn
        <3>2. CASE guard'.queue = Shifted(queue) /\ guard'.expected = guard.expected + 1
            <4>1. Live(guard)' = {f \in Shifted(queue) : f.seq >= guard.expected + 1}
                BY <1>3, <3>2
            <4>2. Live(guard)' = LiveIn(Shifted(queue), guard.expected + 1)
                BY <4>1 DEF LiveIn
            <4>3. queue \in SUBSET NumberedFrames /\ \A f, g \in queue : f.seq = g.seq => f = g
                BY <1>1
            <4> HIDE DEF queue
            <4> QED
                BY <2>1, <4>2, <4>3, EvictionTakesLowest
        <3> QED
            BY <1>2, <1>5, <3>1, <3>2
    <2>3. CASE frame.seq >= guard.expected
        <3>1. live = more
            BY <2>3 DEF Live, LiveIn
        <3>2. frame.seq > given
            BY <1>3, <2>1, <2>3, MaxNumberAssumption DEF GivenBelowExpected
        <3> QED
            BY <2>2, <3>1, <3>2 DEF Ordered!Accept
    <2>4. CASE frame.seq < guard.expected
        <3>1. live = Live(guard)
            BY <1>3, <2>1, <2>4, MaxNumberAssumption DEF Live, LiveIn, NumberedFrames
        <3> QED
            BY <2>2, <3>1 DEF Ordered!Refuse
    <2> QED
        BY <1>3, <2>1, <2>3, <2>4
<1> QED
    BY <1>4, <1>5

LEMMA PollRefines == GuardInv /\ PollGuard => Ordered!HandOut \/ Ordered!Refuse
<1> SUFFICES ASSUME GuardInv, NEW grace \in GraceWindows,
                    guard' = Poll(guard, grace).guard,
                    \/ Poll(guard, grace).ready = {} /\ UNCHANGED <<given, output>>
                    \/ \E f \in Poll(guard, grace).ready : given' = f.seq /\ output' = {f}
             PROVE  Ordered!HandOut \/ Ordered!Refuse
    BY Zenon DEF PollGuard
<1> DEFINE result == Poll(guard, grace)
<1>1. \/ result.ready = {} /\ Live(result.guard) = Live(guard)
      \/ /\ result.ready # {}
         /\ \A f \in result.ready :
            /\ f \in Live(guard) /\ \A g \in Live(guard) : f.seq =< g.seq
            /\ f.seq \in Nat /\ f.seq > given
            /\ Live(result.guard) = Live(guard) \ {f}
    BY PollGivesLowest
<1> HIDE DEF result
<1>2. Live(guard)' = Live(result.guard)
    BY DEF result, Live
<1>3. CASE result.ready = {} /\ UNCHANGED <<given, output>>
    <2>1. Live(guard)' = Live(guard)
        BY <1>1, <1>2, <1>3
    <2> QED
        BY <1>3, <2>1 DEF Ordered!Refuse
<1>4. CASE \E f \in result.ready : given' = f.seq /\ output' = {f}
    <2>1. PICK f \in result.ready : given' = f.seq /\ output' = {f}
        BY <1>4
    <2>2. f \in Ordered!Lowest(Live(guard)) /\ f.seq > given
        BY <1>1, <2>1 DEF Ordered!Lowest
    <2>3. Live(guard)' = Live(guard) \ {f}
        BY <1>1, <1>2, <2>1
    <2> QED
        BY <2>1, <2>2, <2>3 DEF Ordered!HandOut
<1> QED
    BY <1>3, <1>4 DEF result

LEMMA StepRefines ==
    ASSUME GuardInv, [GuardNext]_guardVars
    PROVE  [Ordered!ANext]_(Ordered!abstractVars)
<1>1. CASE EnqueueFrame
    BY <1>1, EnqueueRefines DEF EnqueueFrame, Ordered!ANext
<1>2. CASE PollGuard
    BY <1>2, PollRefines DEF Ordered!ANext
<1>3. CASE ResetGuard
    BY <1>3 DEF ResetGuard, EmptyGuard, Live, NoSeq, Ordered!Forget, Ordered!ANext
<1>4. CASE ClockTick
    <2>1. guard'.queue = guard.queue /\ guard'.expected = guard.expected
        BY <1>4 DEF ClockTick, Older, GuardInv, GuardTypeOK
    <2> QED
        BY <1>4, <2>1 DEF ClockTick, Live, Ordered!abstractVars
<1>5. CASE UNCHANGED guardVars
    BY <1>5 DEF guardVars, Live, Ordered!abstractVars
<1> QED
    BY <1>1, <1>2, <1>3, <1>4, <1>5 DEF GuardNext

(* The guard implements the ordered buffer, for every depth, grace window  *)
(* and range of numbers.                                                   *)
THEOREM GuardImplementsBuffer == GuardSpec => OrderedSpec
<1>1. GuardInit => Ordered!AInit
    BY DEF GuardInit, EmptyGuard, Live, NoSeq, Ordered!AInit
<1>2. GuardInv /\ [GuardNext]_guardVars => [Ordered!ANext]_(Ordered!abstractVars)
    BY StepRefines
<1> QED
    BY <1>1, <1>2, GuardInvariant, PTL DEF GuardSpec, OrderedSpec, Ordered!AbstractSpec

-----------------------------------------------------------------------------
(* The gate around the guard.                                              *)

Guards == [queue : SUBSET Frames, expected : Int, gap : Nat \union {NoGap}]

Gates == [guard : Guards, pending : SUBSET Frames,
          gateIn : Nat \union {Off}, seqIn : Nat \union {Off}]

(* A gate in which nothing waits without a timer.                          *)
Awake(g) ==
    /\ g.pending # {} => g.gateIn # Off
    /\ g.pending = {} /\ Live(g.guard) # {} => g.seqIn # Off

FeedsIn(g) == {f.feed : f \in g.pending \union g.guard.queue}

(* poll() releases or keeps what was queued; it asks to be called again as *)
(* long as it keeps something and releases nothing.                        *)
LEMMA PollAsksAgain ==
    ASSUME NEW old \in Guards, NEW grace \in GraceWindows,
           NEW polled, polled = Poll(old, grace)
    PROVE  /\ polled.guard \in Guards
           /\ polled.guard.queue \subseteq old.queue /\ polled.ready \subseteq old.queue
           /\ polled.ready = {} /\ Live(polled.guard) # {} => polled.wake # NoWake
           /\ polled.wake \in Int
<1> DEFINE live == Live(old)
           next == old.expected + 1
<1>1. live \subseteq old.queue /\ live \subseteq Frames
    BY DEF Live, Guards
<1>2. old.expected \in Int /\ next \in Int /\ grace \in Nat \ {0}
      /\ old.gap \in Nat \union {NoGap}
    BY GraceAssumption DEF Guards, GraceWindows
<1>3. CASE live = {}
    <2>1. polled = Waiting({}, old.expected, old.gap, NoWake)
        BY <1>3 DEF Poll
    <2>2. Live(polled.guard) = {}
        BY <2>1 DEF Live, Waiting
    <2>3. /\ polled.guard = [queue |-> {}, expected |-> old.expected, gap |-> old.gap]
          /\ polled.ready = {} /\ polled.wake = NoWake
        BY <2>1 DEF Waiting
    <2>4. polled.guard \in Guards /\ polled.guard.queue = {}
        BY <1>2, <2>3 DEF Guards
    <2> QED
        BY <2>2, <2>3, <2>4 DEF NoWake
<1>4. ASSUME NEW n \in Int, \E f \in live : f.seq = n, polled = Released(live, n)
      PROVE  /\ polled.guard \in Guards
             /\ polled.guard.queue \subseteq old.queue /\ polled.ready \subseteq old.queue
             /\ polled.ready # {} /\ polled.wake \in Int
    BY <1>1, <1>4 DEF Released, Guards, NoGap, NoWake
<1>5. ASSUME NEW n \in Int, NEW gap \in Nat, NEW wake \in Nat \ {0},
             polled = Waiting(live, n, gap, wake)
      PROVE  /\ polled.guard \in Guards
             /\ polled.guard.queue \subseteq old.queue /\ polled.ready \subseteq old.queue
             /\ polled.wake # NoWake /\ polled.wake \in Int
    BY <1>1, <1>5 DEF Waiting, Guards, NoWake
<1>6. \/ live = {}
      \/ \E n \in Int : (\E f \in live : f.seq = n) /\ polled = Released(live, n)
      \/ \E n \in Int, gap \in Nat, wake \in Nat \ {0} : polled = Waiting(live, n, gap, wake)
    <2> SUFFICES ASSUME live # {} PROVE <1>6!2 \/ <1>6!3
        OBVIOUS
    <2>1. CASE \E f \in live : f.seq = old.expected
        BY <1>2, <2>1 DEF Poll
    <2>2. CASE (~\E f \in live : f.seq = old.expected) /\ old.gap = NoGap
        <3>1. polled = Waiting(live, old.expected, 0, grace)
            BY <2>2 DEF Poll
        <3> QED
            BY <1>2, <3>1
    <2>3. CASE /\ ~\E f \in live : f.seq = old.expected
               /\ old.gap # NoGap /\ old.gap < grace
        <3>1. polled = Waiting(live, old.expected, old.gap, grace - old.gap)
            BY <2>3 DEF Poll
        <3>2. grace - old.gap \in Nat \ {0} /\ old.gap \in Nat
            BY <1>2, <2>3
        <3> QED
            BY <1>2, <3>1, <3>2
    <2>4. CASE /\ ~\E f \in live : f.seq = old.expected
               /\ old.gap # NoGap /\ ~(old.gap < grace)
               /\ \E f \in live : f.seq = next
        <3>1. polled = Released(live, next)
            BY <2>4 DEF Poll
        <3> QED
            BY <1>2, <2>4, <3>1
    <2>5. CASE /\ ~\E f \in live : f.seq = old.expected
               /\ old.gap # NoGap /\ ~(old.gap < grace)
               /\ ~\E f \in live : f.seq = next
        <3>1. polled = Waiting(live, next, 0, grace)
            BY <2>5 DEF Poll
        <3> QED
            BY <1>2, <3>1
    <2> QED
        BY <2>1, <2>2, <2>3, <2>4, <2>5
<1> QED
    BY <1>3, <1>4, <1>5, <1>6

LEMMA AdvanceKeepsAwake ==
    ASSUME NEW g \in Gates, g.pending # {} => g.gateIn # Off,
           NEW grace \in GraceWindows, NEW after, after = Advance(g, grace)
    PROVE  after \in Gates /\ Awake(after) /\ FeedsIn(after) \subseteq FeedsIn(g)
<1> DEFINE polled == Poll(g.guard, grace)
           moved == [g EXCEPT !.guard = polled.guard]
<1>1. CASE g.pending # {}
    <2>1. after = g
        BY <1>1 DEF Advance
    <2> QED
        BY <1>1, <2>1 DEF Awake
<1>2. CASE g.pending = {}
    <2>1. /\ polled.guard \in Guards
          /\ polled.guard.queue \subseteq g.guard.queue /\ polled.ready \subseteq g.guard.queue
          /\ polled.ready = {} /\ Live(polled.guard) # {} => polled.wake # NoWake
          /\ polled.wake \in Int
        <3>1. g.guard \in Guards
            BY DEF Gates
        <3> HIDE DEF polled
        <3> QED
            BY <3>1, PollAsksAgain DEF polled
    <2>2. g.guard.queue \subseteq Frames
        BY DEF Gates, Guards
    <2> HIDE DEF polled
    <2>3. moved \in Gates /\ moved.guard = polled.guard /\ moved.pending = {}
        BY <1>2, <2>1 DEF Gates
    <2>4. CASE polled.ready # {}
        <3>1. PICK f \in polled.ready : after = Arm(moved, f)
            BY <1>2, <2>4 DEF Advance, polled
        <3>2. f \in Frames /\ f \in g.guard.queue /\ Buffer \in Nat /\ Buffer # Off
            BY <2>1, <2>2, TimerAssumption DEF Off
        <3>3. after = [moved EXCEPT !.pending = {f}, !.gateIn = Buffer]
            BY <3>1 DEF Arm
        <3> HIDE DEF moved
        <3>5. {f} \in SUBSET Frames /\ Buffer \in Nat \union {Off}
            BY <3>2
        <3>4. after \in Gates /\ after.pending = {f} /\ after.gateIn = Buffer
              /\ after.guard = polled.guard
            BY <2>3, <3>5, <3>3 DEF Gates
        <3> QED
            BY <1>2, <2>1, <3>2, <3>4 DEF Awake, FeedsIn
    <2>5. CASE polled.ready = {} /\ polled.wake = NoWake
        <3>1. after = moved
            BY <1>2, <2>5 DEF Advance, polled
        <3> QED
            BY <1>2, <2>1, <2>3, <2>5, <3>1 DEF Awake, FeedsIn
    <2>6. CASE polled.ready = {} /\ polled.wake # NoWake
        <3>1. PICK n \in Nat \ {0} : after = [moved EXCEPT !.seqIn = n]
            <4>1. after = [moved EXCEPT !.seqIn = IF polled.wake < 1 THEN 1 ELSE polled.wake]
                BY <1>2, <2>6 DEF Advance, polled
            <4>2. (IF polled.wake < 1 THEN 1 ELSE polled.wake) \in Nat \ {0}
                BY <2>1
            <4> QED
                BY <4>1, <4>2
        <3> HIDE DEF moved
        <3>2. after \in Gates /\ after.pending = {} /\ after.seqIn # Off
              /\ after.guard = polled.guard
            BY <2>3, <3>1 DEF Gates, Off
        <3> QED
            BY <1>2, <2>1, <3>2 DEF Awake, FeedsIn
    <2> QED
        BY <2>4, <2>5, <2>6
<1> QED
    BY <1>1, <1>2

LEMMA QueueFrameKeepsAwake ==
    ASSUME NEW g \in Gates, Awake(g), NEW frame \in Frames,
           NEW grace \in GraceWindows, NEW after, after = QueueFrame(g, frame, grace)
    PROVE  /\ after \in Gates /\ Awake(after)
           /\ FeedsIn(after) \subseteq FeedsIn(g) \union {frame.feed}
<1>1. CASE frame.seq # NoSeq
    <2> DEFINE entered == [g EXCEPT !.guard = Enqueue(@, frame)]
    <2>1. after = Advance(entered, grace)
        BY <1>1 DEF QueueFrame
    <2>2. /\ Enqueue(g.guard, frame) \in Guards
          /\ Enqueue(g.guard, frame).queue \subseteq g.guard.queue \union {frame}
        <3> DEFINE queue == {f \in g.guard.queue : f.seq # frame.seq} \union {frame}
        <3>1. queue \subseteq Frames /\ queue \subseteq g.guard.queue \union {frame}
            BY DEF Gates, Guards
        <3>2. Shifted(queue) \subseteq queue
            BY DEF Shifted
        <3>3. frame.seq \in Int /\ g.guard.expected \in Int /\ g.guard.gap \in Nat \union {NoGap}
            BY DEF Gates, Guards, Frames, NoSeq
        <3> QED
            BY <3>1, <3>2, <3>3 DEF Enqueue, Guards, NoGap
    <2>3. /\ entered \in Gates /\ entered.pending = g.pending /\ entered.gateIn = g.gateIn
          /\ entered.guard = Enqueue(g.guard, frame)
        BY <2>2 DEF Gates
    <2> HIDE DEF entered
    <2>4. FeedsIn(entered) \subseteq FeedsIn(g) \union {frame.feed}
        BY <2>2, <2>3 DEF FeedsIn
    <2>5. entered.pending # {} => entered.gateIn # Off
        BY <2>3 DEF Awake
    <2> QED
        BY <2>1, <2>3, <2>4, <2>5, AdvanceKeepsAwake
<1>2. Buffer \in Nat /\ Buffer # Off
    BY TimerAssumption DEF Off
<1>3. CASE frame.seq = NoSeq /\ \A p \in g.pending : p.feed # frame.feed
    <2>1. after = [g EXCEPT !.pending = {frame}, !.gateIn = Buffer]
        BY <1>3 DEF QueueFrame, Arm
    <2>2. /\ after \in Gates /\ after.pending = {frame} /\ after.gateIn = Buffer
          /\ after.guard = g.guard
        BY <1>2, <2>1 DEF Gates
    <2> QED
        BY <1>2, <2>2 DEF Awake, FeedsIn
<1>4. CASE frame.seq = NoSeq /\ ~\A p \in g.pending : p.feed # frame.feed
    <2> DEFINE merged == {[p EXCEPT !.atomic = frame.atomic] : p \in g.pending}
    <2>1. after = [g EXCEPT !.pending = merged, !.gateIn = Buffer]
        BY <1>4 DEF QueueFrame
    <2>2. g.pending \subseteq Frames
        BY DEF Gates
    <2>3. \A p \in Frames : /\ [p EXCEPT !.atomic = frame.atomic] \in Frames
                            /\ [p EXCEPT !.atomic = frame.atomic].feed = p.feed
        BY DEF Frames
    <2>4. merged \subseteq Frames /\ \A m \in merged : \E p \in g.pending : m.feed = p.feed
        BY <2>2, <2>3
    <2>5. merged # {}
        BY <1>4
    <2> HIDE DEF merged
    <2>6. /\ after \in Gates /\ after.pending = merged /\ after.gateIn = Buffer
          /\ after.guard = g.guard
        BY <1>2, <2>1, <2>4 DEF Gates
    <2> QED
        BY <1>2, <2>4, <2>5, <2>6 DEF Awake, FeedsIn
<1> QED
    BY <1>1, <1>3, <1>4

LEMMA FlushKeepsAwake ==
    ASSUME NEW g \in Gates, Awake(g), NEW grace \in GraceWindows,
           NEW after, after = Flush(g, grace)
    PROVE  after \in Gates /\ Awake(after) /\ FeedsIn(after) \subseteq FeedsIn(g)
<1> DEFINE fired == [g EXCEPT !.gateIn = Off]
           wait == CHOOSE n \in 1 .. Stall : \E p \in g.pending : n = Stall - p.age
<1>1. fired \in Gates /\ fired.pending = g.pending /\ fired.guard = g.guard
      /\ fired.seqIn = g.seqIn
    BY DEF Gates
<1>2. CASE g.pending = {}
    <2>1. after = fired
        BY <1>2 DEF Flush
    <2> QED
        BY <1>1, <1>2, <2>1 DEF Awake, FeedsIn
<1>3. CASE g.pending # {} /\ Shown(g) = {}
    <2>1. PICK p \in g.pending : p.age # Stall
        BY <1>3 DEF Shown
    <2>2. p.age \in 0 .. Stall /\ Stall \in Nat
        BY TimerAssumption DEF Gates, Frames
    <2>3. Stall - p.age \in 1 .. Stall
        BY <2>1, <2>2
    <2>4. wait \in 1 .. Stall
        BY <2>3
    <2> HIDE DEF wait
    <2>5. PICK n \in Nat \ {0} : after = [fired EXCEPT !.gateIn = n]
        <3>1. after = [fired EXCEPT !.gateIn = IF wait < Buffer THEN wait ELSE Buffer]
            BY <1>3 DEF Flush, wait
        <3>2. (IF wait < Buffer THEN wait ELSE Buffer) \in Nat \ {0}
            BY <2>4, TimerAssumption
        <3> QED
            BY <3>1, <3>2
    <2> HIDE DEF fired
    <2>6. /\ after \in Gates /\ after.pending = g.pending /\ after.gateIn # Off
          /\ after.guard = g.guard
        BY <1>1, <2>5 DEF Gates, Off
    <2> QED
        BY <1>3, <2>6 DEF Awake, FeedsIn
<1>4. CASE g.pending # {} /\ Shown(g) # {}
    <2> DEFINE left == [fired EXCEPT !.pending = {}]
    <2>1. after = Advance(left, grace)
        BY <1>4 DEF Flush
    <2>2. left \in Gates /\ left.pending = {} /\ left.guard = g.guard
        BY <1>1 DEF Gates
    <2> HIDE DEF left
    <2>3. FeedsIn(left) \subseteq FeedsIn(g)
        BY <2>2 DEF FeedsIn
    <2> QED
        BY <2>1, <2>2, <2>3, AdvanceKeepsAwake
<1> QED
    BY <1>2, <1>3, <1>4

LEMMA OlderFrameStays ==
    ASSUME NEW f \in Frames
    PROVE  OlderFrame(f) \in Frames /\ OlderFrame(f).feed = f.feed /\ OlderFrame(f).seq = f.seq
<1>1. f.age \in 0 .. Stall /\ Stall \in Nat
    BY TimerAssumption DEF Frames
<1>2. (IF f.age = Stall THEN f.age ELSE f.age + 1) \in 0 .. Stall
    BY <1>1
<1> QED
    BY <1>2 DEF OlderFrame, Frames

LEMMA OlderGateKeepsAwake ==
    ASSUME NEW g \in Gates, Awake(g), NEW after, after = OlderGate(g)
    PROVE  after \in Gates /\ Awake(after) /\ FeedsIn(after) \subseteq FeedsIn(g)
<1> DEFINE Aged(frames) == {OlderFrame(f) : f \in frames}
           gap == IF g.guard.gap = NoGap \/ g.guard.gap = MaxGrace
                  THEN g.guard.gap ELSE g.guard.gap + 1
<1>1. /\ after = [g EXCEPT !.guard = after.guard, !.pending = Aged(g.pending),
                           !.gateIn = Down(g.gateIn), !.seqIn = Down(g.seqIn)]
      /\ after.guard = [g.guard EXCEPT !.gap = gap, !.queue = Aged(g.guard.queue)]
    BY DEF OlderGate, Older, Gates, Guards
<1>2. \A frames \in SUBSET Frames :
          /\ Aged(frames) \subseteq Frames
          /\ \A a \in Aged(frames) : \E f \in frames : a.feed = f.feed /\ a.seq = f.seq
    BY OlderFrameStays
<1>3. \A timer \in Nat \union {Off} :
          Down(timer) \in Nat \union {Off} /\ (timer # Off => Down(timer) # Off)
    BY DEF Down, Off
<1>4. gap \in Nat \union {NoGap}
    BY DEF Gates, Guards
<1>5. g.pending \in SUBSET Frames /\ g.guard.queue \in SUBSET Frames /\ g.guard \in Guards
      /\ g.gateIn \in Nat \union {Off} /\ g.seqIn \in Nat \union {Off}
    BY DEF Gates, Guards
<1>6. g.pending = {} <=> Aged(g.pending) = {}
    OBVIOUS
<1> HIDE DEF gap, Aged
<1>7. Aged(g.pending) \in SUBSET Frames /\ Aged(g.guard.queue) \in SUBSET Frames
    BY <1>2, <1>5
<1>8. Down(g.gateIn) \in Nat \union {Off} /\ Down(g.seqIn) \in Nat \union {Off}
    BY <1>3, <1>5
<1>9. after.guard \in Guards /\ after.guard.queue = Aged(g.guard.queue)
      /\ after.guard.expected = g.guard.expected
    BY <1>1, <1>7, <1>4, <1>5 DEF Guards
<1>10. after \in Gates /\ after.pending = Aged(g.pending)
      /\ after.gateIn = Down(g.gateIn) /\ after.seqIn = Down(g.seqIn)
    BY <1>1, <1>7, <1>8, <1>5, <1>9 DEF Gates
<1>11. Live(after.guard) # {} => Live(g.guard) # {}
    BY <1>2, <1>5, <1>9 DEF Live
<1>12. Awake(after)
    BY <1>3, <1>5, <1>6, <1>10, <1>11 DEF Awake
<1>13. FeedsIn(after) \subseteq FeedsIn(g)
    BY <1>2, <1>5, <1>9, <1>10 DEF FeedsIn
<1> QED
    BY <1>10, <1>12, <1>13

-----------------------------------------------------------------------------
(* The gate and the channel to the worker.                                 *)

Messages == {Reset} \union {FrameMessage(f) : f \in Frames}

GateShape ==
    /\ worker \in BOOLEAN /\ active \in Feeds \union {NoFeed}
    /\ lastSeq \in 0 .. MaxSeq \union {NoSeq}
    /\ gate \in Gates /\ inbox \in Seq(Messages)
    /\ ~worker => inbox = <<>>

(* The two halves of GateHoldsThisMarket.                                  *)
LastFramesOwn ==
    \A i \in DOMAIN inbox :
        /\ inbox[i].type # "reset"
        /\ \A r \in DOMAIN inbox : inbox[r].type = "reset" => r < i
        => SameMarket(inbox[i].frame.feed, active)

GateOwn ==
    \/ \E r \in DOMAIN inbox : inbox[r].type = "reset"
    \/ \A x \in FeedsIn(gate) : SameMarket(x, active)

GateInv == GateShape /\ Awake(gate) /\ LastFramesOwn /\ GateOwn

LEMMA GateInvImplies == GateInv => NoLostWakeup /\ GateHoldsThisMarket
<1> SUFFICES ASSUME GateInv PROVE NoLostWakeup /\ GateHoldsThisMarket
    OBVIOUS
<1>1. NoLostWakeup
    BY DEF GateInv, Awake, NoLostWakeup
<1> DEFINE resets == {i \in DOMAIN inbox : inbox[i].type = "reset"}
<1>2. ASSUME NEW i \in DOMAIN inbox \ resets, \A r \in resets : r < i
      PROVE  SameMarket(inbox[i].frame.feed, active)
    BY <1>2 DEF GateInv, LastFramesOwn
<1>3. ASSUME resets = {}, NEW f \in gate.pending \union gate.guard.queue
      PROVE  SameMarket(f.feed, active)
    BY <1>3 DEF GateInv, GateOwn, FeedsIn
<1> QED
    BY <1>1, <1>2, <1>3, Zenon DEF GateHoldsThisMarket

LEMMA MessageKinds ==
    ASSUME NEW m \in Messages
    PROVE  m.type = "reset" \/ (m.type # "reset" /\ m.frame \in Frames)
BY DEF Messages, Reset, FrameMessage

LEMMA EmptyGateIsAwake ==
    EmptyGate \in Gates /\ Awake(EmptyGate) /\ FeedsIn(EmptyGate) = {}
<1>1. EmptyGuard \in Guards /\ EmptyGuard.queue = {}
    BY DEF EmptyGuard, Guards, NoSeq, NoGap
<1>2. EmptyGate.guard = EmptyGuard /\ EmptyGate.pending = {} /\ EmptyGate \in Gates
    BY <1>1 DEF EmptyGate, Gates, Off
<1>3. Live(EmptyGuard) = {}
    BY <1>1 DEF Live
<1> QED
    BY <1>1, <1>2, <1>3 DEF Awake, FeedsIn

LEMMA GateInvInit == GateInit => GateInv
<1> SUFFICES ASSUME GateInit PROVE GateInv
    OBVIOUS
<1>1. GateShape
    BY EmptyGateIsAwake DEF GateInit, GateShape
<1>2. Awake(gate) /\ GateOwn
    BY EmptyGateIsAwake DEF GateInit, GateOwn
<1>3. LastFramesOwn
    BY DEF GateInit, LastFramesOwn
<1> QED
    BY <1>1, <1>2, <1>3 DEF GateInv

(* With a reset at its end the channel holds no frame behind the reset.    *)
LEMMA ClearKeeps ==
    ASSUME GateInv, ClearRenderGate,
           active' \in Feeds \union {NoFeed}, lastSeq' = NoSeq, UNCHANGED worker
    PROVE  GateInv'
<1> USE DEF GateInv, GateShape
<1>1. CASE worker
    <2>1. inbox' = Append(inbox, Reset) /\ gate' = gate
        BY <1>1 DEF ClearRenderGate
    <2>2. inbox' \in Seq(Messages) /\ Len(inbox') = Len(inbox) + 1
          /\ inbox'[Len(inbox) + 1] = Reset /\ DOMAIN inbox' = 1 .. Len(inbox) + 1
        BY <2>1 DEF Messages
    <2>3. Len(inbox) \in Nat /\ Reset.type = "reset"
        BY DEF Reset
    <2>4. GateShape'
        BY <1>1, <2>1, <2>2
    <2>5. GateOwn'
        BY <2>2, <2>3 DEF GateOwn
    <2>6. LastFramesOwn'
        <3> SUFFICES ASSUME NEW i \in DOMAIN inbox', inbox'[i].type # "reset",
                            \A r \in DOMAIN inbox' : inbox'[r].type = "reset" => r < i
                     PROVE  FALSE
            BY DEF LastFramesOwn
        <3>1. i \in 1 .. Len(inbox) + 1 /\ Len(inbox) + 1 < i
            BY <2>2, <2>3
        <3> QED
            BY <2>3, <3>1
    <2> QED
        BY <2>1, <2>4, <2>5, <2>6
<1>2. CASE ~worker
    <2>1. inbox = <<>> /\ inbox' = <<>> /\ gate' = EmptyGate /\ DOMAIN inbox' = {}
        BY <1>2 DEF ClearRenderGate
    <2>2. GateShape'
        BY <1>2, <2>1, EmptyGateIsAwake
    <2>3. Awake(gate)' /\ GateOwn'
        BY <2>1, EmptyGateIsAwake DEF GateOwn
    <2>4. LastFramesOwn'
        BY <2>1 DEF LastFramesOwn
    <2> QED
        BY <2>2, <2>3, <2>4
<1> QED
    BY <1>1, <1>2

LEMMA ConfigureKeeps == GateInv /\ Configure => GateInv'
<1> SUFFICES ASSUME GateInv, Configure PROVE GateInv'
    OBVIOUS
<1>1. ASSUME NEW feed \in Feeds, ConnectMarket(feed) PROVE GateInv'
    BY <1>1, ClearKeeps DEF ConnectMarket
<1>2. CASE Disconnect
    BY <1>2, ClearKeeps DEF Disconnect
<1>3. ASSUME NEW feed \in Feeds, SwitchTimeframe(feed) PROVE GateInv'
    <2>1. \A x : SameMarket(x, active) => SameMarket(x, active')
        BY <1>3 DEF SwitchTimeframe, SameMarket
    <2>2. UNCHANGED <<worker, gate, inbox, lastSeq>> /\ active' \in Feeds
        BY <1>3 DEF SwitchTimeframe
    <2>3. GateShape' /\ Awake(gate)'
        BY <2>2 DEF GateInv, GateShape
    <2>4. LastFramesOwn'
        BY <2>1, <2>2 DEF GateInv, LastFramesOwn
    <2>5. GateOwn'
        BY <2>1, <2>2 DEF GateInv, GateOwn
    <2> QED
        BY <2>3, <2>4, <2>5 DEF GateInv
<1> QED
    BY <1>1, <1>2, <1>3 DEF Configure

(* A frame of the active feed joins the channel, or the gate of the bus.   *)
LEMMA GatedKeeps ==
    ASSUME GateInv, active # NoFeed, NEW seq \in 0 .. MaxSeq \union {NoSeq},
           NEW atomic \in BOOLEAN, Gated(seq, atomic),
           lastSeq' \in 0 .. MaxSeq \union {NoSeq}, UNCHANGED <<worker, active>>
    PROVE  GateInv'
<1> DEFINE frame == [feed |-> active, seq |-> seq, atomic |-> atomic, age |-> 0]
<1>1. frame \in Frames /\ frame.feed = active /\ SameMarket(active, active)
    BY TimerAssumption DEF GateInv, GateShape, Frames, SameMarket
<1>2. \/ worker /\ inbox' = Append(inbox, FrameMessage(frame)) /\ UNCHANGED gate
      \/ /\ ~worker /\ UNCHANGED inbox
         /\ \E grace \in GraceWindows : gate' = QueueFrame(gate, frame, grace)
    BY DEF Gated
<1> HIDE DEF frame
<1> USE DEF GateInv, GateShape
<1>3. CASE worker /\ inbox' = Append(inbox, FrameMessage(frame)) /\ UNCHANGED gate
    <2>1. FrameMessage(frame) \in Messages /\ FrameMessage(frame).type # "reset"
          /\ FrameMessage(frame).frame = frame
        BY <1>1 DEF Messages, FrameMessage
    <2> DEFINE n == Len(inbox) + 1
    <2>2. /\ inbox' \in Seq(Messages) /\ DOMAIN inbox' = 1 .. n
          /\ DOMAIN inbox = 1 .. Len(inbox) /\ Len(inbox) \in Nat
          /\ \A i \in 1 .. Len(inbox) : inbox'[i] = inbox[i]
          /\ inbox'[n] = FrameMessage(frame)
        BY <1>3, <2>1
    <2>3. GateShape'
        BY <1>3, <2>2
    <2>4. GateOwn'
        BY <1>3, <2>2 DEF GateOwn
    <2>5. LastFramesOwn'
        <3> SUFFICES ASSUME NEW i \in DOMAIN inbox', inbox'[i].type # "reset",
                            \A r \in DOMAIN inbox' : inbox'[r].type = "reset" => r < i
                     PROVE  SameMarket(inbox'[i].frame.feed, active')
            BY DEF LastFramesOwn
        <3>1. CASE i = n
            BY <1>1, <2>1, <2>2, <3>1
        <3>2. CASE i \in 1 .. Len(inbox)
            <4>1. \A r \in DOMAIN inbox : inbox[r].type = "reset" => r < i
                BY <2>2
            <4> QED
                BY <2>2, <3>2, <4>1 DEF LastFramesOwn
        <3> QED
            BY <2>2, <3>1, <3>2
    <2> QED
        BY <1>3, <2>3, <2>4, <2>5
<1>4. ASSUME ~worker, UNCHANGED inbox,
             NEW grace \in GraceWindows, gate' = QueueFrame(gate, frame, grace)
      PROVE  GateInv'
    <2>1. /\ gate' \in Gates /\ Awake(gate')
          /\ FeedsIn(gate') \subseteq FeedsIn(gate) \union {frame.feed}
        BY <1>1, <1>4, QueueFrameKeepsAwake
    <2>2. GateShape'
        BY <1>4, <2>1
    <2>3. LastFramesOwn'
        BY <1>4 DEF LastFramesOwn
    <2>4. GateOwn'
        BY <1>1, <1>4, <2>1 DEF GateOwn
    <2> QED
        BY <2>1, <2>2, <2>3, <2>4
<1> QED
    BY <1>2, <1>3, <1>4

(* The gate moves, the channel stays.                                      *)
LEMMA GateMovesAlone ==
    ASSUME GateInv, UNCHANGED <<worker, active, inbox, lastSeq>>,
           gate' \in Gates, Awake(gate'), FeedsIn(gate') \subseteq FeedsIn(gate)
    PROVE  GateInv'
<1>1. GateShape'
    BY DEF GateInv, GateShape
<1>2. LastFramesOwn'
    BY DEF GateInv, LastFramesOwn
<1>3. GateOwn'
    BY DEF GateInv, GateOwn
<1> QED
    BY <1>1, <1>2, <1>3 DEF GateInv

LEMMA WorkerReceivesKeeps == GateInv /\ WorkerReceives => GateInv'
<1> SUFFICES ASSUME GateInv, WorkerReceives PROVE GateInv'
    OBVIOUS
<1> DEFINE message == inbox[1]
<1> USE DEF GateInv, GateShape
<1>1. /\ worker /\ inbox # <<>> /\ inbox' = Tail(inbox)
      /\ UNCHANGED <<worker, active, lastSeq>>
    BY DEF WorkerReceives
<1>2. /\ message \in Messages /\ inbox' \in Seq(Messages)
      /\ DOMAIN inbox = 1 .. Len(inbox) /\ Len(inbox) \in Nat \ {0}
      /\ DOMAIN inbox' = 1 .. Len(inbox) - 1
      /\ \A i \in DOMAIN inbox' : i + 1 \in DOMAIN inbox /\ inbox'[i] = inbox[i + 1]
    BY <1>1
<1>3. \A r \in DOMAIN inbox : r = 1 \/ (r - 1 \in DOMAIN inbox' /\ inbox'[r - 1] = inbox[r])
    BY <1>2
<1>4. \/ message.type = "reset" /\ gate' = EmptyGate
      \/ /\ message.type # "reset" /\ message.frame \in Frames
         /\ \E grace \in GraceWindows : gate' = QueueFrame(gate, message.frame, grace)
    BY <1>2, MessageKinds DEF WorkerReceives
<1>5. /\ gate' \in Gates /\ Awake(gate')
      /\ \/ message.type = "reset" /\ FeedsIn(gate') = {}
         \/ /\ message.type # "reset"
            /\ FeedsIn(gate') \subseteq FeedsIn(gate) \union {message.frame.feed}
    <2>1. CASE message.type = "reset" /\ gate' = EmptyGate
        BY <2>1, EmptyGateIsAwake
    <2>2. ASSUME message.type # "reset", message.frame \in Frames,
                 NEW grace \in GraceWindows, gate' = QueueFrame(gate, message.frame, grace)
          PROVE  /\ gate' \in Gates /\ Awake(gate')
                 /\ FeedsIn(gate') \subseteq FeedsIn(gate) \union {message.frame.feed}
        <3> DEFINE frame == message.frame
        <3>1. frame \in Frames /\ gate' = QueueFrame(gate, frame, grace)
            BY <2>2
        <3> HIDE DEF frame
        <3>2. /\ gate' \in Gates /\ Awake(gate')
              /\ FeedsIn(gate') \subseteq FeedsIn(gate) \union {frame.feed}
            BY <3>1, QueueFrameKeepsAwake
        <3> QED
            BY <3>2 DEF frame
    <2> QED
        BY <1>4, <2>1, <2>2
<1> HIDE DEF message
<1>6. GateShape'
    BY <1>1, <1>2, <1>5
<1>7. LastFramesOwn'
    <2> SUFFICES ASSUME NEW i \in DOMAIN inbox', inbox'[i].type # "reset",
                        \A r \in DOMAIN inbox' : inbox'[r].type = "reset" => r < i
                 PROVE  SameMarket(inbox'[i].frame.feed, active')
        BY DEF LastFramesOwn
    <2>1. i + 1 \in DOMAIN inbox /\ inbox'[i] = inbox[i + 1] /\ i \in Nat \ {0}
        BY <1>2
    <2>2. \A r \in DOMAIN inbox : inbox[r].type = "reset" => r < i + 1
        BY <1>2, <1>3, <2>1, SMTT(30)
    <2> QED
        BY <1>1, <2>1, <2>2 DEF LastFramesOwn
<1>8. GateOwn'
    <2> SUFFICES ASSUME \A r \in DOMAIN inbox' : inbox'[r].type # "reset",
                        NEW x \in FeedsIn(gate')
                 PROVE  SameMarket(x, active)
        BY <1>1 DEF GateOwn
    <2>1. message.type # "reset" /\ x \in FeedsIn(gate) \union {message.frame.feed}
        BY <1>5
    <2>2. \A r \in DOMAIN inbox : inbox[r].type # "reset"
        BY <1>3, <2>1 DEF message
    <2>3. CASE x \in FeedsIn(gate)
        BY <2>2, <2>3 DEF GateOwn
    <2>4. CASE x = message.frame.feed
        BY <1>2, <2>2, <2>4 DEF LastFramesOwn, message
    <2> QED
        BY <2>1, <2>3, <2>4
<1> QED
    BY <1>5, <1>6, <1>7, <1>8

LEMMA TickKeepsGate == GateInv /\ Tick => GateInv'
<1> SUFFICES ASSUME GateInv, Tick PROVE GateInv'
    OBVIOUS
<1> USE DEF GateInv, GateShape
<1>1. gate' = OlderGate(gate) /\ UNCHANGED <<worker, active, lastSeq>>
    BY DEF Tick
<1>2. gate' \in Gates /\ Awake(gate') /\ FeedsIn(gate') \subseteq FeedsIn(gate)
    BY <1>1, OlderGateKeepsAwake
<1>3. \A i \in DOMAIN inbox :
          /\ inbox'[i] \in Messages
          /\ inbox'[i].type = "reset" <=> inbox[i].type = "reset"
          /\ inbox[i].type # "reset" => inbox'[i].frame.feed = inbox[i].frame.feed
    <2> SUFFICES ASSUME NEW i \in DOMAIN inbox
                 PROVE  /\ inbox'[i] \in Messages
                        /\ inbox'[i].type = "reset" <=> inbox[i].type = "reset"
                        /\ inbox[i].type # "reset" => inbox'[i].frame.feed = inbox[i].frame.feed
        OBVIOUS
    <2>1. inbox'[i] = IF inbox[i].type = "reset" THEN inbox[i]
                      ELSE FrameMessage(OlderFrame(inbox[i].frame))
        BY DEF Tick
    <2>2. inbox[i] \in Messages
        OBVIOUS
    <2>3. CASE inbox[i].type = "reset"
        BY <2>1, <2>2, <2>3
    <2>4. CASE inbox[i].type # "reset"
        <3> DEFINE older == OlderFrame(inbox[i].frame)
        <3>1. older \in Frames /\ older.feed = inbox[i].frame.feed
            BY <2>2, <2>4, MessageKinds, OlderFrameStays
        <3>2. inbox'[i] = FrameMessage(older)
            BY <2>1, <2>4
        <3> HIDE DEF older
        <3> QED
            BY <2>4, <3>1, <3>2 DEF Messages, FrameMessage
    <2> QED
        BY <2>3, <2>4
<1>4. inbox' \in Seq(Messages) /\ DOMAIN inbox' = DOMAIN inbox
    <2>1. DOMAIN inbox' = DOMAIN inbox /\ inbox' = [i \in DOMAIN inbox |-> inbox'[i]]
        BY DEF Tick
    <2>2. DOMAIN inbox = 1 .. Len(inbox) /\ Len(inbox) \in Nat
        OBVIOUS
    <2>3. inbox' \in [1 .. Len(inbox) -> Messages]
        BY <1>3, <2>1, <2>2
    <2> QED
        BY <2>1, <2>2, <2>3
<1>5. GateShape'
    <2>1. ~worker => inbox' = <<>>
        BY <1>4
    <2> QED
        BY <1>1, <1>2, <1>4, <2>1
<1>6. LastFramesOwn'
    BY <1>1, <1>3, <1>4 DEF LastFramesOwn
<1>7. GateOwn'
    BY <1>1, <1>2, <1>3, <1>4 DEF GateOwn
<1> QED
    BY <1>2, <1>5, <1>6, <1>7

LEMMA GateInvStep == GateInv /\ [GateNext]_framePathVars => GateInv'
<1> SUFFICES ASSUME GateInv, [GateNext]_framePathVars PROVE GateInv'
    OBVIOUS
<1>1. CASE Configure
    BY <1>1, ConfigureKeeps
<1>2. CASE DepthMessage
    <2>1. PICK seq \in 0 .. MaxSeq \union {NoSeq} :
              /\ lastSeq' = IF seq = NoSeq THEN lastSeq ELSE seq
              /\ Gated(lastSeq', TRUE)
        BY <1>2 DEF DepthMessage
    <2>2. lastSeq' \in 0 .. MaxSeq \union {NoSeq}
        BY <2>1 DEF GateInv, GateShape
    <2>3. active # NoFeed /\ UNCHANGED <<worker, active>>
        BY <1>2 DEF DepthMessage
    <2>4. ASSUME NEW s \in 0 .. MaxSeq \union {NoSeq}, s = lastSeq' PROVE GateInv'
        <3>1. Gated(s, TRUE) /\ lastSeq' \in 0 .. MaxSeq \union {NoSeq}
            BY <2>1, <2>2, <2>4
        <3> QED
            BY <2>3, <3>1, GatedKeeps
    <2> QED
        BY <2>2, <2>4
<1>3. CASE TradeDrain
    <2>1. PICK atomic \in BOOLEAN : Gated(lastSeq, atomic)
        BY <1>3 DEF TradeDrain
    <2>2. lastSeq \in 0 .. MaxSeq \union {NoSeq} /\ lastSeq' \in 0 .. MaxSeq \union {NoSeq}
        BY <1>3 DEF TradeDrain, GateInv, GateShape
    <2>3. active # NoFeed /\ UNCHANGED <<worker, active>>
        BY <1>3 DEF TradeDrain
    <2> QED
        BY <2>1, <2>2, <2>3, GatedKeeps
<1>4. CASE WorkerReceives
    BY <1>4, WorkerReceivesKeeps
<1>5. CASE GateTimer
    <2>1. PICK grace \in GraceWindows : gate' = Flush(gate, grace)
        BY <1>5 DEF GateTimer
    <2>2. gate' \in Gates /\ Awake(gate') /\ FeedsIn(gate') \subseteq FeedsIn(gate)
        BY <2>1, FlushKeepsAwake DEF GateInv, GateShape
    <2> QED
        BY <1>5, <2>2, GateMovesAlone DEF GateTimer
<1>6. CASE SequenceTimer
    <2> DEFINE fired == [gate EXCEPT !.seqIn = Off]
    <2>1. PICK grace \in GraceWindows : gate' = Advance(fired, grace)
        BY <1>6 DEF SequenceTimer
    <2>2. /\ fired \in Gates /\ fired.pending = gate.pending
          /\ fired.gateIn = gate.gateIn /\ fired.guard = gate.guard
        BY DEF GateInv, GateShape, Gates
    <2>3. fired.pending # {} => fired.gateIn # Off
        BY <2>2 DEF GateInv, Awake
    <2>4. FeedsIn(fired) = FeedsIn(gate)
        BY <2>2 DEF FeedsIn
    <2> HIDE DEF fired
    <2>5. gate' \in Gates /\ Awake(gate') /\ FeedsIn(gate') \subseteq FeedsIn(gate)
        BY <2>1, <2>2, <2>3, <2>4, AdvanceKeepsAwake
    <2> QED
        BY <1>6, <2>5, GateMovesAlone DEF SequenceTimer
<1>7. CASE WorkerError
    <2>1. /\ worker' = FALSE /\ gate' = EmptyGate /\ inbox' = <<>> /\ DOMAIN inbox' = {}
          /\ UNCHANGED <<active, lastSeq>>
        BY <1>7 DEF WorkerError
    <2>2. GateShape'
        <3>1. inbox' \in Seq(Messages)
            BY <2>1
        <3>2. gate' \in Gates
            BY <2>1, EmptyGateIsAwake
        <3>3. worker' \in BOOLEAN
            BY <2>1
        <3>4. /\ active' \in Feeds \union {NoFeed}
              /\ lastSeq' \in 0 .. MaxSeq \union {NoSeq}
            BY <2>1 DEF GateInv, GateShape
        <3> QED
            BY <2>1, <3>1, <3>2, <3>3, <3>4 DEF GateShape
    <2>3. Awake(gate)' /\ GateOwn'
        BY <2>1, EmptyGateIsAwake DEF GateOwn
    <2>4. LastFramesOwn'
        BY <2>1 DEF LastFramesOwn
    <2> QED
        BY <2>2, <2>3, <2>4 DEF GateInv
<1>8. CASE Tick
    BY <1>8, TickKeepsGate
<1>9. CASE \/ PublishNow \/ WorkerEvent \/ RefreshFallsBack
           \/ (\E feed \in Feeds : FallbackPublishes(feed)) \/ UNCHANGED framePathVars
    <2>1. UNCHANGED <<worker, active, gate, inbox, lastSeq>>
        BY <1>9 DEF PublishNow, WorkerEvent, RefreshFallsBack, FallbackPublishes,
                    framePathVars, gateVars
    <2> QED
        BY <2>1 DEF GateInv, GateShape, LastFramesOwn, GateOwn
<1> QED
    BY <1>1, <1>2, <1>3, <1>4, <1>5, <1>6, <1>7, <1>8, <1>9 DEF GateNext

(* For any feeds and markets: what waits in the gate has its timer, and    *)
(* what is behind the last reset is of the market of the active feed.      *)
THEOREM GateInvAlways == GateSpec => []GateInv
<1>1. GateInit => GateInv
    BY GateInvInit
<1>2. GateInv /\ [GateNext]_framePathVars => GateInv'
    BY GateInvStep
<1> QED
    BY <1>1, <1>2, PTL DEF GateSpec

(* Whatever the buffer, the timeouts and the feeds, what the gate or its   *)
(* queue holds always has the timer that will move it.                     *)
THEOREM HeldFramesHaveTimers == GateSpec => []NoLostWakeup
<1>1. GateInv => NoLostWakeup
    BY GateInvImplies
<1> QED
    BY <1>1, GateInvAlways, PTL

(* For any feeds and markets, frames of a market that connect() has left   *)
(* are only in front of the last reset on its way to the worker.           *)
THEOREM OldMarketStaysOut == GateSpec => []GateHoldsThisMarket
<1>1. GateInv => GateHoldsThisMarket
    BY GateInvImplies
<1> QED
    BY <1>1, GateInvAlways, PTL

(* While the worker lives a feed that is not active has a latest frame     *)
(* only from a refresh that had checked the feed while it was active: no   *)
(* late frame of the worker brings back what was cleared.                  *)
THEOREM ClearedFeedsStayCleared == GateSpec => []StaleFeedsByRefreshOnly
<1>1. GateInit => StaleFeedsByRefreshOnly
    BY DEF GateInit, StaleFeedsByRefreshOnly
<1>2. StaleFeedsByRefreshOnly /\ [GateNext]_framePathVars => StaleFeedsByRefreshOnly'
    <2> SUFFICES ASSUME StaleFeedsByRefreshOnly, [GateNext]_framePathVars
                 PROVE  StaleFeedsByRefreshOnly'
        OBVIOUS
    <2> USE DEF StaleFeedsByRefreshOnly
    <2>1. CASE Configure
        BY <2>1 DEF Configure, ConnectMarket, SwitchTimeframe, Disconnect, ClearChartFrame
    <2>2. CASE PublishNow \/ WorkerEvent
        BY <2>2 DEF PublishNow, WorkerEvent, refreshVars
    <2>3. CASE \E feed \in Feeds : FallbackPublishes(feed)
        BY <2>3 DEF FallbackPublishes
    <2>4. CASE RefreshFallsBack
        BY <2>4 DEF RefreshFallsBack, gateVars
    <2>5. CASE GateTimer \/ WorkerError
        BY <2>5 DEF GateTimer, WorkerError, refreshVars
    <2>6. CASE \/ DepthMessage \/ TradeDrain \/ WorkerReceives
              \/ SequenceTimer \/ Tick \/ UNCHANGED framePathVars
        BY <2>6 DEF DepthMessage, TradeDrain, WorkerReceives, SequenceTimer, Tick,
                    framePathVars, gateVars, refreshVars
    <2> QED
        BY <2>1, <2>2, <2>3, <2>4, <2>5, <2>6 DEF GateNext
<1> QED
    BY <1>1, <1>2, PTL DEF GateSpec

-----------------------------------------------------------------------------
(* The rollback guard of the auto-tuning write-back.                        *)

(* What the file and its rewriting may hold.                               *)
RollbackStates == [active : GuardSessions \union {NoSession}, history : SUBSET GuardSessions]

(* Where a request may be, what it may ask for, and what it carries.       *)
RollbackPhases == {"idle", "reading", "opening", "writing"}
RollbackActions == {"none", "start", "observe", "close", "poll"}
RollbackHandlers == [phase : RollbackPhases, action : RollbackActions,
                  session : GuardSessions \union {NoSession}, next : RollbackStates]

(* The file holds a state, requests are well formed and start a session of *)
(* the strategies; no session is over before it was started.               *)
RollbackInv ==
    /\ guardFile \in RollbackStates
    /\ handler \in [Handlers -> RollbackHandlers]
    /\ elapsed \subseteq GuardSessions /\ unstarted \subseteq GuardSessions
    /\ elapsed \intersect unstarted = {}
    /\ \A h \in Handlers : handler[h].action = "start" => handler[h].session \in GuardSessions

(* Who may still bring a session into the file: a request to start it,     *)
(* before it has read the file, and one about to write back a state it is  *)
(* active in.                                                              *)
Starting(h, s) ==
    handler[h].phase = "reading" /\ handler[h].action = "start" /\ handler[h].session = s
Rewriting(h, s) ==
    handler[h].phase \in {"opening", "writing"} /\ handler[h].next.active = s

Carriers(s) == {h \in Handlers : Starting(h, s) \/ Rewriting(h, s)}

(* A session whose window is over stays over, nobody comes to carry it who *)
(* did not, and a request that brings it back into the file is done with   *)
(* it: getRollbackGuardState closes it on the next read, and only a        *)
(* request that was under way can undo that, once.                         *)
WindowStaysEnded ==
    \A s \in elapsed :
        /\ s \in elapsed'
        /\ Carriers(s)' \subseteq Carriers(s)
        /\ guardFile'.active = s /\ guardFile.active # s => Carriers(s)' # Carriers(s)

(* The empty file and the idle request are of their kinds.                 *)
LEMMA NoStateIsState == NoState \in RollbackStates /\ NoRequest \in RollbackHandlers
BY DEF NoState, NoRequest, RollbackStates, RollbackHandlers, RollbackPhases, RollbackActions

(* The guard starts with an empty file and no request.                     *)
LEMMA RollbackInvInit == RollbackInit => RollbackInv
BY NoStateIsState DEF RollbackInit, RollbackInv, NoRequest

(* What a request writes back: the session it starts, or the one it read;  *)
(* never one that has expired.                                             *)
LEMMA ChangedIsState ==
    ASSUME NEW action, NEW session \in GuardSessions \union {NoSession}, NEW state \in RollbackStates,
           Writes(action, state)
    PROVE  /\ Changed(action, session, state) \in RollbackStates
           /\ action = "start" => Changed(action, session, state).active = session
           /\ action # "start" =>
                 /\ Changed(action, session, state).active \in {state.active, NoSession}
                 /\ Expired(state) => Changed(action, session, state).active = NoSession
<1>1. state.active \in GuardSessions \union {NoSession} /\ state.history \in SUBSET GuardSessions
    BY DEF RollbackStates
<1>2. CASE action = "start"
    <2>1. Changed(action, session, state) = [state EXCEPT !.active = session]
        BY <1>2 DEF Changed
    <2> QED
        BY <1>2, <2>1 DEF RollbackStates
<1>3. CASE action # "start"
    <2>1. state.active # NoSession
        BY <1>3 DEF Writes
    <2>2. Closed(state) \in RollbackStates /\ Closed(state).active = NoSession
        BY <1>1, <2>1 DEF Closed, RollbackStates
    <2>3. CASE Expired(state)
        BY <1>3, <2>2, <2>3 DEF Changed
    <2>4. CASE ~Expired(state) /\ action = "close"
        BY <1>3, <2>2, <2>4 DEF Changed
    <2>5. CASE ~Expired(state) /\ action # "close"
        <3>1. Changed(action, session, state) = state
            BY <1>3, <2>5 DEF Changed
        <3> QED
            BY <1>3, <2>5, <3>1
    <2> QED
        BY <2>3, <2>4, <2>5
<1> QED
    BY <1>2, <1>3

(* A new request carries nothing, and starts only a session that was never *)
(* started.                                                                *)
LEMMA RequestKeeps ==
    ASSUME RollbackInv, NEW h \in Handlers, NEW action \in RollbackActions,
           NEW session \in GuardSessions \union {NoSession},
           action = "start" => session \in unstarted,
           Request(h, action, session),
           unstarted' \subseteq unstarted
    PROVE  RollbackInv' /\ WindowStaysEnded
<1> DEFINE r == [NoRequest EXCEPT !.phase = "reading", !.action = action, !.session = session]
<1>1. /\ r \in RollbackHandlers /\ r.phase = "reading" /\ r.action = action /\ r.session = session
    BY NoStateIsState DEF NoRequest, RollbackHandlers, RollbackPhases
<1>2. handler' = [handler EXCEPT ![h] = r] /\ UNCHANGED <<guardFile, elapsed>>
    BY DEF Request
<1> HIDE DEF r
<1>3. handler' \in [Handlers -> RollbackHandlers] /\ handler'[h] = r
      /\ \A g \in Handlers : g # h => handler'[g] = handler[g]
    BY <1>1, <1>2 DEF RollbackInv
<1>4. RollbackInv'
    BY <1>1, <1>2, <1>3 DEF RollbackInv
<1>5. \A s \in elapsed : s \notin unstarted
    BY DEF RollbackInv
<1>6. \A s \in elapsed : h \notin Carriers(s)'
    BY <1>1, <1>3, <1>5 DEF Carriers, Starting, Rewriting
<1>7. \A s \in elapsed : Carriers(s)' \subseteq Carriers(s)
    BY <1>3, <1>6 DEF Carriers, Starting, Rewriting
<1> QED
    BY <1>2, <1>4, <1>7 DEF WindowStaysEnded

(* A read decides what will be written; an expired session is not in it.   *)
LEMMA ReadFileKeeps ==
    ASSUME RollbackInv, NEW h \in Handlers, ReadFile(h)
    PROVE  RollbackInv' /\ WindowStaysEnded
<1> DEFINE r == handler[h]
           next == Changed(r.action, r.session, guardFile)
           r2 == [r EXCEPT !.phase = "opening", !.next = next]
<1>1. /\ r \in RollbackHandlers /\ r.phase = "reading" /\ guardFile \in RollbackStates
      /\ r.session \in GuardSessions \union {NoSession}
      /\ UNCHANGED <<guardFile, elapsed, unstarted>>
    BY DEF ReadFile, RollbackInv, RollbackHandlers
<1>2. CASE ~Writes(r.action, guardFile)
    <2>1. handler' = [handler EXCEPT ![h] = NoRequest]
        BY <1>2 DEF ReadFile
    <2>2. handler'[h] = NoRequest /\ \A g \in Handlers : g # h => handler'[g] = handler[g]
        BY <2>1 DEF RollbackInv
    <2>3. RollbackInv'
        BY <1>1, <2>1, <2>2, NoStateIsState DEF RollbackInv, NoRequest
    <2>4. \A s \in elapsed : Carriers(s)' \subseteq Carriers(s)
        BY <2>2 DEF Carriers, Starting, Rewriting, NoRequest
    <2> QED
        BY <1>1, <2>3, <2>4 DEF WindowStaysEnded
<1>3. CASE Writes(r.action, guardFile)
    <2>1. handler' = [handler EXCEPT ![h] = r2]
        BY <1>3 DEF ReadFile
    <2>2. /\ next \in RollbackStates
          /\ r.action = "start" => next.active = r.session
          /\ r.action # "start" =>
                /\ next.active \in {guardFile.active, NoSession}
                /\ Expired(guardFile) => next.active = NoSession
        BY <1>1, <1>3, ChangedIsState
    <2> HIDE DEF next
    <2>3. /\ r2 \in RollbackHandlers /\ r2.phase = "opening" /\ r2.next = next
          /\ r2.action = r.action /\ r2.session = r.session
        BY <1>1, <2>2 DEF RollbackHandlers, RollbackPhases
    <2> HIDE DEF r2
    <2>4. handler'[h] = r2 /\ \A g \in Handlers : g # h => handler'[g] = handler[g]
        BY <2>1 DEF RollbackInv
    <2>5. RollbackInv'
        BY <1>1, <2>1, <2>3, <2>4 DEF RollbackInv
    <2>6. ASSUME NEW s \in elapsed, h \in Carriers(s)' PROVE h \in Carriers(s)
        <3>1. next.active = s
            BY <2>3, <2>4, <2>6 DEF Carriers, Starting, Rewriting
        <3>2. s # NoSession
            BY GuardAssumption DEF RollbackInv
        <3>3. r.action = "start" /\ r.session = s
            BY <2>2, <3>1, <3>2 DEF Expired
        <3> QED
            BY <1>1, <3>3 DEF Carriers, Starting
    <2>7. \A s \in elapsed : Carriers(s)' \subseteq Carriers(s)
        BY <2>4, <2>6 DEF Carriers, Starting, Rewriting
    <2> QED
        BY <1>1, <2>5, <2>7 DEF WindowStaysEnded
<1> QED
    BY <1>2, <1>3

(* Opening the file for writing empties it.                                *)
LEMMA OpenFileKeeps ==
    ASSUME RollbackInv, NEW h \in Handlers, OpenFile(h)
    PROVE  RollbackInv' /\ WindowStaysEnded
<1> DEFINE r == [handler[h] EXCEPT !.phase = "writing"]
<1>1. /\ handler[h] \in RollbackHandlers /\ handler[h].phase = "opening"
      /\ handler' = [handler EXCEPT ![h] = r]
      /\ guardFile' = NoState /\ UNCHANGED <<elapsed, unstarted>>
    BY DEF OpenFile, RollbackInv
<1>2. /\ r \in RollbackHandlers /\ r.phase = "writing" /\ r.next = handler[h].next
      /\ r.action = handler[h].action /\ r.session = handler[h].session
    BY <1>1 DEF RollbackHandlers, RollbackPhases
<1> HIDE DEF r
<1>3. handler'[h] = r /\ \A g \in Handlers : g # h => handler'[g] = handler[g]
    BY <1>1 DEF RollbackInv
<1>4. RollbackInv'
    BY <1>1, <1>2, <1>3, NoStateIsState DEF RollbackInv
<1>5. \A s : Carriers(s)' = Carriers(s)
    BY <1>1, <1>2, <1>3 DEF Carriers, Starting, Rewriting
<1>6. \A s \in elapsed : guardFile'.active # s
    BY <1>1, GuardAssumption DEF RollbackInv, NoState
<1> QED
    BY <1>1, <1>4, <1>5, <1>6 DEF WindowStaysEnded

(* The write brings back what was read, and the request is done.           *)
LEMMA WriteFileKeeps ==
    ASSUME RollbackInv, NEW h \in Handlers, WriteFile(h)
    PROVE  RollbackInv' /\ WindowStaysEnded
<1>1. /\ handler[h] \in RollbackHandlers /\ handler[h].phase = "writing"
      /\ handler' = [handler EXCEPT ![h] = NoRequest]
      /\ guardFile' \in {handler[h].next, NoState} /\ UNCHANGED <<elapsed, unstarted>>
    BY DEF WriteFile, RollbackInv
<1>2. handler'[h] = NoRequest /\ \A g \in Handlers : g # h => handler'[g] = handler[g]
    BY <1>1 DEF RollbackInv
<1>3. handler[h].next \in RollbackStates
    BY <1>1 DEF RollbackHandlers
<1>4. RollbackInv'
    BY <1>1, <1>2, <1>3, NoStateIsState DEF RollbackInv, NoRequest
<1>5. \A s : Carriers(s)' = Carriers(s) \ {h}
    BY <1>2 DEF Carriers, Starting, Rewriting, NoRequest
<1>6. ASSUME NEW s \in elapsed, guardFile'.active = s PROVE h \in Carriers(s)
    <2>1. NoState.active # s
        BY GuardAssumption DEF RollbackInv, NoState
    <2> QED
        BY <1>1, <1>6, <2>1 DEF Carriers, Rewriting
<1> QED
    BY <1>1, <1>4, <1>5, <1>6 DEF WindowStaysEnded

(* Action by action: the invariant, and what it does to sessions that are  *)
(* over.                                                                   *)
LEMMA RollbackStepKeeps ==
    ASSUME RollbackInv, [RollbackNext]_rollbackVars
    PROVE  RollbackInv' /\ WindowStaysEnded
<1>1. ASSUME NEW h \in Handlers, RollbackStep(h) PROVE RollbackInv' /\ WindowStaysEnded
    BY <1>1, ReadFileKeeps, OpenFileKeeps, WriteFileKeeps DEF RollbackStep
<1>2. ASSUME NEW h \in GuardRequests, Observe(h) \/ CloseSession(h)
      PROVE  RollbackInv' /\ WindowStaysEnded
    BY <1>2, RequestKeeps DEF Observe, CloseSession, Handlers, RollbackActions
<1>3. ASSUME NEW h \in GuardRequests, NEW s \in GuardSessions, StartSession(h, s)
      PROVE  RollbackInv' /\ WindowStaysEnded
    BY <1>3, RequestKeeps DEF StartSession, Handlers, RollbackActions
<1>4. CASE PollSession
    BY <1>4, RequestKeeps DEF PollSession, Handlers, RollbackActions
<1>5. ASSUME NEW s \in GuardSessions, WindowElapses(s) PROVE RollbackInv' /\ WindowStaysEnded
    BY <1>5 DEF WindowElapses, RollbackInv, WindowStaysEnded, Carriers, Starting, Rewriting
<1>6. CASE UNCHANGED rollbackVars
    BY <1>6 DEF rollbackVars, RollbackInv, WindowStaysEnded, Carriers, Starting, Rewriting
<1> QED
    BY <1>1, <1>2, <1>3, <1>4, <1>5, <1>6 DEF RollbackNext

(* The file and the requests keep their shape, for any sessions and any    *)
(* number of overlapping requests.                                         *)
THEOREM RollbackInvariant == RollbackSpec => []RollbackInv
BY RollbackInvInit, RollbackStepKeeps, PTL DEF RollbackSpec

(* The type invariant of the rollback guard.                               *)
THEOREM RollbackTypeCorrect == RollbackSpec => []RollbackTypeOK
<1>1. RollbackInv => RollbackTypeOK
    BY DEF RollbackInv, RollbackStates, RollbackTypeOK
<1> QED
    BY <1>1, RollbackInvariant, PTL

(* However the requests of the pages overlap, a write-back session whose   *)
(* window is over can come back into the file only through a request that  *)
(* was under way, each of them once: what WindowEnds asks for, but for the *)
(* poll of the page coming round.                                          *)
THEOREM EndedWindowsStayEnded == RollbackSpec => [][WindowStaysEnded]_rollbackVars
<1>1. RollbackInv /\ [RollbackNext]_rollbackVars => [WindowStaysEnded]_rollbackVars
    BY RollbackStepKeeps
<1> QED
    BY <1>1, RollbackInvariant, PTL DEF RollbackSpec

(* Neither the file nor a request under way has the session.               *)
Gone(s) == guardFile.active # s /\ Carriers(s) = {}

(* An expired session that is out of the file and of every request under   *)
(* way never comes back.                                                   *)
THEOREM EndedForGood ==
    RollbackSpec => [][\A s \in elapsed : Gone(s) => Gone(s)']_rollbackVars
<1>1. WindowStaysEnded => \A s \in elapsed : Gone(s) => Gone(s)'
    <2> SUFFICES ASSUME WindowStaysEnded, NEW s \in elapsed, Gone(s) PROVE Gone(s)'
        OBVIOUS
    <2>1. Carriers(s)' = {} /\ Carriers(s) = {} /\ guardFile.active # s
        BY DEF WindowStaysEnded, Gone
    <2> QED
        BY <2>1 DEF WindowStaysEnded, Gone
<1> QED
    BY <1>1, EndedWindowsStayEnded, PTL
=============================================================================
