---------------------------- MODULE MCFramePath ----------------------------
(***************************************************************************)
(* The gate of the frame path; the sequence guard inside it under any      *)
(* caller; and the rollback guard, which the page drives by polling.  They *)
(* are explored one at a time: each moves only while the others are in     *)
(* their initial states.  They share no variable, so interleaving them     *)
(* would multiply the states and show nothing more.                        *)
(***************************************************************************)
EXTENDS FrameGate, SequenceGuardSpec, RollbackGuard

(* Two timeframes of one market and one feed of another.                   *)
MCFeeds == {"a1", "a5", "b1"}
MCMarket == [a1 |-> "a", a5 |-> "a", b1 |-> "b"]

allVars == <<framePathVars, guardVars, rollbackVars>>

(* The expected sequence is the only counter of the guard the sequence     *)
(* numbers do not bound: evictions and skipped gaps move it past them.     *)
ExpectedBound == guard.expected =< MaxNumber + 2

(* Refreshes fall back where at most one frame is queued: what is late of  *)
(* a refresh does not depend on the other frames.  No step that is fair    *)
(* queues a frame or falls back.                                           *)
FallbackBound == fallbacks > 0 => queued =< 1

Init == GateInit /\ GuardInit /\ RollbackInit

Next ==
    \/ GuardInit /\ RollbackInit /\ GateNext /\ FallbackBound' /\ UNCHANGED <<guardVars, rollbackVars>>
    \/ GateInit /\ RollbackInit /\ GuardNext /\ UNCHANGED <<framePathVars, rollbackVars>>
    \/ GateInit /\ GuardInit /\ RollbackNext /\ UNCHANGED <<framePathVars, guardVars>>

(* What is fair in a part is disabled in its initial state, but for the    *)
(* poll: it is fair where the rollback guard is the part that moves.       *)
PollFairness ==
    /\ \A h \in Handlers : WF_rollbackVars(RollbackStep(h))
    /\ WF_rollbackVars(GateInit /\ GuardInit /\ PollSession)

Spec == Init /\ [][Next]_allVars /\ GateFairness /\ PollFairness
=============================================================================
