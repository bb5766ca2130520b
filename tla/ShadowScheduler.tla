-------------------------- MODULE ShadowScheduler --------------------------
(***************************************************************************)
(* The scheduler that runs a self-learning cycle every few minutes         *)
(* (lib/selfLearningScheduler.ts), as the terminal page drives it: an      *)
(* effect starts it and triggers a run on every change of account, symbol, *)
(* timeframe or interval, stops it when it is disabled, and a button runs  *)
(* a cycle by hand (app/terminal/page.tsx).                                *)
(*                                                                         *)
(* A run is an await of the runner.  It is a cycle if the page was not     *)
(* busy with another one when the runner began, and returns at once if it  *)
(* was.  The runner asks the rendering it was created in: the busy mark is *)
(* set at once, and seen from the next rendering on.                       *)
(***************************************************************************)
EXTENDS Integers, FiniteSets

CONSTANT Slots          \* bound: awaits of the runner that may be open

VARIABLES timer,        \* this.timer !== null
          snapshot,     \* state, enabled, inFlight
          runs,         \* open awaits: slot -> how they began, whether a cycle
          busy,         \* selfLearningV5Busy, as set last
          rendered,     \* selfLearningV5Busy, as the last rendering reads it
          raced         \* history: a cycle under way began between the setting
                        \* of the mark and the rendering that shows it

shadowVars == <<timer, snapshot, runs, busy, rendered, raced>>

NoRun == [by |-> "none", cycle |-> FALSE]
Runs == [by : {"none", "tick", "trigger", "hand"}, cycle : BOOLEAN]

Cycles == {s \in Slots : runs[s].cycle}

ShadowInit ==
    /\ timer = FALSE
    /\ snapshot = [state |-> "stopped", enabled |-> FALSE, inFlight |-> FALSE]
    /\ runs = [s \in Slots |-> NoRun]
    /\ busy = FALSE /\ rendered = FALSE /\ raced = FALSE

Stopped == [state |-> "stopped", enabled |-> FALSE, inFlight |-> FALSE]
Started == [state |-> "running", enabled |-> TRUE, inFlight |-> FALSE]

\* For the mutants: the runner does not ask whether the page is busy.
BeginAnyway(kind) ==
    /\ \E s \in Slots :
        /\ runs[s] = NoRun
        /\ runs' = [runs EXCEPT ![s] = [by |-> kind, cycle |-> TRUE]]
    /\ busy' = TRUE
    /\ raced' = (raced \/ (busy /\ ~rendered))
    /\ UNCHANGED rendered

(* await runner(): runMetaHarnessV5Cycle() returns at once when the        *)
(* rendering it belongs to is busy, and marks the page busy otherwise.     *)
Begin(kind) ==
    /\ \E s \in Slots :
        /\ runs[s] = NoRun
        /\ runs' = [runs EXCEPT ![s] = [by |-> kind, cycle |-> ~rendered]]
    /\ busy' = (busy \/ ~rendered)
    /\ raced' = (raced \/ (busy /\ ~rendered))
    /\ UNCHANGED rendered

(* The page is rendered: runner and button are those of this rendering.    *)
Render ==
    /\ rendered' = busy
    /\ UNCHANGED <<timer, snapshot, runs, busy, raced>>

(* The effect with the scheduler enabled and ready: start(), which stops   *)
(* first and forgets what is in flight, and triggerNow().                  *)
StartAndTrigger ==
    /\ timer' = TRUE
    /\ snapshot' = [Started EXCEPT !.inFlight = TRUE]
    /\ Begin("trigger")

(* The effect with the scheduler disabled, and the clean-up of the page.   *)
Stop ==
    /\ timer' = FALSE
    /\ snapshot' = Stopped
    /\ UNCHANGED <<runs, busy, rendered, raced>>

(* The interval fires: tick() skips its turn while a run is in flight.     *)
Tick ==
    /\ timer
    /\ ~snapshot.inFlight
    /\ snapshot' = [snapshot EXCEPT !.inFlight = TRUE]
    /\ Begin("tick")
    /\ UNCHANGED timer

(* The await ends.  A cycle takes the busy mark back, whoever set it.  A    *)
(* tick that ends calls the scheduler running again, and after a tick or a *)
(* trigger nothing is in flight any more as far as the scheduler knows.    *)
RunEnds ==
    \E s \in Slots :
        /\ runs[s] # NoRun
        /\ runs' = [runs EXCEPT ![s] = NoRun]
        /\ busy' = (busy /\ ~runs[s].cycle)
        /\ raced' = (raced /\ Cycles' # {})
        /\ snapshot' = IF runs[s].by = "hand" THEN snapshot
                       ELSE [snapshot EXCEPT
                           !.state = IF runs[s].by = "tick" THEN "running" ELSE @,
                           !.inFlight = FALSE]
        /\ UNCHANGED <<timer, rendered>>

(* The button of the panel, disabled while the rendering is busy.          *)
RunByHand ==
    /\ ~rendered
    /\ Begin("hand")
    /\ UNCHANGED <<timer, snapshot>>

ShadowNext ==
    \/ StartAndTrigger \/ Stop \/ Tick \/ RunEnds
    \/ RunByHand \/ Render

ShadowSpec == ShadowInit /\ [][ShadowNext]_shadowVars

-----------------------------------------------------------------------------
ShadowTypeOK ==
    /\ timer \in BOOLEAN /\ busy \in BOOLEAN /\ rendered \in BOOLEAN /\ raced \in BOOLEAN
    /\ snapshot \in [state : {"stopped", "running"}, enabled : BOOLEAN,
                     inFlight : BOOLEAN]
    /\ runs \in [Slots -> Runs]

(* Two cycles never run at a time but for one window, that between the     *)
(* setting of the busy mark and the next rendering: stop() clears inFlight *)
(* while a run is open and a run that skipped its turn clears it too, but  *)
(* the busy mark holds from a cycle's start to its end.  What a second     *)
(* cycle begun in that window breaks (the first to end takes the mark from *)
(* the other) is over when no cycle runs any more.                         *)
OneCycleAtATime ==
    /\ raced => Cycles # {}
    /\ ~raced => \A s, t \in Cycles : s = t
    /\ ~raced => (busy <=> Cycles # {})

(* The snapshot never reports a run that is not there, and the interval    *)
(* runs exactly while the scheduler is enabled.                            *)
InFlightIsOpen ==
    /\ snapshot.inFlight => \E s \in Slots : runs[s].by \in {"tick", "trigger"}
    /\ timer <=> snapshot.enabled

=============================================================================
