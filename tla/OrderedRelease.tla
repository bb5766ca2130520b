-------------------------- MODULE OrderedRelease --------------------------
(***************************************************************************)
(* What a sequencing buffer promises its consumer: accepted frames wait,   *)
(* one of each sequence number; they are handed out in increasing order;   *)
(* a frame that was accepted is lost only when a newer one of its own      *)
(* number replaces it or, one at a time and lowest first, when another     *)
(* frame is accepted; a reset forgets everything.                          *)
(***************************************************************************)
EXTENDS Integers

CONSTANT Frames

VARIABLES waiting,   \* accepted frames that can still be handed out
          given,     \* sequence of the last frame handed out, -1 if none
          output     \* the frame handed out last, as a set of at most one

abstractVars == <<waiting, given, output>>

AInit == waiting = {} /\ given = -1 /\ output = {}

Lowest(frames) == {f \in frames : \A g \in frames : f.seq =< g.seq}

Accept ==
    \E f \in Frames :
        LET more == {g \in waiting : g.seq # f.seq} \union {f}
        IN  /\ f.seq > given
            /\ \/ waiting' = more
               \/ waiting' = more \ Lowest(more)
            /\ UNCHANGED <<given, output>>

(* A frame below what was given, or one the buffer has no room for, may    *)
(* still cost the lowest waiting frame its place.                          *)
Refuse ==
    /\ waiting' \in {waiting, waiting \ Lowest(waiting)}
    /\ UNCHANGED <<given, output>>

HandOut ==
    \E f \in Lowest(waiting) :
        /\ f.seq > given
        /\ waiting' = waiting \ {f}
        /\ given' = f.seq
        /\ output' = {f}

Forget == waiting' = {} /\ given' = -1 /\ output' = {}

ANext == Accept \/ Refuse \/ HandOut \/ Forget

AbstractSpec == AInit /\ [][ANext]_abstractVars
=============================================================================
