---------------------------- MODULE LossyQueues ----------------------------
(***************************************************************************)
(* What the trade buffers of a market promise: per venue a queue of the    *)
(* last Capacity trades that arrived and were not taken yet.  The oldest   *)
(* give way to a newer one; trades are taken in the order of arrival; a    *)
(* change of market empties everything.                                    *)
(***************************************************************************)
EXTENDS Integers, Sequences, SequencesExt

CONSTANTS Venues, Trades, Capacity

VARIABLES queue,      \* venue -> trades that wait
          taken       \* venue -> trades taken by the last step that took any

qVars == <<queue, taken>>

QInit == queue = [v \in Venues |-> <<>>] /\ taken = [v \in Venues |-> <<>>]

Arrive ==
    \E v \in Venues, t \in Trades :
        LET more == Append(queue[v], t)
        IN  /\ queue' = [queue EXCEPT ![v] = IF Len(more) > Capacity THEN Tail(more) ELSE more]
            /\ UNCHANGED taken

Take ==
    \E count \in [Venues -> 0 .. Capacity] :
        /\ \A v \in Venues : count[v] =< Len(queue[v])
        /\ taken' = [v \in Venues |-> SubSeq(queue[v], 1, count[v])]
        /\ queue' = [v \in Venues |-> SubSeq(queue[v], count[v] + 1, Len(queue[v]))]

Empty == queue' = [v \in Venues |-> <<>>] /\ UNCHANGED taken

QNext == Arrive \/ Take \/ Empty

QSpec == QInit /\ [][QNext]_qVars
=============================================================================
