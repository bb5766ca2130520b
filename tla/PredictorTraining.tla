-------------------------- MODULE PredictorTraining --------------------------
(***************************************************************************)
(* The way of an outcome into the predictor's model: the terminal page     *)
(* queues it as a training sample (app/terminal/page.tsx) and posts its    *)
(* queue in batches; the server route (app/api/predictor/train/route.ts,   *)
(* lib/predictorFetch.ts) forwards a batch once, to the one address of the *)
(* deployment; the predictor's trainer (apps/predictor_v8/trainer.py)      *)
(* keeps it in a buffer that its loop learns from, batch by batch.         *)
(*                                                                         *)
(* Samples are numbered in the order the page meets them.  A flush that    *)
(* waits for its answer does not keep the next one from starting.          *)
(***************************************************************************)
EXTENDS Integers, SequencesExt

CONSTANTS Samples,              \* bound: samples
          Flushes,              \* flushes under way at a time
          FlushSize,            \* V8_BACKEND_TRAINING_FLUSH_SIZE
          TrainingBatchSize,    \* TRAINING_BATCH_SIZE of the predictor
          MaxBufferSize,        \* MAX_BUFFER_SIZE
          MaxPosts              \* bound: batches posted

ASSUME TrainingAssumption ==
    /\ Samples \in Nat /\ MaxPosts \in Nat /\ FlushSize \in Nat \ {0}
    /\ TrainingBatchSize \in Nat \ {0}
    /\ MaxBufferSize \in Nat /\ MaxBufferSize >= TrainingBatchSize

VARIABLES queued,   \* predictorTrainingQueuedIdsRef: the samples met so far
          buffer,   \* predictorTrainingBufferRef
          flush,    \* the flushes under way, and posts the page gave up
          posts,    \* batches posted
          trainer,  \* the predictor: its buffer, and whether its loop still runs
          learned,  \* history: samples in the model it saved
          dropped,  \* history: samples the predictor lost
          unread    \* history: samples of batches that were not trained, where
                    \* the page could not read that

trainingVars == <<queued, buffer, flush, posts, trainer, learned, dropped, unread>>

NoFlush == [phase |-> "none", batch |-> <<>>, answer |-> "none"]

TrainingInit ==
    /\ queued = 0 /\ buffer = <<>> /\ posts = 0
    /\ flush = [f \in Flushes |-> NoFlush]
    /\ trainer = [buffer |-> <<>>, looping |-> TRUE]
    /\ learned = {} /\ dropped = {} /\ unread = {}

-----------------------------------------------------------------------------
FirstOf(queue, n) == SubSeq(queue, 1, IF Len(queue) < n THEN Len(queue) ELSE n)
AllBut(queue, n) == SubSeq(queue, n + 1, Len(queue))

\* For the mutants: a batch is cut one short of what leaves the buffer.
RemainingShort(queue) == AllBut(queue, FlushSize + 1)

(* flushBackendPredictorTrainingBuffer, up to its request: the batch       *)
(* leaves the buffer.                                                      *)
Remaining(queue) == AllBut(queue, FlushSize)

Post(queue) ==
    /\ posts < MaxPosts /\ posts' = posts + 1
    /\ \E f \in Flushes :
          /\ flush[f].phase = "none"
          /\ flush' = [flush EXCEPT ![f] = [NoFlush EXCEPT !.phase = "posted",
                                                           !.batch = FirstOf(queue, FlushSize)]]
    /\ buffer' = Remaining(queue)

(* The effect on new telemetry: each sample not met before is queued; a    *)
(* full buffer is flushed at once.                                         *)
QueueSamples(count) ==
    /\ queued + count <= Samples
    /\ queued' = queued + count
    /\ LET queue == buffer \o [i \in 1 .. count |-> queued + i] IN
       IF Len(queue) >= FlushSize
       THEN Post(queue)
       ELSE buffer' = queue /\ UNCHANGED <<flush, posts>>
    /\ UNCHANGED <<trainer, learned, dropped, unread>>

(* The interval, every five seconds; an empty buffer is left alone.        *)
FlushInterval ==
    /\ buffer # <<>>
    /\ Post(buffer)
    /\ UNCHANGED <<queued, trainer, learned, dropped, unread>>

-----------------------------------------------------------------------------
(* add_samples: past its limit the buffer loses its oldest samples.        *)
Taken(batch) ==
    LET all  == trainer.buffer \o batch
        over == Len(all) - MaxBufferSize
    IN  [kept |-> IF over > 0 THEN AllBut(all, over) ELSE all,
         lost |-> IF over > 0 THEN ToSet(FirstOf(all, over)) ELSE {}]

AddSamples(batch) ==
    /\ trainer' = [trainer EXCEPT !.buffer = Taken(batch).kept]
    /\ dropped' = dropped \union Taken(batch).lost

(* /train adds the samples before anything else; the brain, which learns   *)
(* from the same request, may raise after that: the answer is an error of  *)
(* the server.  A post the page no longer waits for ends here.             *)
Train(f, answer) ==
    /\ flush[f].phase \in {"posted", "givenUp"}
    /\ AddSamples(flush[f].batch)
    /\ flush' = [flush EXCEPT ![f] = IF @.phase = "givenUp" THEN NoFlush
                                     ELSE [@ EXCEPT !.phase = "answered", !.answer = answer]]
    /\ UNCHANGED <<queued, buffer, posts, learned, unread>>

(* The request is refused, or does not arrive, or its answer does not:     *)
(* training is never repeated by the route, which then says so with        *)
(* degraded_flag and status 200.                                           *)
NotTrained(f, answer) ==
    /\ flush[f].phase \in {"posted", "givenUp"}
    /\ flush' = [flush EXCEPT ![f] = IF @.phase = "givenUp" THEN NoFlush
                                     ELSE [@ EXCEPT !.phase = "answered", !.answer = answer]]
    /\ UNCHANGED <<queued, buffer, posts, trainer, learned, dropped, unread>>

\* For the mutants: only the status is looked at, not degraded_flag.
GoesBackOnStatus(answer) == answer = "refused"

(* What the page makes of the route's answer: an error of the predictor    *)
(* itself arrives as status 200 without the flag and counts as trained.    *)
GoesBack(answer) == answer \in {"refused", "degraded"}

Receive(f) ==
    /\ flush[f].phase = "answered"
    /\ buffer' = IF GoesBack(flush[f].answer) THEN flush[f].batch \o buffer ELSE buffer
    /\ flush' = [flush EXCEPT ![f] = NoFlush]
    /\ UNCHANGED <<queued, posts, trainer, learned, dropped, unread>>

(* A body that does not arrive whole or does not parse is no object with   *)
(* a flag: after status 200 the batch counts as trained, whatever it said. *)
ReceiveUnread(f) ==
    /\ flush[f].phase = "answered" /\ flush[f].answer # "refused"
    /\ unread' = IF flush[f].answer = "degraded" THEN unread \union ToSet(flush[f].batch) ELSE unread
    /\ flush' = [flush EXCEPT ![f] = NoFlush]
    /\ UNCHANGED <<queued, buffer, posts, trainer, learned, dropped>>

(* The page's own request fails: the batch goes back, the route goes on.   *)
GiveUp(f) ==
    /\ flush[f].phase \in {"posted", "answered"}
    /\ buffer' = flush[f].batch \o buffer
    /\ flush' = [flush EXCEPT ![f] = IF @.phase = "posted" THEN [@ EXCEPT !.phase = "givenUp"]
                                     ELSE NoFlush]
    /\ UNCHANGED <<queued, posts, trainer, learned, dropped, unread>>

-----------------------------------------------------------------------------
(* One round of the trainer's loop, with nothing awaited after the batch   *)
(* has left the buffer: the samples are logged, the model updated and      *)
(* saved.  An exception on the way ends the loop for good.                 *)
LearnBatch(raises) ==
    /\ trainer.looping /\ Len(trainer.buffer) >= TrainingBatchSize
    /\ trainer' = [buffer |-> AllBut(trainer.buffer, TrainingBatchSize), looping |-> ~raises]
    /\ LET batch == ToSet(FirstOf(trainer.buffer, TrainingBatchSize)) IN
       IF raises THEN dropped' = dropped \union batch /\ UNCHANGED learned
                 ELSE learned' = learned \union batch /\ UNCHANGED dropped
    /\ UNCHANGED <<queued, buffer, flush, posts, unread>>

(* The predictor restarts with the model it saved and an empty buffer.     *)
RestartPredictor ==
    /\ trainer.buffer # <<>> \/ ~trainer.looping
    /\ trainer' = [buffer |-> <<>>, looping |-> TRUE]
    /\ dropped' = dropped \union ToSet(trainer.buffer)
    /\ UNCHANGED <<queued, buffer, flush, posts, learned, unread>>

TrainingNext ==
    \/ \E count \in 1 .. Samples : QueueSamples(count)
    \/ FlushInterval
    \/ \E f \in Flushes :
          \/ \E answer \in {"ok", "serverError", "degraded"} : Train(f, answer)
          \/ \E answer \in {"refused", "degraded"} : NotTrained(f, answer)
          \/ Receive(f) \/ ReceiveUnread(f) \/ GiveUp(f)
    \/ \E raises \in BOOLEAN : LearnBatch(raises)
    \/ RestartPredictor

TrainingSpec == TrainingInit /\ [][TrainingNext]_trainingVars

-----------------------------------------------------------------------------
(* The samples on their way: queued, in a batch the page still answers     *)
(* for, or waiting in the predictor.                                       *)
OnTheWay ==
    ToSet(buffer) \union ToSet(trainer.buffer)
        \union UNION {ToSet(flush[f].batch) : f \in {g \in Flushes : flush[g].phase # "givenUp"}}

(* However flushes overlap, fail, lose their answers or have them turned   *)
(* into successes, a sample the page has queued is on its way, learned,    *)
(* was lost inside the predictor, by its limit, an exception or a restart, *)
(* or was in a batch whose answer the page could not read.                 *)
NoSampleForgotten ==
    \A s \in 1 .. queued : s \in OnTheWay \union learned \union dropped \union unread
=============================================================================
