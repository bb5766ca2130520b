------------------------------ MODULE AutoTuning ------------------------------
(***************************************************************************)
(* The auto-tuning write-back: the terminal page posts recommended         *)
(* strategy weights with an idempotency key, the server route              *)
(* (app/api/strategies/auto-tuning/route.ts) answers a key it knows from a *)
(* file of records (lib/autoTuningIdempotency.ts) and otherwise forwards   *)
(* the request by ControlPlaneFetch and records the answer.                *)
(*                                                                         *)
(* Requests are cut at their awaits; opening the file for writing empties  *)
(* it, the file keeps the newest MaxRecords answers, and a step of the     *)
(* route may throw, a crash of the server included.  The key does not      *)
(* depend on the request: a dry run and the apply that follows it under    *)
(* the same key share one record.  What the control plane does with the    *)
(* key is not in this repository.                                          *)
(***************************************************************************)
EXTENDS ControlPlaneFetch

CONSTANTS Keys,     \* idempotency keys
          NoCaller,
          MaxRecords,   \* the answers writeRecords keeps
          MaxSubmits    \* bound: write-backs submitted

ASSUME TuningAssumption == MaxSubmits \in Nat /\ MaxRecords \in Nat \ {0}

VARIABLES writeback,    \* the write-back requests under way, by the call they make
          records,      \* the file: the recorded answer of each key, and how
                        \* many answers were recorded after it
          sender,       \* the page: its key, the request it waits for, and
                        \* how many it has submitted
          applied,      \* history: how often a key's weights were applied
          doubtful,     \* history: applied keys whose answer or record got lost
          serial        \* history: no two requests were under way at once

tuningVars == <<fetchVars, writeback, records, sender, applied, doubtful, serial>>

Unknown == [answer |-> "none", old |-> FALSE, newer |-> 0]
NoRecords == [k \in Keys |-> Unknown]

Earlier(done, newer) ==
    [j \in Keys |-> IF j \in done THEN [answer |-> "accepted", old |-> FALSE, newer |-> newer[j]]
                    ELSE Unknown]

NoWriteback == [phase |-> "idle", key |-> NoCaller, dry |-> TRUE, answer |-> "none",
                next |-> NoRecords]

(* Other keys may have been applied, and recorded, before the page opens.  *)
TuningInit ==
    /\ FetchInit
    /\ writeback = [c \in Calls |-> NoWriteback]
    /\ \E k \in Keys, done \in SUBSET Keys, newer \in [Keys -> 0 .. MaxRecords - 1] :
          /\ k \notin done /\ \A i, j \in done : newer[i] = newer[j] => i = j
          /\ sender = [key |-> k, used |-> {k} \union done, waits |-> NoCaller, submits |-> 0]
          /\ records = Earlier(done, newer)
          /\ applied = [j \in Keys |-> IF j \in done THEN 1 ELSE 0]
    /\ doubtful = {} /\ serial = TRUE

-----------------------------------------------------------------------------
(* The records no older than AUTO_TUNING_IDEMPOTENCY_TTL_SEC.              *)
Fresh(recs) == [k \in Keys |-> IF recs[k].old THEN Unknown ELSE recs[k]]

(* The last MaxRecords of the file.                                        *)
Newest(recs) ==
    [k \in Keys |->
        IF Cardinality({j \in Keys : recs[j].answer # "none" /\ recs[j].newer < recs[k].newer})
              < MaxRecords
        THEN recs[k] ELSE Unknown]

(* Fresh records, and w's at their end.                                    *)
Pushed(recs, w) ==
    [k \in Keys |->
        IF k = w.key THEN [answer |-> w.answer, old |-> FALSE, newer |-> 0]
        ELSE IF Fresh(recs)[k].answer = "none" THEN Unknown
        ELSE [Fresh(recs)[k] EXCEPT !.newer = @ + 1]]

\* For the mutants: only a success is recorded.
WithSuccess(recs, w) == IF w.answer = "accepted" THEN Newest(Pushed(recs, w)) ELSE Fresh(recs)

(* saveIdempotentResult: every answer is recorded, a refusal like a        *)
(* success, and pushes the oldest out of a full file.                      *)
WithAnswer(recs, w) == Newest(Pushed(recs, w))

(* What readRecords returns: nothing, too, when the file cannot be read.   *)
Read(readable) == IF readable THEN records ELSE NoRecords

(* Of the keys, those whose weights were applied are from now on in doubt. *)
Doubted(keys, counts) == doubtful \union {k \in keys : counts[k] > 0}

(* The answer reaches the page, unless it no longer waits for it.  Once a  *)
(* write-back is accepted the page takes a key never used before; with no  *)
(* key left it submits nothing more (a bound of the model).                *)
Reply(c, answer) ==
    IF sender.waits # c THEN UNCHANGED sender
    ELSE \/ answer = "accepted" /\ \E k \in Keys \ sender.used :
                sender' = [sender EXCEPT !.key = k, !.used = @ \union {k}, !.waits = NoCaller]
         \/ answer = "accepted" /\ Keys = sender.used
                /\ sender' = [sender EXCEPT !.waits = NoCaller, !.submits = MaxSubmits]
         \/ answer # "accepted" /\ sender' = [sender EXCEPT !.waits = NoCaller]

Phase(c, phase) == writeback[c].phase = phase
To(c, phase) == writeback' = [writeback EXCEPT ![c].phase = phase]

-----------------------------------------------------------------------------
(* submitAutoTuningWriteback; autoTuningBusy holds while the page waits.   *)
Submit(c, dry) ==
    /\ sender.waits = NoCaller /\ sender.submits < MaxSubmits
    /\ Phase(c, "idle") /\ call[c].state = "idle"
    /\ writeback' = [writeback EXCEPT ![c] = [NoWriteback EXCEPT !.phase = "lookup", !.dry = dry,
                                                                 !.key = sender.key]]
    /\ sender' = [sender EXCEPT !.waits = c, !.submits = @ + 1]
    /\ serial' = (serial /\ \A d \in Calls : Phase(d, "idle"))
    /\ UNCHANGED <<fetchVars, records, applied, doubtful>>

(* The field of the page that holds the key can be typed into.             *)
EditKey(k) ==
    /\ sender.waits = NoCaller
    /\ sender' = [sender EXCEPT !.key = k, !.used = @ \union {k}]
    /\ UNCHANGED <<fetchVars, writeback, records, applied, doubtful, serial>>

(* The page sees an error, the request goes on.                            *)
LoseAnswer ==
    /\ sender.waits # NoCaller
    /\ sender' = [sender EXCEPT !.waits = NoCaller]
    /\ UNCHANGED <<fetchVars, writeback, records, applied, doubtful, serial>>

(* A record outlives its time.                                             *)
Age(k) ==
    /\ records[k].answer # "none" /\ ~records[k].old
    /\ records' = [records EXCEPT ![k].old = TRUE]
    /\ doubtful' = Doubted({k}, applied)
    /\ UNCHANGED <<fetchVars, writeback, sender, applied, serial>>

(* getCachedIdempotentResult reads the file, and writes it back if a       *)
(* record in it is too old.                                                *)
Lookup(c, readable) ==
    /\ Phase(c, "lookup")
    /\ LET fresh == Fresh(Read(readable))
           found == fresh[writeback[c].key].answer
       IN  writeback' = IF fresh # Read(readable)
               THEN [writeback EXCEPT ![c].answer = found, ![c].phase = "prune", ![c].next = fresh]
               ELSE [writeback EXCEPT ![c].answer = found, ![c].phase = "known"]
    /\ doubtful' = IF readable THEN doubtful ELSE Doubted({writeback[c].key}, applied)
    /\ UNCHANGED <<fetchVars, records, sender, applied, serial>>

(* A key with an answer is answered by it.                                 *)
Replay(c) ==
    /\ Phase(c, "known") /\ writeback[c].answer # "none"
    /\ writeback' = [writeback EXCEPT ![c] = NoWriteback]
    /\ Reply(c, writeback[c].answer)
    /\ UNCHANGED <<fetchVars, records, applied, doubtful, serial>>

(* A body that does not parse, a wrong admin key, no recommendation left   *)
(* and no signature secret are refused and recorded; a disabled feature    *)
(* and a missing token are refused without a record.                       *)
Refuse(c, recorded) ==
    /\ Phase(c, "known") /\ writeback[c].answer = "none"
    /\ IF recorded
       THEN /\ writeback' = [writeback EXCEPT ![c].phase = "save", ![c].answer = "refused"]
            /\ UNCHANGED sender
       ELSE writeback' = [writeback EXCEPT ![c] = NoWriteback] /\ Reply(c, "refused")
    /\ UNCHANGED <<fetchVars, records, applied, doubtful, serial>>

(* cpFetch with the method POST.                                           *)
Forward(c) ==
    /\ Phase(c, "known") /\ writeback[c].answer = "none"
    /\ Fetch(c, FALSE)
    /\ To(c, "upstream")
    /\ UNCHANGED <<records, sender, applied, doubtful, serial>>

Applied(c) ==
    IF writeback[c].dry THEN applied ELSE [applied EXCEPT ![writeback[c].key] = @ + 1]

(* The control plane answers; the outcome is audited and recorded.  A      *)
(* refusal may follow an application.                                      *)
UpstreamAnswers(c, answer) ==
    /\ Phase(c, "upstream") /\ Answer(c)
    /\ applied' = Applied(c)
    /\ writeback' = [writeback EXCEPT ![c].phase = "save", ![c].answer = answer]
    /\ UNCHANGED <<records, sender, doubtful, serial>>

(* An attempt fails; how makes no difference to a write, which is never    *)
(* repeated, only whether it was performed before.  When cpFetch gives up  *)
(* it throws: the route ends with an error of its own, nothing is audited  *)
(* and nothing recorded.                                                   *)
UpstreamFails(c, done) ==
    /\ Phase(c, "upstream") /\ Fail(c, "timeout", done)
    /\ applied' = IF done THEN Applied(c) ELSE applied
    /\ doubtful' = Doubted({writeback[c].key}, applied')
    /\ IF call'[c].state = "unreachable"
       THEN To(c, "unreachable")
       ELSE UNCHANGED writeback
    /\ UNCHANGED <<records, sender, serial>>

EndCall(c) == IF call[c].state = "idle" THEN UNCHANGED fetchVars ELSE GoOn(c)

(* saveIdempotentResult reads the file again.                              *)
Save(c, readable) ==
    /\ Phase(c, "save") /\ EndCall(c)
    /\ writeback' = [writeback EXCEPT ![c].phase = "store",
                                      ![c].next = WithAnswer(Read(readable), writeback[c])]
    /\ UNCHANGED <<records, sender, applied, doubtful, serial>>

(* writeRecords: opening the file empties it; writes that overlap may      *)
(* leave a text that does not parse, read as no records.                   *)
OpenRecords(c) ==
    /\ writeback[c].phase \in {"prune", "store"}
    /\ records' = NoRecords
    /\ To(c, IF Phase(c, "prune") THEN "pruning" ELSE "storing")
    /\ doubtful' = Doubted({k \in Keys : /\ records[k].answer # "none"
                                         /\ writeback[c].next[k].answer = "none"}, applied)
    /\ UNCHANGED <<fetchVars, sender, applied, serial>>

WriteRecords(c) ==
    /\ writeback[c].phase \in {"pruning", "storing"}
    /\ \/ records' = writeback[c].next
       \/ records # NoRecords /\ records' = NoRecords
    /\ IF Phase(c, "pruning")
       THEN /\ writeback' = [writeback EXCEPT ![c].phase = "known", ![c].next = NoRecords]
            /\ UNCHANGED sender
       ELSE writeback' = [writeback EXCEPT ![c] = NoWriteback] /\ Reply(c, writeback[c].answer)
    /\ UNCHANGED <<fetchVars, applied, doubtful, serial>>

(* What is lost with a request that ends before its next step: the answer  *)
(* it did not record yet, or the file it had emptied.                      *)
LostWith(w) ==
    IF w.phase \in {"save", "store"} THEN {w.key}
    ELSE IF w.phase \in {"pruning", "storing"} THEN {k \in Keys : w.next[k].answer # "none"}
    ELSE {}

(* cpFetch gave up; the audit file, the directory or the file of records   *)
(* could not be written; the file was opened but not written.  The route   *)
(* catches none of them and ends with an error of its own.                 *)
RouteThrows(c) ==
    /\ writeback[c].phase \in {"unreachable", "save", "prune", "store", "pruning", "storing"}
    /\ EndCall(c)
    /\ writeback' = [writeback EXCEPT ![c] = NoWriteback] /\ Reply(c, "error")
    /\ records' = IF writeback[c].phase \in {"pruning", "storing"} THEN NoRecords ELSE records
    /\ doubtful' = Doubted(LostWith(writeback[c]), applied)
    /\ UNCHANGED <<applied, serial>>

TuningNext ==
    \/ \E k \in Keys : EditKey(k) \/ Age(k)
    \/ LoseAnswer
    \/ \E c \in Calls :
          \/ \E dry \in BOOLEAN : Submit(c, dry)
          \/ Replay(c) \/ Forward(c)
          \/ \E readable \in BOOLEAN : Lookup(c, readable) \/ Save(c, readable)
          \/ \E recorded \in BOOLEAN : Refuse(c, recorded)
          \/ \E answer \in {"accepted", "refused"} : UpstreamAnswers(c, answer)
          \/ \E done \in BOOLEAN : UpstreamFails(c, done)
          \/ RouteThrows(c)
          \/ OpenRecords(c) \/ WriteRecords(c)

TuningSpec == TuningInit /\ [][TuningNext]_tuningVars

-----------------------------------------------------------------------------
(* While requests follow one another, the weights of a key are applied     *)
(* again only after the code lost the answer of an earlier application: an *)
(* attempt was performed but failed; the answer could not be audited or    *)
(* recorded; its record grew too old, was pushed out by newer ones, was    *)
(* lost with the file or could not be read.  Every other answer that came  *)
(* back, a refusal included, is recorded and repeated.                     *)
AppliedOncePerKey ==
    serial => \A k \in Keys : applied[k] <= 1 \/ k \in doubtful
=============================================================================
