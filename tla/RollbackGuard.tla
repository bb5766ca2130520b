---------------------------- MODULE RollbackGuard ----------------------------
(***************************************************************************)
(* The rollback guard of the auto-tuning write-back                        *)
(* (lib/autoTuningRollbackGuard.ts, app/api/strategies/auto-tuning/        *)
(* rollback-guard/route.ts, the three effects of app/terminal/page.tsx).   *)
(* A write-back opens a session that watches the strategies for a window   *)
(* of time; the page polls it, sends observations and closes it.  All of   *)
(* its state is one JSON file that every request reads, changes and writes *)
(* back whole.                                                             *)
(*                                                                         *)
(* Requests are cut at their awaits: the read, the opening of the file,    *)
(* which empties it, and the write.  Nothing orders the requests of the    *)
(* page, or of two pages, among each other.                                *)
(***************************************************************************)
EXTENDS Naturals

CONSTANTS GuardSessions,    \* sessions that may be started
          GuardRequests,    \* requests under way at a time, the poll apart
          NoSession

ASSUME GuardAssumption == NoSession \notin GuardSessions

(* The poll of the page, every minute, and the other requests.             *)
Poller == "poll"
Handlers == GuardRequests \union {Poller}

VARIABLES guardFile,    \* what a read of the file finds
          handler,      \* the requests under way
          elapsed,      \* sessions whose window is over
          unstarted     \* sessions no write-back has started yet

rollbackVars == <<guardFile, handler, elapsed, unstarted>>

(* history: the sessions it shows closed.  A file that is empty or does    *)
(* not parse is read as this one.                                          *)
NoState == [active |-> NoSession, history |-> {}]

NoRequest == [phase |-> "idle", action |-> "none", session |-> NoSession, next |-> NoState]

RollbackInit ==
    /\ guardFile = NoState
    /\ handler = [h \in Handlers |-> NoRequest]
    /\ elapsed = {} /\ unstarted = GuardSessions

-----------------------------------------------------------------------------
Closed(state) == [active |-> NoSession, history |-> state.history \union {state.active}]

(* getRollbackGuardState and the others begin so: isExpired is asked of    *)
(* the state read, at the time of the read.                                *)
Expired(state) == state.active \in elapsed

\* For the mutants: the observation does not look at the window.
ChangedObserving(action, session, state) ==
    CASE action = "start" -> [state EXCEPT !.active = session]
      [] action = "poll" /\ Expired(state) -> Closed(state)
      [] action = "close" -> Closed(state)
      [] OTHER -> state

(* The state each action writes, having read "state"; reading it back      *)
(* unchanged stands for no write at all.  A close or an observation that   *)
(* finds the window over records that and answers 404.  An observation     *)
(* writes the session it read with one more observation.                   *)
Changed(action, session, state) ==
    CASE action = "start" -> [state EXCEPT !.active = session]
      [] action # "start" /\ Expired(state) -> Closed(state)
      [] action = "close" /\ ~Expired(state) -> Closed(state)
      [] OTHER -> state

(* Whether the handler goes on to write.                                   *)
Writes(action, state) ==
    \/ action = "start"
    \/ state.active # NoSession /\ (action # "poll" \/ Expired(state))

-----------------------------------------------------------------------------
(* The page posts "start" after an accepted write-back, observes and       *)
(* closes the session it shows, which the file may no longer hold.         *)
Request(h, action, session) ==
    /\ handler[h].phase = "idle"
    /\ handler' = [handler EXCEPT ![h] = [NoRequest EXCEPT !.phase = "reading",
                                     !.action = action, !.session = session]]
    /\ UNCHANGED <<guardFile, elapsed>>

StartSession(h, s) ==
    /\ s \in unstarted
    /\ Request(h, "start", s)
    /\ unstarted' = unstarted \ {s}

Observe(h) == Request(h, "observe", NoSession) /\ UNCHANGED unstarted

CloseSession(h) == Request(h, "close", NoSession) /\ UNCHANGED unstarted

PollSession == Request(Poller, "poll", NoSession) /\ UNCHANGED unstarted

(* readState                                                               *)
ReadFile(h) ==
    /\ handler[h].phase = "reading"
    /\ LET r == handler[h] IN
       handler' = [handler EXCEPT ![h] =
           IF Writes(r.action, guardFile)
           THEN [r EXCEPT !.phase = "opening", !.next = Changed(r.action, r.session, guardFile)]
           ELSE NoRequest]
    /\ UNCHANGED <<guardFile, elapsed, unstarted>>

(* writeFile: opening the file empties it, the write follows.  Two writes  *)
(* that overlap may leave one text over the end of the other.              *)
OpenFile(h) ==
    /\ handler[h].phase = "opening"
    /\ guardFile' = NoState
    /\ handler' = [handler EXCEPT ![h].phase = "writing"]
    /\ UNCHANGED <<elapsed, unstarted>>

WriteFile(h) ==
    /\ handler[h].phase = "writing"
    /\ \/ guardFile' = handler[h].next
       \/ guardFile # NoState /\ guardFile' = NoState
    /\ handler' = [handler EXCEPT ![h] = NoRequest]
    /\ UNCHANGED <<elapsed, unstarted>>

(* A session's window, from its start on the page, runs out.               *)
WindowElapses(s) ==
    /\ s \notin unstarted \union elapsed
    /\ elapsed' = elapsed \union {s}
    /\ UNCHANGED <<guardFile, handler, unstarted>>

RollbackStep(h) == ReadFile(h) \/ OpenFile(h) \/ WriteFile(h)

RollbackNext ==
    \/ \E h \in Handlers : RollbackStep(h)
    \/ \E h \in GuardRequests : \/ Observe(h) \/ CloseSession(h)
                                \/ \E s \in GuardSessions : StartSession(h, s)
    \/ PollSession
    \/ \E s \in GuardSessions : WindowElapses(s)

(* The server finishes the requests it has begun, and the page, open and   *)
(* not paused, polls every minute.                                         *)
RollbackFairness ==
    /\ \A h \in Handlers : WF_rollbackVars(RollbackStep(h))
    /\ WF_rollbackVars(PollSession)

RollbackSpec == RollbackInit /\ [][RollbackNext]_rollbackVars /\ RollbackFairness

-----------------------------------------------------------------------------
RollbackTypeOK ==
    /\ guardFile \in [active : GuardSessions \union {NoSession}, history : SUBSET GuardSessions]
    /\ elapsed \subseteq GuardSessions /\ unstarted \subseteq GuardSessions

(* From some moment on, the active session is never one whose window is    *)
(* over, although an observation that read the file while it was open may  *)
(* write it back after it was closed, or after a poll has expired it.      *)
WindowEnds == <>[](guardFile.active \notin elapsed)
=============================================================================
