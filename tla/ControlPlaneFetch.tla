-------------------------- MODULE ControlPlaneFetch --------------------------
(***************************************************************************)
(* The call every server route of mission control makes to reach the       *)
(* control plane (lib/controlPlane.ts).  A call tries one base address     *)
(* after the other, each several times, and counts its outcome; the counts *)
(* of all the calls of the process decide how often later ones retry.      *)
(*                                                                         *)
(* The delays before the first attempt and between two attempts are left   *)
(* out: any other step may come between two steps of a call anyway.  So is *)
(* the development mode that turns an unreachable control plane into an    *)
(* answer of status 503, and the split of the counts by route, which only  *)
(* lengthens the delays.                                                   *)
(***************************************************************************)
EXTENDS Integers, FiniteSetsExt

CONSTANTS Calls,            \* calls that may be under way at a time
          Addresses,        \* distinct base addresses: one, or two with a fallback
          RetryAttempts,    \* MC_CONTROL_PLANE_RETRY_ATTEMPTS
          Failures,         \* the failures that happen
          MaxCalls          \* bound: calls begun

FailureClasses == {"dns_transient", "dns_unresolved", "timeout", "connection_refused",
                   "connection_reset", "aborted", "network_unknown", "unknown_error"}

ASSUME FetchAssumption ==
    /\ Addresses \in 1 .. 2 /\ RetryAttempts \in 1 .. 4
    /\ Failures \subseteq FailureClasses /\ MaxCalls \in Nat

(* Failures after which an attempt is repeated, and failures that show the *)
(* request never reached the other side.                                   *)
Retryable == {"dns_transient", "timeout", "connection_reset", "aborted", "network_unknown"}
Undelivered == {"dns_transient", "dns_unresolved", "connection_refused"}

VARIABLES call,         \* the calls under way
          metrics,      \* counts over all the calls of the process
          performed     \* history: how often each address performed a call

fetchVars == <<call, metrics, performed>>

NoCall == [state |-> "idle", read |-> TRUE, attempts |-> 1, address |-> 1, attempt |-> 1,
           sent |-> 0, failure |-> "none"]

FetchInit ==
    /\ call = [c \in Calls |-> NoCall]
    /\ metrics = [total |-> 0, recovered |-> 0, degraded |-> 0, dns |-> 0, timeouts |-> 0]
    /\ performed = [c \in Calls |-> [a \in 1 .. Addresses |-> 0]]

-----------------------------------------------------------------------------
(* computeControlPlaneInfraHealth: 1 less the four penalties, in           *)
(* ten-thousandths of the number of calls.                                 *)
Penalty(count, weight, cap) == Min({count * weight, metrics.total * cap})

Penalties == Penalty(metrics.dns, 11500, 2800) + Penalty(metrics.timeouts, 14500, 3400)
           + Penalty(metrics.degraded, 19000, 5000) + Penalty(metrics.recovered, 4500, 1200)

(* classifyControlPlaneNetworkRegime; no call counted yet is stable.       *)
Critical ==
    /\ metrics.total > 0
    /\ \/ Penalties >= 5500 * metrics.total
       \/ 100 * metrics.degraded >= 18 * metrics.total
       \/ 10 * metrics.timeouts >= metrics.total

Degraded ==
    /\ metrics.total > 0
    /\ \/ Penalties >= 2200 * metrics.total
       \/ 100 * metrics.dns >= 8 * metrics.total
       \/ 100 * metrics.recovered >= 12 * metrics.total
       \/ metrics.degraded > 0

(* buildControlPlaneRequestPolicy                                          *)
Attempts(read) ==
    LET full == IF read THEN RetryAttempts ELSE 1
    IN  IF Critical THEN 1 ELSE IF Degraded THEN Max({1, full - 1}) ELSE full

\* For the mutants: the failure alone decides, up to the configured number.
ShouldRetryAny(c, failure) == failure \in Retryable /\ call[c].attempt < RetryAttempts

(* shouldRetryFetchFailure                                                 *)
ShouldRetry(c, failure) ==
    call[c].read /\ failure \in Retryable /\ call[c].attempt < call[c].attempts

(* recordControlPlaneNetworkMetric                                         *)
Recorded(state, failure) ==
    [total     |-> metrics.total + 1,
     recovered |-> metrics.recovered + (IF state = "retry_recovered" THEN 1 ELSE 0),
     degraded  |-> metrics.degraded + (IF state = "degraded" THEN 1 ELSE 0),
     dns       |-> metrics.dns + (IF failure = "dns_transient" THEN 1 ELSE 0),
     timeouts  |-> metrics.timeouts + (IF failure = "timeout" THEN 1 ELSE 0)]

-----------------------------------------------------------------------------
UnderWay == {c \in Calls : call[c].state = "sending"}

(* cpFetch, up to its first attempt.                                       *)
Fetch(c, read) ==
    /\ call[c].state = "idle"
    /\ metrics.total + Cardinality(UnderWay) < MaxCalls
    /\ call' = [call EXCEPT ![c] = [NoCall EXCEPT !.state = "sending", !.read = read,
                                                  !.attempts = Attempts(read), !.sent = 1]]
    /\ UNCHANGED <<metrics, performed>>

PerformedBy(c) == [performed EXCEPT ![c][call[c].address] = @ + 1]

(* What is left of a call for its caller, until the caller goes on.        *)
Over(c, state) == [NoCall EXCEPT !.state = state, !.read = call[c].read]

GoOn(c) ==
    /\ call[c].state \in {"answered", "unreachable"}
    /\ call' = [call EXCEPT ![c] = NoCall]
    /\ performed' = [performed EXCEPT ![c] = [a \in 1 .. Addresses |-> 0]]
    /\ UNCHANGED metrics

(* Any answer, whatever its status, ends the call.                         *)
Answer(c) ==
    /\ call[c].state = "sending"
    /\ performed' = PerformedBy(c)
    /\ call' = [call EXCEPT ![c] = Over(c, "answered")]
    /\ metrics' = Recorded(IF call[c].sent > 1 THEN "retry_recovered" ELSE "healthy", call[c].failure)

(* An attempt fails, before or after the other side performed it.  The     *)
(* break after a failure that is not repeated leaves the attempts of this  *)
(* address, and the loop over the addresses goes on.                       *)
Fail(c, failure, done) ==
    /\ call[c].state = "sending"
    /\ done => failure \notin Undelivered
    /\ performed' = IF done THEN PerformedBy(c) ELSE performed
    /\ \/ /\ ShouldRetry(c, failure)
          /\ call' = [call EXCEPT ![c].attempt = @ + 1, ![c].sent = @ + 1, ![c].failure = failure]
          /\ UNCHANGED metrics
       \/ /\ ~ShouldRetry(c, failure) /\ call[c].address < Addresses
          /\ call' = [call EXCEPT ![c].address = @ + 1, ![c].attempt = 1,
                                  ![c].sent = @ + 1, ![c].failure = failure]
          /\ UNCHANGED metrics
       \/ /\ ~ShouldRetry(c, failure) /\ call[c].address = Addresses
          /\ call' = [call EXCEPT ![c] = Over(c, "unreachable")]
          /\ metrics' = Recorded("degraded", failure)

FetchNext ==
    \E c \in Calls : \/ \E read \in BOOLEAN : Fetch(c, read)
                     \/ Answer(c) \/ GoOn(c)
                     \/ \E failure \in Failures, done \in BOOLEAN : Fail(c, failure, done)

FetchSpec == FetchInit /\ [][FetchNext]_fetchVars

-----------------------------------------------------------------------------
FetchTypeOK ==
    /\ \A c \in Calls :
          /\ call[c].state \in {"idle", "sending", "answered", "unreachable"}
          /\ call[c].attempt \in 1 .. RetryAttempts /\ call[c].address \in 1 .. Addresses
          /\ call[c].failure \in Failures \union {"none"}
    /\ metrics.degraded + metrics.recovered <= metrics.total /\ metrics.total <= MaxCalls

(* A call that writes is performed at most once by each address, so at     *)
(* most once where there is no fallback address: an attempt that failed    *)
(* may have been performed, and only a read may be repeated.               *)
WriteOncePerAddress ==
    \A c \in Calls : ~call[c].read => \A a \in 1 .. Addresses : performed[c][a] <= 1
=============================================================================
