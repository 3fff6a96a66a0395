--------------------------- MODULE CircuitBreaker ---------------------------
(***************************************************************************)
(* CircuitBreaker (resilience/circuit_breaker.py) and the calls it guards. *)
(*                                                                         *)
(* A call has two steps, each a critical section of _lock: it is admitted, *)
(* and its answer is counted.  The critical sections never suspend, but    *)
(* for a rejected call, which awaits the fallback under the lock: it keeps *)
(* the others waiting and changes nothing they see.  Fallbacks are taken   *)
(* to return.  Between the two steps of a call the breaker may open,       *)
(* recover and close again: the answer is then counted in a state other    *)
(* than the one that admitted the call.  A call that is cancelled, or      *)
(* raises an exception that is not expected, is never counted.             *)
(*                                                                         *)
(* `expired' stands for the clock; failure_count is counted no further     *)
(* than the threshold it is compared with.  A rejected call changes only   *)
(* statistics.                                                             *)
(***************************************************************************)
EXTENDS Naturals, FiniteSets

CONSTANTS
  Caller,            \* tasks that call execute(), again and again
  FailureThreshold,  \* failure_threshold
  SuccessThreshold,  \* success_threshold
  HalfOpenMax        \* half_open_max_calls

ASSUME BreakerAssumption ==
  /\ IsFiniteSet(Caller)
  /\ FailureThreshold \in Nat \ {0}
  /\ SuccessThreshold \in Nat \ {0}
  /\ HalfOpenMax \in Nat \ {0}

VARIABLES
  state,      \* CircuitStats.state
  failures,   \* failure_count
  successes,  \* success_count
  probes,     \* half_open_calls
  expired,    \* recovery_timeout has passed since last_failure_time
  call,       \* idle, or when the call was admitted: while CLOSED (closed),
              \* in this HALF_OPEN period (probe) or in an earlier one (late)
  cut,        \* history: a call was cut off and never counted
  ordered     \* history: an operator put the breaker into the state it is in

counts == <<failures, successes>>
history == <<cut, ordered>>
vars == <<state, counts, probes, expired, call, history>>

Init ==
  /\ state = "CLOSED"
  /\ failures = 0 /\ successes = 0 /\ probes = 0
  /\ expired = TRUE
  /\ call = [c \in Caller |-> "idle"]
  /\ cut = FALSE /\ ordered = FALSE

\* A step of the breaker itself, whether or not it changes the state.
ByItself == UNCHANGED cut /\ ordered' = (ordered /\ state' = state)
-----------------------------------------------------------------------------
(* The property `state', which moves an OPEN breaker on when it is read.   *)

\* Mutants of Recovers: a breaker that counted enough failures stays OPEN; a
\* HALF_OPEN breaker starts over.
RecoversAgain == state # "CLOSED" /\ expired
RecoversBelowThreshold == state = "OPEN" /\ expired /\ failures < FailureThreshold

Recovers == state = "OPEN" /\ expired

Aged == [c \in Caller |-> IF call[c] = "probe" THEN "late" ELSE call[c]]

\* get_stats, is_open and is_closed read it too.
ReadState ==
  /\ Recovers
  /\ state' = "HALF_OPEN" /\ probes' = 0
  /\ call' = Aged
  /\ UNCHANGED <<counts, expired>> /\ ByItself

-----------------------------------------------------------------------------
(* execute(): a call is let through.                                       *)

AdmitClosed(c) ==
  /\ call[c] = "idle" /\ state = "CLOSED"
  /\ call' = [call EXCEPT ![c] = "closed"]
  /\ UNCHANGED <<state, counts, probes, expired, history>>

\* A mutant of AdmitProbe: the limit is tested after the increment.
AdmitProbeOneMore(c) ==
  /\ call[c] = "idle"
  /\ \/ /\ Recovers
        /\ state' = "HALF_OPEN" /\ probes' = 1
        /\ call' = [Aged EXCEPT ![c] = "probe"]
     \/ /\ state = "HALF_OPEN" /\ probes <= HalfOpenMax
        /\ probes' = probes + 1
        /\ call' = [call EXCEPT ![c] = "probe"]
        /\ UNCHANGED state
  /\ UNCHANGED <<counts, expired>> /\ ByItself

AdmitProbe(c) ==
  /\ call[c] = "idle"
  /\ \/ /\ Recovers
        /\ state' = "HALF_OPEN" /\ probes' = 1
        /\ call' = [Aged EXCEPT ![c] = "probe"]
     \/ /\ state = "HALF_OPEN" /\ probes < HalfOpenMax
        /\ probes' = probes + 1
        /\ call' = [call EXCEPT ![c] = "probe"]
        /\ UNCHANGED state
  /\ UNCHANGED <<counts, expired>> /\ ByItself

Ends(c) == call[c] # "idle" /\ call' = [call EXCEPT ![c] = "idle"]

\* A mutant of OnSuccess: failure_count survives the recovery.
OnSuccessKeepsFailures(c) ==
  /\ Ends(c)
  /\ IF state = "HALF_OPEN"
     THEN IF successes + 1 >= SuccessThreshold
          THEN state' = "CLOSED" /\ successes' = 0 /\ probes' = 0 /\ UNCHANGED failures
          ELSE successes' = successes + 1 /\ UNCHANGED <<state, failures, probes>>
     ELSE failures' = 0 /\ UNCHANGED <<state, successes, probes>>
  /\ UNCHANGED expired /\ ByItself

OnSuccess(c) ==
  /\ Ends(c)
  /\ IF state = "HALF_OPEN"
     THEN IF successes + 1 >= SuccessThreshold
          THEN state' = "CLOSED" /\ failures' = 0 /\ successes' = 0 /\ probes' = 0
          ELSE successes' = successes + 1 /\ UNCHANGED <<state, failures, probes>>
     ELSE failures' = 0 /\ UNCHANGED <<state, successes, probes>>
  /\ UNCHANGED expired /\ ByItself

OneMore(n) == IF n < FailureThreshold THEN n + 1 ELSE n

\* Mutants of OnFailure: success_count is not reset; a failure while HALF_OPEN
\* is only counted.
OnFailureKeepsSuccesses(c) ==
  /\ Ends(c)
  /\ expired' = FALSE
  /\ IF state = "HALF_OPEN"
     THEN state' = "OPEN" /\ probes' = 0 /\ UNCHANGED counts
     ELSE /\ failures' = OneMore(failures)
          /\ state' = IF failures' >= FailureThreshold THEN "OPEN" ELSE state
          /\ UNCHANGED <<successes, probes>>
  /\ ByItself
OnFailureStays(c) ==
  /\ Ends(c)
  /\ expired' = FALSE
  /\ failures' = OneMore(failures)
  /\ state' = IF state = "CLOSED" /\ failures' >= FailureThreshold THEN "OPEN" ELSE state
  /\ UNCHANGED <<successes, probes>> /\ ByItself

OnFailure(c) ==
  /\ Ends(c)
  /\ expired' = FALSE
  /\ IF state = "HALF_OPEN"
     THEN state' = "OPEN" /\ successes' = 0 /\ probes' = 0 /\ UNCHANGED failures
     ELSE /\ failures' = OneMore(failures)
          /\ state' = IF failures' >= FailureThreshold THEN "OPEN" ELSE state
          /\ UNCHANGED <<successes, probes>>
  /\ ByItself

\* A mutant of Lost: an abandoned call gives back a place, also one it took
\* in an earlier period.
LostReleases(c) ==
  /\ Ends(c) /\ cut' = TRUE
  /\ probes' = IF probes > 0 THEN probes - 1 ELSE probes
  /\ UNCHANGED <<state, counts, expired, ordered>>

\* Neither _on_success nor _on_failure runs: the place stays taken.
Lost(c) ==
  /\ Ends(c) /\ cut' = TRUE
  /\ UNCHANGED <<state, counts, probes, expired, ordered>>

-----------------------------------------------------------------------------
TimePasses ==
  /\ ~expired /\ expired' = TRUE
  /\ UNCHANGED <<state, counts, probes, call, history>>

\* success_count and half_open_calls keep their values.
ForceOpen ==
  /\ state' = "OPEN" /\ expired' = FALSE
  /\ ordered' = TRUE
  /\ UNCHANGED <<counts, probes, call, cut>>

ForceClose ==
  /\ state' = "CLOSED" /\ failures' = 0 /\ successes' = 0 /\ probes' = 0
  /\ ordered' = TRUE
  /\ UNCHANGED <<expired, call, cut>>

Reset ==
  /\ state' = "CLOSED" /\ failures' = 0 /\ successes' = 0 /\ probes' = 0
  /\ expired' = TRUE
  /\ ordered' = TRUE
  /\ UNCHANGED <<call, cut>>

Admit(c) == AdmitClosed(c) \/ AdmitProbe(c)
Answer(c) == OnSuccess(c) \/ OnFailure(c) \/ Lost(c)
Forced == ForceOpen \/ ForceClose \/ Reset

Next ==
  \/ \E c \in Caller : Admit(c) \/ Answer(c)
  \/ ReadState
  \/ TimePasses
  \/ Forced

\* The collectors call again and again, and every call ends.
Fairness ==
  /\ \A c \in Caller : WF_vars(Admit(c)) /\ WF_vars(Answer(c))
  /\ WF_vars(TimePasses)

Spec == Init /\ [][Next]_vars /\ Fairness

-----------------------------------------------------------------------------
TypeOK ==
  /\ state \in {"CLOSED", "OPEN", "HALF_OPEN"}
  /\ failures \in 0..FailureThreshold
  /\ successes \in 0..(SuccessThreshold - 1)
  /\ probes \in 0..HalfOpenMax
  /\ expired \in BOOLEAN
  /\ call \in [Caller -> {"idle", "closed", "probe", "late"}]
  /\ cut \in BOOLEAN /\ ordered \in BOOLEAN

\* A CLOSED breaker has counted fewer than failure_threshold failures since the last
\* success, recovery or command of an operator that took the count back to zero.
ClosedBelowThreshold == state = "CLOSED" => failures < FailureThreshold

\* While HALF_OPEN, no more than half_open_max_calls of the calls admitted in
\* this period are under way.
Probing == {c \in Caller : call[c] = "probe"}
ProbesLimited == state = "HALF_OPEN" => Cardinality(Probing) <= probes

\* A breaker that opens forgets what succeeded while it was HALF_OPEN; one that an
\* operator forced OPEN keeps it until it recovers.  A success of an earlier period
\* whose answer comes while the breaker is HALF_OPEN again does count.
OpenForgetsSuccesses == state = "OPEN" => successes = 0 \/ ordered

\* When half_open_max_calls probes ended without success_threshold answers
\* having been counted, the breaker rejects every call until an operator
\* steps in.
Exhausted ==
  /\ state = "HALF_OPEN" /\ probes = HalfOpenMax
  /\ \A c \in Caller : call[c] = "idle"
ExhaustedIsStuck == [][Exhausted => Exhausted' \/ Forced]_vars

\* While no call is cut off, a HALF_OPEN breaker closes or opens again.
HalfOpenResolves == state = "HALF_OPEN" ~> state # "HALF_OPEN" \/ cut

\* A breaker that opened by itself lets calls through again: it does not stay OPEN
\* for good unless an operator forces it.
OpenRecovers == state = "OPEN" ~> state # "OPEN" \/ ordered
=============================================================================
