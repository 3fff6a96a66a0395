------------------------ MODULE CircuitBreakerProofs ------------------------
(***************************************************************************)
(* Proofs about CircuitBreaker, for any callers and thresholds.            *)
(*                                                                         *)
(* TypeOK /\ ClosedBelowThreshold is inductive.  ProbesLimited needs that  *)
(* a step changes the set Probing by at most the caller it is about, and   *)
(* that a period begins with no probe.  ProbesCounted is its other half:   *)
(* probes that are not under way any more have been counted.               *)
(***************************************************************************)
EXTENDS CircuitBreaker, FiniteSetTheorems, TLAPS

BreakerInv == TypeOK /\ ClosedBelowThreshold

CallType == call \in [Caller -> {"idle", "closed", "probe", "late"}]

LEMMA BreakerInvHolds == Spec => []BreakerInv
<1>1. Init => BreakerInv
  <2> SUFFICES ASSUME Init PROVE BreakerInv  OBVIOUS
  <2>1. expired \in BOOLEAN /\ cut \in BOOLEAN /\ ordered \in BOOLEAN
    BY Zenon DEF Init
  <2>2. /\ state = "CLOSED" /\ failures = 0 /\ successes = 0 /\ probes = 0
        /\ call = [c \in Caller |-> "idle"]
    BY DEF Init
  <2>3. QED BY <2>1, <2>2, BreakerAssumption DEF BreakerInv, TypeOK, ClosedBelowThreshold
<1>2. BreakerInv /\ [Next]_vars => BreakerInv'
  <2> SUFFICES ASSUME BreakerInv, [Next]_vars PROVE BreakerInv'  OBVIOUS
  <2>0. CallType /\ Aged \in [Caller -> {"idle", "closed", "probe", "late"}]
    BY DEF BreakerInv, TypeOK, CallType, Aged
  <2> DEFINE Numbers ==
        /\ state \in {"CLOSED", "OPEN", "HALF_OPEN"}
        /\ failures \in 0..FailureThreshold
        /\ successes \in 0..(SuccessThreshold - 1)
        /\ probes \in 0..HalfOpenMax
        /\ state = "CLOSED" => failures < FailureThreshold
  <2>1. ASSUME NEW c \in Caller, Admit(c) \/ Answer(c) PROVE CallType'
    BY <2>0, <2>1 DEF CallType, Admit, AdmitClosed, AdmitProbe, Answer, OnSuccess,
                      OnFailure, Lost, Ends
  <2>2. ASSUME ReadState \/ TimePasses \/ Forced \/ UNCHANGED vars PROVE CallType'
    BY <2>0, <2>2 DEF CallType, ReadState, TimePasses, Forced, ForceOpen, ForceClose,
                      Reset, vars
  <2>3. Numbers  BY DEF BreakerInv, TypeOK, ClosedBelowThreshold
  <2>4. ASSUME NEW c \in Caller, Admit(c) \/ Lost(c) PROVE Numbers'
    <3>1. CASE AdmitClosed(c) \/ Lost(c)
      BY <2>3, <3>1 DEF AdmitClosed, Lost, counts
    <3>2. CASE AdmitProbe(c)
      <4>1. /\ failures' = failures /\ successes' = successes /\ state' = "HALF_OPEN"
            /\ probes' = 1 \/ (probes < HalfOpenMax /\ probes' = probes + 1)
        BY <3>2 DEF AdmitProbe, counts
      <4>2. probes' \in 0..HalfOpenMax
        BY <2>3, <4>1, BreakerAssumption
      <4>3. QED BY <2>3, <4>1, <4>2
    <3>3. QED BY <2>4, <3>1, <3>2 DEF Admit
  <2>5. ASSUME NEW c \in Caller, OnSuccess(c) PROVE Numbers'
    <3>1. CASE state = "HALF_OPEN"
      BY <2>3, <2>5, <3>1, BreakerAssumption DEF OnSuccess
    <3>2. CASE state # "HALF_OPEN"
      BY <2>3, <2>5, <3>2, BreakerAssumption DEF OnSuccess
    <3>3. QED BY <3>1, <3>2
  <2>6. ASSUME NEW c \in Caller, OnFailure(c) PROVE Numbers'
    <3>1. CASE state = "HALF_OPEN"
      <4>1. /\ state' = "OPEN" /\ failures' = failures /\ successes' = 0
            /\ probes' = 0
        BY <2>6, <3>1 DEF OnFailure
      <4>2. QED BY <2>3, <4>1, BreakerAssumption
    <3>2. CASE state # "HALF_OPEN"
      <4>1. /\ failures' = OneMore(failures)
            /\ state' = IF failures' >= FailureThreshold THEN "OPEN" ELSE state
            /\ successes' = successes /\ probes' = probes
        BY <2>6, <3>2 DEF OnFailure
      <4>2. failures' \in 0..FailureThreshold
        BY <2>3, <4>1, BreakerAssumption DEF OneMore
      <4>3. QED BY <2>3, <4>1, <4>2, BreakerAssumption
    <3>3. QED BY <3>1, <3>2
  <2>7. ASSUME ReadState \/ TimePasses \/ UNCHANGED vars PROVE Numbers'
    BY <2>3, <2>7, BreakerAssumption DEF ReadState, TimePasses, vars, counts
  <2>8. ASSUME Forced PROVE Numbers'
    BY <2>3, <2>8, BreakerAssumption DEF Forced, ForceOpen, ForceClose, Reset, counts
  <2>clock. expired' \in BOOLEAN /\ cut' \in BOOLEAN /\ ordered' \in BOOLEAN
    BY Zenon DEF history, ByItself, BreakerInv, TypeOK, Next, Admit, AdmitClosed, AdmitProbe, Answer,
       OnSuccess, OnFailure, Lost, ReadState, TimePasses, Forced, ForceOpen,
       ForceClose, Reset, vars
  <2>9. CallType' /\ Numbers' => BreakerInv'
    BY <2>clock DEF BreakerInv, TypeOK, ClosedBelowThreshold, CallType
  <2>10. QED
    BY <2>1, <2>2, <2>4, <2>5, <2>6, <2>7, <2>8, <2>9 DEF Next, Answer
<1>3. QED BY <1>1, <1>2, PTL DEF Spec

\* The statistics keep their types and stay below their limits.
THEOREM BreakerTypeCorrect == Spec => []TypeOK
BY BreakerInvHolds, PTL DEF BreakerInv

\* A CLOSED breaker has counted fewer failures than failure_threshold.
THEOREM ClosedMeansHealthy == Spec => []ClosedBelowThreshold
BY BreakerInvHolds, PTL DEF BreakerInv

-----------------------------------------------------------------------------
\* Fewer probes are under way after a step that admits none.
LEMMA ProbingShrinks ==
  ASSUME TypeOK, Probing' \subseteq Probing
  PROVE  Cardinality(Probing') <= Cardinality(Probing)
<1>1. IsFiniteSet(Probing)
  BY BreakerAssumption, FS_Subset DEF Probing
<1>2. QED BY <1>1, FS_Subset

LEMMA ProbesLimitedStep ==
  ASSUME TypeOK, TypeOK', ProbesLimited, [Next]_vars
  PROVE  ProbesLimited'
<1>0. /\ IsFiniteSet(Probing) /\ Cardinality(Probing) \in Nat
      /\ IsFiniteSet(Probing') /\ Cardinality(Probing') \in Nat
  BY BreakerAssumption, FS_Subset, FS_CardinalityType DEF Probing
<1>1. ASSUME Probing' \subseteq Probing, probes' = probes, state' = state
      PROVE  ProbesLimited'
  <2>1. Cardinality(Probing') <= Cardinality(Probing)
    BY <1>1, ProbingShrinks
  <2>2. QED BY <1>0, <1>1, <2>1 DEF ProbesLimited, TypeOK
<1>2. ASSUME NEW c \in Caller, AdmitProbe(c) PROVE ProbesLimited'
  <2>1. CASE Recovers /\ state' = "HALF_OPEN" /\ probes' = 1
             /\ call' = [Aged EXCEPT ![c] = "probe"]
    <3>1. Probing' = {c}
      BY <2>1 DEF Probing, Aged, TypeOK
    <3>2. Cardinality({c}) = 1  BY FS_Singleton
    <3>3. QED BY <2>1, <3>1, <3>2 DEF ProbesLimited
  <2>2. CASE /\ state = "HALF_OPEN" /\ probes' = probes + 1
             /\ call' = [call EXCEPT ![c] = "probe"]
             /\ UNCHANGED state
    <3>1. Probing' = Probing \union {c}
      BY <2>2 DEF Probing, TypeOK
    <3>2. c \notin Probing
      BY <1>2 DEF AdmitProbe, Probing
    <3>3. Cardinality(Probing') = Cardinality(Probing) + 1
      BY <1>0, <3>1, <3>2, FS_AddElement
    <3>4. QED BY <1>0, <2>2, <3>3 DEF ProbesLimited, TypeOK
  <2>3. QED BY <1>2, <2>1, <2>2 DEF AdmitProbe
<1>3. ASSUME NEW c \in Caller, OnSuccess(c) \/ OnFailure(c) PROVE ProbesLimited'
  <2>1. Probing' \subseteq Probing
    BY <1>3 DEF OnSuccess, OnFailure, Ends, Probing, TypeOK
  <2>2. state' # "HALF_OPEN" \/ (state' = state /\ probes' = probes)
    BY <1>3 DEF OnSuccess, OnFailure, TypeOK
  <2>3. QED BY <2>1, <2>2, <1>1 DEF ProbesLimited
<1>4. ASSUME NEW c \in Caller, AdmitClosed(c) PROVE ProbesLimited'
  BY <1>4 DEF AdmitClosed, ProbesLimited
<1>5. ASSUME NEW c \in Caller, Lost(c) PROVE ProbesLimited'
  <2>1. Probing' \subseteq Probing
    BY <1>5 DEF Lost, Ends, Probing, TypeOK
  <2>2. QED BY <1>5, <2>1, <1>1 DEF Lost
<1>6. CASE ReadState
  <2>1. Probing' = {}  BY <1>6 DEF ReadState, Aged, Probing, TypeOK
  <2>2. Cardinality({}) = 0  BY FS_EmptySet
  <2>3. QED BY <1>6, <2>1, <2>2 DEF ReadState, ProbesLimited
<1>7. CASE TimePasses \/ UNCHANGED vars
  BY <1>7 DEF TimePasses, vars, ProbesLimited, Probing
<1>8. CASE Forced
  BY <1>8 DEF Forced, ForceOpen, ForceClose, Reset, ProbesLimited
<1>9. QED
  BY <1>2, <1>3, <1>4, <1>5, <1>6, <1>7, <1>8 DEF Next, Admit, Answer

\* No more than half_open_max_calls calls probe in one HALF_OPEN period.
THEOREM ProbesStayLimited == Spec => []ProbesLimited
<1>1. Init => ProbesLimited  BY DEF Init, ProbesLimited
<1>2. TypeOK /\ TypeOK' /\ ProbesLimited /\ [Next]_vars => ProbesLimited'
  BY ProbesLimitedStep
<1>3. QED BY <1>1, <1>2, BreakerTypeCorrect, PTL DEF Spec

-----------------------------------------------------------------------------
\* A breaker that no operator forced OPEN has success_count at zero while it is OPEN,
\* and any breaker while it is CLOSED.
THEOREM OpenForgets == Spec => []OpenForgetsSuccesses
<1> DEFINE Settled == /\ state = "CLOSED" => successes = 0
                      /\ state = "OPEN" => successes = 0 \/ ordered
<1>1. Init => Settled  BY DEF Init
<1>2. TypeOK /\ Settled /\ [Next]_vars => Settled'
  <2> SUFFICES ASSUME TypeOK, Settled, [Next]_vars PROVE Settled'
    OBVIOUS
  <2>1. ASSUME NEW c \in Caller, Admit(c) \/ Answer(c) PROVE Settled'
    BY <2>1 DEF Admit, AdmitClosed, AdmitProbe, Answer, OnSuccess, OnFailure,
                Lost, Ends, Recovers, ByItself, TypeOK, counts, history
  <2>2. CASE ReadState \/ TimePasses \/ UNCHANGED vars
    BY <2>2 DEF ReadState, TimePasses, ByItself, vars, counts, history
  <2>3. CASE Forced
    BY <2>3 DEF Forced, ForceOpen, ForceClose, Reset
  <2>4. QED BY <2>1, <2>2, <2>3 DEF Next
<1>3. Settled => OpenForgetsSuccesses  BY DEF OpenForgetsSuccesses
<1> HIDE DEF Settled
<1>4. QED BY <1>1, <1>2, <1>3, BreakerTypeCorrect, PTL DEF Spec

\* Once the probes are used up and lost, every call is rejected until an
\* operator steps in.
THEOREM ExhaustedStaysStuck == Spec => ExhaustedIsStuck
<1>1. [Next]_vars => (Exhausted => Exhausted' \/ Forced)
  <2> SUFFICES ASSUME [Next]_vars, Exhausted, ~Forced PROVE Exhausted'
    OBVIOUS
  <2>1. ASSUME NEW c \in Caller PROVE ~(Admit(c) \/ Answer(c))
    BY <2>1, BreakerAssumption
    DEF Exhausted, Admit, AdmitClosed, AdmitProbe, Answer, OnSuccess, OnFailure,
        Lost, Ends, Recovers
  <2>2. ~ReadState
    BY DEF Exhausted, ReadState, Recovers
  <2>3. CASE TimePasses \/ UNCHANGED vars
    BY <2>3 DEF Exhausted, TimePasses, vars
  <2>4. QED BY <2>1, <2>2, <2>3 DEF Next
<1>2. QED BY <1>1, PTL DEF Spec, ExhaustedIsStuck

-----------------------------------------------------------------------------
\* While no call is cut off, a probe that has been admitted is under way, or its
\* answer has been counted.
ProbesCounted == state = "HALF_OPEN" /\ ~cut => probes <= Cardinality(Probing) + successes

LEMMA ProbesCountedStep ==
  ASSUME TypeOK, TypeOK', ProbesCounted, [Next]_vars
  PROVE  ProbesCounted'
<1>0. /\ IsFiniteSet(Probing) /\ Cardinality(Probing) \in Nat
      /\ IsFiniteSet(Probing') /\ Cardinality(Probing') \in Nat
      /\ probes \in Nat /\ successes \in Nat /\ successes' \in Nat
  BY BreakerAssumption, FS_Subset, FS_CardinalityType DEF Probing, TypeOK
<1>1. ASSUME NEW c \in Caller, AdmitProbe(c) PROVE ProbesCounted'
  <2>1. CASE probes' = 1 /\ call' = [Aged EXCEPT ![c] = "probe"]
    <3>1. Probing' = {c}
      BY <2>1 DEF Probing, Aged, TypeOK
    <3>2. Cardinality(Probing') = 1  BY <3>1, FS_Singleton
    <3>3. probes' = Cardinality(Probing')  BY <2>1, <3>2
    <3>4. QED BY <1>0, <3>3 DEF ProbesCounted
  <2>2. CASE /\ state = "HALF_OPEN" /\ probes' = probes + 1
             /\ call' = [call EXCEPT ![c] = "probe"]
    <3>1. Probing' = Probing \union {c} /\ c \notin Probing
      BY <1>1, <2>2 DEF AdmitProbe, Probing, TypeOK
    <3>2. Cardinality(Probing') = Cardinality(Probing) + 1
      BY <1>0, <3>1, FS_AddElement
    <3>3. successes' = successes /\ cut' = cut
      BY <1>1 DEF AdmitProbe, ByItself, counts
    <3>4. QED BY <1>0, <2>2, <3>2, <3>3 DEF ProbesCounted
  <2>3. QED BY <1>1, <2>1, <2>2 DEF AdmitProbe
<1>2. ASSUME NEW c \in Caller, OnSuccess(c) PROVE ProbesCounted'
  <2> SUFFICES ASSUME state' = "HALF_OPEN", ~cut' PROVE probes' <= Cardinality(Probing') + successes'
    BY DEF ProbesCounted
  <2>1. /\ state = "HALF_OPEN" /\ ~cut
        /\ probes' = probes /\ successes' = successes + 1
    BY <1>2 DEF OnSuccess, ByItself
  <2>2. Cardinality(Probing) <= Cardinality(Probing') + 1
    <3>1. Probing' = Probing \ {c}
      BY <1>2 DEF OnSuccess, Ends, Probing, TypeOK
    <3>2. CASE c \in Probing
      <4>1. Cardinality(Probing \ {c}) = Cardinality(Probing) - 1
        BY <1>0, <3>2, FS_RemoveElement
      <4>2. QED BY <1>0, <3>1, <4>1
    <3>3. CASE c \notin Probing
      <4>1. Probing' = Probing  BY <3>1, <3>3
      <4>2. QED BY <1>0, <4>1
    <3>4. QED BY <3>2, <3>3
  <2>3. QED BY <1>0, <2>1, <2>2 DEF ProbesCounted
<1>3. ASSUME NEW c \in Caller, OnFailure(c) PROVE ProbesCounted'
  <2>1. state' # "HALF_OPEN"  BY <1>3 DEF OnFailure
  <2>2. QED BY <2>1 DEF ProbesCounted
<1>4. ASSUME NEW c \in Caller, AdmitClosed(c) PROVE ProbesCounted'
  BY <1>4 DEF AdmitClosed, ProbesCounted
<1>5. ASSUME NEW c \in Caller, Lost(c) PROVE ProbesCounted'
  BY <1>5 DEF Lost, ProbesCounted
<1>6. CASE ReadState
  BY <1>0, <1>6 DEF ReadState, ProbesCounted
<1>7. CASE TimePasses \/ UNCHANGED vars
  <2>1. Probing' = Probing /\ UNCHANGED <<state, cut, probes, successes>>
    BY <1>7 DEF TimePasses, vars, counts, history, Probing
  <2>2. QED BY <2>1 DEF ProbesCounted
<1>8. CASE Forced
  BY <1>8 DEF Forced, ForceOpen, ForceClose, Reset, ProbesCounted
<1>9. QED
  BY <1>1, <1>2, <1>3, <1>4, <1>5, <1>6, <1>7, <1>8 DEF Next, Admit, Answer

\* A HALF_OPEN breaker has a probe under way or lets another call through, unless a
\* call was cut off, if half_open_max_calls is not below success_threshold: answers
\* alone, late ones included, never use its probes up.
THEOREM OnlyCutsExhaust ==
  ASSUME HalfOpenMax >= SuccessThreshold
  PROVE  Spec => [](state = "HALF_OPEN" /\ ~cut => Probing # {} \/ probes < HalfOpenMax)
<1>1. Init => ProbesCounted  BY DEF Init, ProbesCounted
<1>2. TypeOK /\ TypeOK' /\ ProbesCounted /\ [Next]_vars => ProbesCounted'
  BY ProbesCountedStep
<1>3. TypeOK /\ ProbesCounted
        => (state = "HALF_OPEN" /\ ~cut => Probing # {} \/ probes < HalfOpenMax)
  BY FS_EmptySet, BreakerAssumption DEF ProbesCounted, TypeOK
<1>4. QED BY <1>1, <1>2, <1>3, BreakerTypeCorrect, PTL DEF Spec
=============================================================================
