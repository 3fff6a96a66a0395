----------------------- MODULE OrderStateMachineProofs -----------------------
(***************************************************************************)
(* Type correctness of the order state machine and the agreement between   *)
(* orders and idempotency keys, for any sets of orders and keys and any    *)
(* limits.                                                                 *)
(***************************************************************************)
EXTENDS OrderStateMachine, TLAPS

(* What an accepted or refused transition does to the types; the quantity  *)
(* an order is moved with is within the ordered quantity.                  *)
LEMMA AttemptType ==
  ASSUME TypeOK, NEW o \in Order, NEW new \in OrderStatus,
         NEW q \in 0..Quantity, Attempt(o, new, q)
  PROVE  /\ status' \in [Order -> OrderStatus \union {"ABSENT"}]
         /\ filled' \in [Order -> 0..Quantity]
         /\ keyOf' \in [Order -> Key \union {NoKey}]
         /\ keyOrder' \in [Key -> Order \union {NoOrder}]
         /\ keyStatus' \in [Key -> KeyEntryStatus]
<1>1. CASE CanMove(o, new) /\ Move(o, new, q)
  <2>1. /\ status' \in [Order -> OrderStatus \union {"ABSENT"}]
        /\ filled' \in [Order -> 0..Quantity]
        /\ keyOf' \in [Order -> Key \union {NoKey}]
        /\ keyOrder' \in [Key -> Order \union {NoOrder}]
    BY <1>1 DEF Move, TypeOK
  <2>2. keyStatus' \in [Key -> KeyEntryStatus]
    BY <1>1 DEF Move, SettleKey, TypeOK, KeyEntryStatus
  <2>3. QED BY <2>1, <2>2
<1>2. CASE Refused
  BY <1>2 DEF Refused, TypeOK
<1>3. QED BY <1>1, <1>2 DEF Attempt

(* fail() keeps the types; the retry counter stays within MaxRetries.      *)
LEMMA FailType ==
  ASSUME TypeOK, NEW o \in Order, NEW retryable \in BOOLEAN, Fail(o, retryable)
  PROVE  TypeOK'
<1>1. filled[o] \in 0..Quantity BY DEF TypeOK
<1>2. retries' \in [Order -> 0..MaxRetries]
  BY LimitAssumption DEF Fail, ShouldRetry, TypeOK
<1>3. Attempt(o, "PENDING", filled[o]) \/ Attempt(o, "FAILED", filled[o])
  BY DEF Fail
<1>4. QED BY <1>1, <1>2, <1>3, AttemptType DEF TypeOK, OrderStatus

(* The methods that are one transition keep the types.                     *)
LEMMA MethodType ==
  ASSUME TypeOK, NEW o \in Order, NEW q \in 0..Quantity,
         \/ Submit(o) \/ Cancel(o) \/ Reject(o) \/ PartialFill(o, q) \/ Fill(o, q)
  PROVE  TypeOK'
<1>1. filled[o] \in 0..Quantity /\ q \in 0..Quantity
  BY LimitAssumption DEF TypeOK
<1>2. retries' \in [Order -> 0..MaxRetries]
  BY DEF Submit, Cancel, Reject, PartialFill, Fill, TypeOK
<1>3. \E new \in OrderStatus, n \in 0..Quantity : Attempt(o, new, n)
  BY <1>1 DEF Submit, Cancel, Reject, PartialFill, Fill, OrderStatus
<1>4. QED BY <1>2, <1>3, AttemptType DEF TypeOK

(* create_order keeps the types.                                           *)
LEMMA CreateType ==
  ASSUME TypeOK, NEW o \in Order, NEW k \in Key \union {NoKey}, CreateNew(o, k)
  PROVE  TypeOK'
<1>1. /\ status' \in [Order -> OrderStatus \union {"ABSENT"}]
      /\ keyOf' \in [Order -> Key \union {NoKey}]
      /\ filled' \in [Order -> 0..Quantity]
      /\ retries' \in [Order -> 0..MaxRetries]
  BY DEF CreateNew, TypeOK, OrderStatus
<1>2. CASE Register(o, k)
  <2>1. PICK expired \in SUBSET {j \in Key : keyStatus[j] # "absent"} :
          LET kept(j) == keyStatus[j] # "absent" /\ j \notin expired
          IN /\ keyOrder'  = [j \in Key |-> IF kept(j) THEN keyOrder[j]
                                            ELSE IF j = k THEN o ELSE NoOrder]
             /\ keyStatus' = [j \in Key |-> IF kept(j) THEN keyStatus[j]
                                            ELSE IF j = k THEN "pending"
                                                 ELSE "absent"]
    BY <1>2 DEF Register
  <2>2. /\ keyOrder' \in [Key -> Order \union {NoOrder}]
        /\ keyStatus' \in [Key -> KeyEntryStatus]
    BY <2>1 DEF TypeOK, KeyEntryStatus
  <2>3. QED BY <1>1, <2>2 DEF TypeOK
<1>3. CASE UNCHANGED idempotencyVars
  BY <1>1, <1>3 DEF idempotencyVars, TypeOK
<1>4. QED BY <1>2, <1>3 DEF CreateNew

(* Every step of a caller is a creation, a replay, a method or fail().     *)
LEMMA StepCases ==
  ASSUME Next
  PROVE  \/ UNCHANGED smVars
         \/ \E o \in Order, k \in Key \union {NoKey} : CreateNew(o, k)
         \/ \E o \in Created, retryable \in BOOLEAN : Fail(o, retryable)
         \/ \E o \in Created, q \in 1..Quantity :
              Submit(o) \/ Cancel(o) \/ Reject(o) \/ PartialFill(o, q) \/ Fill(o, q)
<1>1. PICK o \in Order : CreateOrder(o) \/ Call(o) BY DEF Next
<1>2. CASE CreateOrder(o) BY <1>2 DEF CreateOrder, ReturnExisting
<1>3. CASE Call(o)
  <2>1. 1 \in 1..Quantity BY LimitAssumption
  <2>2. QED BY <1>3, <2>1 DEF Call, Reconcile
<1>4. QED BY <1>1, <1>2, <1>3

(* The state machine is type correct.                                      *)
THEOREM TypeCorrect == Spec => []TypeOK
<1>1. Init => TypeOK
  BY LimitAssumption DEF Init, TypeOK, KeyEntryStatus
<1>2. TypeOK /\ [Next]_smVars => TypeOK'
  <2> SUFFICES ASSUME TypeOK, [Next]_smVars PROVE TypeOK'
    OBVIOUS
  <2>1. CASE UNCHANGED smVars BY <2>1 DEF smVars, TypeOK
  <2>2. CASE Next
    <3>1. 1..Quantity \subseteq 0..Quantity BY LimitAssumption
    <3>2. QED BY <2>1, <2>2, <3>1, StepCases, CreateType, FailType, MethodType
             DEF Created
  <2>3. QED BY <2>1, <2>2
<1>3. QED BY <1>1, <1>2, PTL DEF Spec

-----------------------------------------------------------------------------
(* An accepted transition keeps keys and orders in agreement.  The order   *)
(* an entry names carries that key, so settling the key of the order that  *)
(* becomes terminal settles the entry; and a FILLED witness stays FILLED   *)
(* because CanMove excludes terminal orders.                               *)
LEMMA AttemptKeys ==
  ASSUME TypeOK, RegisteredOutcomeRecorded, CompletedMeansFilled,
         NEW o \in Order, NEW new \in OrderStatus, NEW q \in 0..Quantity,
         Attempt(o, new, q)
  PROVE  RegisteredOutcomeRecorded' /\ CompletedMeansFilled'
<1>1. CASE CanMove(o, new) /\ Move(o, new, q)
  <2> USE <1>1 DEF Move, TypeOK
  <2>1. status[o] \in OrderStatus \ TerminalStates
    BY DEF CanMove
  <2>2. /\ \A p \in Order : status'[p] = IF p = o THEN new ELSE status[p]
        /\ keyOf' = keyOf /\ keyOrder' = keyOrder
    OBVIOUS
  <2>3. \A k \in Key : (keyStatus'[k] = "absent") <=> (keyStatus[k] = "absent")
    BY DEF SettleKey
  <2>4. \A k \in Key : keyStatus[k] # "absent" /\ keyOf[o] = k /\ new \in TerminalStates
                       => keyStatus'[k] = IF new = "FILLED" THEN "completed"
                                          ELSE "failed"
    BY DEF SettleKey
  <2>5. \A k \in Key : keyOf[o] # k \/ new \notin TerminalStates
                       => keyStatus'[k] = keyStatus[k]
    BY DEF SettleKey
  <2>6. RegisteredOutcomeRecorded'
    <3> SUFFICES ASSUME NEW k \in Key, keyStatus'[k] # "absent"
                 PROVE  /\ keyOrder'[k] \in Created'
                        /\ keyOf'[keyOrder'[k]] = k
                        /\ status'[keyOrder'[k]] \in TerminalStates => Processed(k)'
      BY DEF RegisteredOutcomeRecorded
    <3>1. /\ keyStatus[k] # "absent"
          /\ keyOrder[k] \in Created
          /\ keyOf[keyOrder[k]] = k
          /\ status[keyOrder[k]] \in TerminalStates => Processed(k)
      BY <2>3 DEF RegisteredOutcomeRecorded
    <3>2. keyOrder'[k] \in Created'
      BY <3>1, <2>2 DEF Created, OrderStatus
    <3>3. ASSUME status'[keyOrder'[k]] \in TerminalStates
          PROVE  keyStatus'[k] \in {"completed", "failed"}
      <4>1. CASE keyOrder[k] = o
        BY <4>1, <3>1, <3>3, <2>2, <2>4
      <4>2. CASE keyOrder[k] # o
        <5>1. keyStatus[k] \in {"completed", "failed"}
          BY <4>2, <3>1, <3>3, <2>2 DEF Created, Processed
        <5>2. QED BY <5>1, <3>1, <2>4, <2>5
      <4>3. QED BY <4>1, <4>2
    <3>4. QED BY <3>1, <3>2, <3>3, <2>2 DEF Processed
  <2>7. CompletedMeansFilled'
    <3> SUFFICES ASSUME NEW k \in Key, keyStatus'[k] = "completed"
                 PROVE  \E p \in Order : keyOf'[p] = k /\ status'[p] = "FILLED"
      BY DEF CompletedMeansFilled
    <3>1. CASE keyOf[o] = k /\ new = "FILLED"
      BY <3>1, <2>2
    <3>2. CASE keyOf[o] # k \/ new \notin TerminalStates
      <4>1. PICK p \in Order : keyOf[p] = k /\ status[p] = "FILLED"
        BY <3>2, <2>5 DEF CompletedMeansFilled
      <4>2. p # o BY <4>1, <2>1 DEF TerminalStates
      <4>3. QED BY <4>1, <4>2, <2>2
    <3>3. CASE keyOf[o] = k /\ new \in TerminalStates \ {"FILLED"}
      <4>1. keyStatus[k] # "absent" BY <2>3
      <4>2. keyStatus'[k] = "failed" BY <4>1, <3>3, <2>4
      <4>3. QED BY <4>2
    <3>4. QED BY <3>1, <3>2, <3>3
  <2>8. QED BY <2>6, <2>7
<1>2. CASE Refused
  BY <1>2 DEF Refused, RegisteredOutcomeRecorded, CompletedMeansFilled, Created,
              Processed
<1>3. QED BY <1>1, <1>2 DEF Attempt

(* A new order takes over a key only if no entry for it is left, and it    *)
(* was named by no entry before, being absent.                             *)
LEMMA CreateKeys ==
  ASSUME TypeOK, RegisteredOutcomeRecorded, CompletedMeansFilled,
         NEW o \in Order, NEW k \in Key \union {NoKey}, CreateNew(o, k)
  PROVE  RegisteredOutcomeRecorded' /\ CompletedMeansFilled'
<1> USE DEF TypeOK, CreateNew
<1>1. /\ status[o] = "ABSENT"
      /\ \A p \in Order : status'[p] = IF p = o THEN "PENDING" ELSE status[p]
      /\ \A p \in Order : keyOf'[p] = IF p = o THEN k ELSE keyOf[p]
  OBVIOUS
<1>2. \A j \in Key :
        \/ keyStatus'[j] = "absent"
        \/ keyStatus'[j] = keyStatus[j] /\ keyOrder'[j] = keyOrder[j]
        \/ j = k /\ keyStatus'[j] = "pending" /\ keyOrder'[j] = o
  <2>1. CASE k \in Key
    <3>1. PICK expired \in SUBSET {j \in Key : keyStatus[j] # "absent"} :
            LET kept(j) == keyStatus[j] # "absent" /\ j \notin expired
            IN /\ keyOrder'  = [j \in Key |-> IF kept(j) THEN keyOrder[j]
                                              ELSE IF j = k THEN o ELSE NoOrder]
               /\ keyStatus' = [j \in Key |-> IF kept(j) THEN keyStatus[j]
                                              ELSE IF j = k THEN "pending"
                                                   ELSE "absent"]
      BY <2>1 DEF Register
    <3>2. QED BY <3>1
  <2>2. CASE k \notin Key BY <2>2 DEF idempotencyVars
  <2>3. QED BY <2>1, <2>2
<1>3. RegisteredOutcomeRecorded'
  <2> SUFFICES ASSUME NEW j \in Key, keyStatus'[j] # "absent"
               PROVE  /\ keyOrder'[j] \in Created'
                      /\ keyOf'[keyOrder'[j]] = j
                      /\ status'[keyOrder'[j]] \in TerminalStates => Processed(j)'
    BY DEF RegisteredOutcomeRecorded
  <2>1. CASE keyStatus'[j] = keyStatus[j] /\ keyOrder'[j] = keyOrder[j]
    <3>1. /\ keyOrder[j] \in Created
          /\ keyOf[keyOrder[j]] = j
          /\ status[keyOrder[j]] \in TerminalStates => Processed(j)
      BY <2>1 DEF RegisteredOutcomeRecorded
    <3>2. keyOrder[j] \in Order /\ keyOrder[j] # o
      BY <3>1, <1>1 DEF Created
    <3>3. QED BY <3>1, <3>2, <2>1, <1>1 DEF Created, Processed
  <2>2. CASE j = k /\ keyStatus'[j] = "pending" /\ keyOrder'[j] = o
    BY <2>2, <1>1 DEF Created, TerminalStates
  <2>3. QED BY <2>1, <2>2, <1>2
<1>4. CompletedMeansFilled'
  <2> SUFFICES ASSUME NEW j \in Key, keyStatus'[j] = "completed"
               PROVE  \E p \in Order : keyOf'[p] = j /\ status'[p] = "FILLED"
    BY DEF CompletedMeansFilled
  <2>1. PICK p \in Order : keyOf[p] = j /\ status[p] = "FILLED"
    BY <1>2 DEF CompletedMeansFilled
  <2>2. QED BY <2>1, <1>1
<1>5. QED BY <1>3, <1>4

(* The keys agree with the orders, whatever the callers do.                *)
THEOREM KeysAgree == Spec => [](RegisteredOutcomeRecorded /\ CompletedMeansFilled)
<1> DEFINE Inv == RegisteredOutcomeRecorded /\ CompletedMeansFilled
<1>1. Init => Inv
  BY DEF Init, RegisteredOutcomeRecorded, CompletedMeansFilled
<1>2. TypeOK /\ Inv /\ [Next]_smVars => Inv'
  <2> SUFFICES ASSUME TypeOK, Inv, [Next]_smVars PROVE Inv'
    OBVIOUS
  <2>1. CASE UNCHANGED smVars
    BY <2>1 DEF smVars, RegisteredOutcomeRecorded, CompletedMeansFilled, Created,
                Processed
  <2>2. ASSUME NEW o \in Order, NEW k \in Key \union {NoKey}, CreateNew(o, k)
        PROVE  Inv'
    BY <2>2, CreateKeys
  <2>3. ASSUME NEW o \in Order, NEW retryable \in BOOLEAN, Fail(o, retryable)
        PROVE  Inv'
    <3>1. filled[o] \in 0..Quantity BY DEF TypeOK
    <3>2. Attempt(o, "PENDING", filled[o]) \/ Attempt(o, "FAILED", filled[o])
      BY <2>3 DEF Fail
    <3>3. QED BY <3>1, <3>2, AttemptKeys DEF OrderStatus
  <2>4. ASSUME NEW o \in Order, NEW q \in 1..Quantity,
               Submit(o) \/ Cancel(o) \/ Reject(o) \/ PartialFill(o, q) \/ Fill(o, q)
        PROVE  Inv'
    <3>1. filled[o] \in 0..Quantity /\ q \in 0..Quantity
      BY LimitAssumption DEF TypeOK
    <3>2. \E new \in OrderStatus, n \in 0..Quantity : Attempt(o, new, n)
      BY <2>4, <3>1 DEF Submit, Cancel, Reject, PartialFill, Fill, OrderStatus
    <3>3. QED BY <3>2, AttemptKeys
  <2>5. QED BY <2>1, <2>2, <2>3, <2>4, StepCases DEF Created
<1>3. QED BY <1>1, <1>2, TypeCorrect, PTL DEF Spec

(* Outcomes are final, and a way back to PENDING costs a retry.            *)
THEOREM OutcomesFinal == Spec => TerminalIsFinal
<1> DEFINE Final(o) ==
      /\ status[o] \in TerminalStates =>
           status'[o] = status[o] /\ filled'[o] = filled[o]
      /\ (o \in Created /\ status[o] # "PENDING" /\ status'[o] = "PENDING") =>
           retries'[o] = retries[o] + 1
<1>1. TypeOK /\ [Next]_smVars => [\A o \in Order : Final(o)]_smVars
  <2> SUFFICES ASSUME TypeOK, Next, NEW p \in Order PROVE Final(p) \/ UNCHANGED smVars
    OBVIOUS
  <2> USE DEF TypeOK
  <2>1. ASSUME NEW o \in Order, NEW k \in Key \union {NoKey}, CreateNew(o, k)
        PROVE  Final(p)
    BY <2>1 DEF CreateNew, Created, TerminalStates
  <2>2. ASSUME NEW o \in Order, NEW retryable \in BOOLEAN, Fail(o, retryable)
        PROVE  Final(p)
    <3>1. CASE ShouldRetry(o, retryable)
      BY <3>1, <2>2 DEF Fail, Attempt, CanMove, Move, Refused, Created
    <3>2. CASE ~ShouldRetry(o, retryable)
      BY <3>2, <2>2 DEF Fail, Attempt, CanMove, Move, Refused, Created
    <3>3. QED BY <3>1, <3>2
  <2>3. ASSUME NEW o \in Order, NEW q \in 1..Quantity,
               Submit(o) \/ Cancel(o) \/ Reject(o) \/ PartialFill(o, q) \/ Fill(o, q)
        PROVE  Final(p)
    <3>1. PICK new \in OrderStatus \ {"PENDING"}, n \in Nat : Attempt(o, new, n)
      BY <2>3, LimitAssumption
         DEF Submit, Cancel, Reject, PartialFill, Fill, OrderStatus
    <3>2. QED BY <3>1 DEF Attempt, CanMove, Move, Refused, Created
  <2>4. QED BY <2>1, <2>2, <2>3, StepCases DEF Created
<1>2. QED BY <1>1, TypeCorrect, PTL DEF Spec, TerminalIsFinal, Created

(* A key is said to be completed only if an order with the key was filled, *)
(* however many orders share it and whichever of them settles it           *)
(* (transition(), lines 372-376).                                          *)
THEOREM CompletionsAreFills == Spec => []CompletedMeansFilled
BY KeysAgree, PTL
=============================================================================
