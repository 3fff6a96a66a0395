------------------------- MODULE OrderStateMachine -------------------------
(***************************************************************************)
(* The order state machine of domain/execution/state_machine/              *)
(* order_state_machine.py: the table VALID_TRANSITIONS, the one method     *)
(* transition() every other method goes through, the retry counter of      *)
(* RetryEngine and the keys of IdempotencyManager.                         *)
(*                                                                         *)
(* Every method runs under an asyncio lock and awaits nothing that         *)
(* suspends while it holds it, so each call is one atomic step.  A method  *)
(* that raises ValueError leaves the order as it was: it is the Refused    *)
(* alternative of Attempt.                                                 *)
(*                                                                         *)
(* The specification at the end lets any caller call any method at any     *)
(* time; OrderExecution composes the same operators with the engine that   *)
(* really calls them.  The journal of the class is the module OrderJournal.*)
(***************************************************************************)
EXTENDS Naturals

CONSTANTS
  Order,        \* order ids; order_id is a fresh uuid, never reused
  Key,          \* idempotency keys a caller may pass
  NoKey,        \* idempotency_key = None
  NoOrder,      \* no order id
  MaxRetries,   \* RetryConfig.max_retries
  Quantity      \* the ordered quantity, in lots

ASSUME NoKeyAssumption == NoKey \notin Key
ASSUME NoOrderAssumption == NoOrder \notin Order
ASSUME LimitAssumption == MaxRetries \in Nat /\ Quantity \in Nat \ {0}

VARIABLES
  status,       \* Order.status, "ABSENT" while the id is not in _orders
  filled,       \* Order.filled_quantity
  retries,      \* RetryEngine._retry_counts
  keyOf,        \* Order.metadata["idempotency_key"]
  keyOrder,     \* IdempotencyManager._keys[k]["order_id"]
  keyStatus     \* IdempotencyManager._keys[k]["status"], "absent" if no entry

idempotencyVars == <<keyOrder, keyStatus>>
smVars == <<status, filled, retries, keyOf, keyOrder, keyStatus>>

OrderStatus == {"PENDING", "SUBMITTED", "PARTIALLY_FILLED", "FILLED",
                "CANCELLED", "REJECTED", "FAILED", "EXPIRED"}
TerminalStates == {"FILLED", "CANCELLED", "REJECTED", "EXPIRED"}
ActiveStates == {"PENDING", "SUBMITTED", "PARTIALLY_FILLED"}

ValidTransitions ==
  [PENDING          |-> {"SUBMITTED", "REJECTED", "FAILED", "CANCELLED"},
   SUBMITTED        |-> {"PARTIALLY_FILLED", "FILLED", "CANCELLED", "REJECTED",
                         "FAILED", "EXPIRED", "PENDING"},
   PARTIALLY_FILLED |-> {"FILLED", "CANCELLED", "REJECTED", "FAILED"},
   FILLED           |-> {},
   CANCELLED        |-> {},
   REJECTED         |-> {"PENDING"},
   FAILED           |-> {"PENDING"},
   EXPIRED          |-> {}]

Created == {o \in Order : status[o] # "ABSENT"}
KeyEntryStatus == {"absent", "pending", "completed", "failed"}
Processed(k) == keyStatus[k] \in {"completed", "failed"}

Init ==
  /\ status    = [o \in Order |-> "ABSENT"]
  /\ filled    = [o \in Order |-> 0]
  /\ retries   = [o \in Order |-> 0]
  /\ keyOf     = [o \in Order |-> NoKey]
  /\ keyOrder  = [k \in Key |-> NoOrder]
  /\ keyStatus = [k \in Key |-> "absent"]

-----------------------------------------------------------------------------
(* create_order: the order a call goes on with is either the existing one  *)
(* of a processed key or the new one.                                      *)

Existing(k) == k \in Key /\ Processed(k) /\ keyOrder[k] \in Created

\* register() purges the entries older than the ttl (which ones is a matter
\* of time, hence any set), then adds the key only if no entry is left.
Register(o, k) ==
  \E expired \in SUBSET {j \in Key : keyStatus[j] # "absent"} :
    LET kept(j) == keyStatus[j] # "absent" /\ j \notin expired
    IN /\ keyOrder'  = [j \in Key |-> IF kept(j) THEN keyOrder[j]
                                      ELSE IF j = k THEN o ELSE NoOrder]
       /\ keyStatus' = [j \in Key |-> IF kept(j) THEN keyStatus[j]
                                      ELSE IF j = k THEN "pending" ELSE "absent"]

\* register()'s answer is ignored: a key that is already pending does not
\* stop the second order from being created.
CreateNew(o, k) ==
  /\ status[o] = "ABSENT"
  /\ ~Existing(k)
  /\ status' = [status EXCEPT ![o] = "PENDING"]
  /\ keyOf' = [keyOf EXCEPT ![o] = k]
  /\ IF k \in Key THEN Register(o, k) ELSE UNCHANGED idempotencyVars
  /\ UNCHANGED <<filled, retries>>

ReturnExisting(o, k) ==
  /\ status[o] = "ABSENT"
  /\ Existing(k)
  /\ UNCHANGED smVars

-----------------------------------------------------------------------------
(* transition() and the methods built on it.                               *)

\* Mutant of CanMove: the table alone decides, the terminal check is dropped.
CanMoveByTable(o, new) ==
  status[o] \in OrderStatus /\ new \in ValidTransitions[status[o]]

CanMove(o, new) ==
  /\ status[o] \in OrderStatus \ TerminalStates
  /\ new \in ValidTransitions[status[o]]

\* Mutants of SettleKey: only a fill settles the key; every end completes it.
SettleIfFilled(o, new) ==
  keyStatus' = IF new = "FILLED" /\ keyOf[o] \in Key /\ keyStatus[keyOf[o]] # "absent"
               THEN [keyStatus EXCEPT ![keyOf[o]] = "completed"] ELSE keyStatus
SettleCompleted(o, new) ==
  keyStatus' = IF /\ new \in TerminalStates
                  /\ keyOf[o] \in Key /\ keyStatus[keyOf[o]] # "absent"
               THEN [keyStatus EXCEPT ![keyOf[o]] = "completed"] ELSE keyStatus

\* A terminal state settles the order's key if the key has an entry (not
\* necessarily this order's: the entry may have expired and be another's).
SettleKey(o, new) ==
  keyStatus' =
    IF /\ new \in TerminalStates
       /\ keyOf[o] \in Key
       /\ keyStatus[keyOf[o]] # "absent"
    THEN [keyStatus EXCEPT ![keyOf[o]] = IF new = "FILLED" THEN "completed"
                                         ELSE "failed"]
    ELSE keyStatus

Move(o, new, quantity) ==
  /\ status' = [status EXCEPT ![o] = new]
  /\ filled' = [filled EXCEPT ![o] = quantity]
  /\ SettleKey(o, new)
  /\ UNCHANGED <<keyOf, keyOrder>>

Refused == UNCHANGED <<status, filled, keyOf, keyOrder, keyStatus>>

\* transition(): the order moves, or ValueError is raised and nothing does.
Attempt(o, new, quantity) ==
  \/ CanMove(o, new) /\ Move(o, new, quantity)
  \/ ~CanMove(o, new) /\ Refused

Submit(o) == Attempt(o, "SUBMITTED", filled[o]) /\ UNCHANGED retries
PartialFill(o, q) == Attempt(o, "PARTIALLY_FILLED", q) /\ UNCHANGED retries
\* Mutant of Fill: the reported total is added to what was filled before.
FillAdds(o, q) == Attempt(o, "FILLED", filled[o] + q) /\ UNCHANGED retries
Fill(o, q) == Attempt(o, "FILLED", q) /\ UNCHANGED retries
Cancel(o) == Attempt(o, "CANCELLED", filled[o]) /\ UNCHANGED retries
Reject(o) == Attempt(o, "REJECTED", filled[o]) /\ UNCHANGED retries

\* fail(): a retryable error within the limit counts a retry and moves the
\* order back to PENDING, any other error moves it to FAILED.  The retry is
\* counted even when the move is then refused.
\* Mutant of ShouldRetry: one retry too many.
ShouldRetryOnceMore(o, retryable) == retryable /\ retries[o] <= MaxRetries
ShouldRetry(o, retryable) == retryable /\ retries[o] < MaxRetries

Fail(o, retryable) ==
  \/ /\ ShouldRetry(o, retryable)
     /\ retries' = [retries EXCEPT ![o] = @ + 1]
     /\ Attempt(o, "PENDING", filled[o])
  \/ /\ ~ShouldRetry(o, retryable)
     /\ UNCHANGED retries
     /\ Attempt(o, "FAILED", filled[o])

\* reconcile(): only four of the exchange's states are acted upon.
Reconcile(o, exchangeStatus, q) ==
  \/ /\ status[o] # exchangeStatus
     /\ \/ exchangeStatus = "FILLED" /\ Fill(o, q)
        \/ exchangeStatus = "PARTIALLY_FILLED" /\ PartialFill(o, q)
        \/ exchangeStatus = "CANCELLED" /\ Cancel(o)
        \/ exchangeStatus = "REJECTED" /\ Reject(o)
  \/ /\ \/ status[o] = exchangeStatus
        \/ exchangeStatus \in {"PENDING", "SUBMITTED", "FAILED", "EXPIRED"}
     /\ UNCHANGED smVars

-----------------------------------------------------------------------------
CreateOrder(o) == \E k \in Key \union {NoKey} : CreateNew(o, k) \/ ReturnExisting(o, k)

\* Any caller, any method, any order that exists.
Call(o) ==
  /\ o \in Created
  /\ \/ Submit(o)
     \/ Cancel(o)
     \/ Reject(o)
     \/ \E q \in 1..Quantity : PartialFill(o, q) \/ Fill(o, q)
     \/ \E retryable \in BOOLEAN : Fail(o, retryable)
     \/ \E s \in OrderStatus, q \in 1..Quantity : Reconcile(o, s, q)

Next == \E o \in Order : CreateOrder(o) \/ Call(o)

Spec == Init /\ [][Next]_smVars

-----------------------------------------------------------------------------
(* Type invariant of the state machine. *)
TypeOK ==
  /\ status    \in [Order -> OrderStatus \union {"ABSENT"}]
  /\ filled    \in [Order -> 0..Quantity]
  /\ retries   \in [Order -> 0..MaxRetries]
  /\ keyOf     \in [Order -> Key \union {NoKey}]
  /\ keyOrder  \in [Key -> Order \union {NoOrder}]
  /\ keyStatus \in [Key -> KeyEntryStatus]

(* The order a key's entry names was created with that key, and once that  *)
(* order is terminal the entry no longer says "pending": duplicates under  *)
(* the same key and expired entries notwithstanding, a later create_order  *)
(* with the key finds the outcome (lines 296-304 and 372-376).             *)
RegisteredOutcomeRecorded ==
  \A k \in Key : keyStatus[k] # "absent" =>
    /\ keyOrder[k] \in Created
    /\ keyOf[keyOrder[k]] = k
    /\ status[keyOrder[k]] \in TerminalStates => Processed(k)

(* A key marked "completed" was earned by a fill: some order created with  *)
(* this key is FILLED (lines 372-376).                                     *)
CompletedMeansFilled ==
  \A k \in Key : keyStatus[k] = "completed" =>
    \E o \in Order : keyOf[o] = k /\ status[o] = "FILLED"

(* No call ever moves an order out of a terminal state or touches what it  *)
(* filled, whichever of the eight methods is called, in any order; and an  *)
(* order goes back to PENDING only at the price of one retry, of which it  *)
(* has MaxRetries (lines 338-346, 464-494).                                *)
TerminalIsFinal ==
  [][\A o \in Order :
       /\ status[o] \in TerminalStates =>
            status'[o] = status[o] /\ filled'[o] = filled[o]
       /\ (o \in Created /\ status[o] # "PENDING" /\ status'[o] = "PENDING") =>
            retries'[o] = retries[o] + 1]_smVars
=============================================================================
