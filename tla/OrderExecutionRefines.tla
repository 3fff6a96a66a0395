----------------------- MODULE OrderExecutionRefines -----------------------
(***************************************************************************)
(* The engine, its reconciliation and the exchange together implement      *)
(* OrderPromise.  A FAILED order is still "working" in the promise: a      *)
(* retry can bring it back to PENDING.                                     *)
(***************************************************************************)
EXTENDS OrderExecution

View(s) ==
  CASE s = "ABSENT" -> "absent"
    [] s = "FILLED" -> "filled"
    [] s \in {"CANCELLED", "REJECTED", "EXPIRED"} -> "closed"
    [] s \in ActiveStates \union {"FAILED"} -> "working"

viewOf == [o \in Order |-> View(status[o])]

executedOf == [o \in Order |-> \E e \in Opened(o) : xstatus[e] = "FILLED"]

Promise == INSTANCE OrderPromise WITH view <- viewOf, executed <- executedOf

(* Every step of the engine is a step of the promise or invisible to it:   *)
(* an order keeps its outcome, and "filled" is said only of an order the   *)
(* exchange executed (order_state_machine.py:326-389,                      *)
(* execution_engine.py:126-308, reconciliation.py:236-328).                *)
KeepsPromise == Promise!Spec
=============================================================================
