---------------------------- MODULE OrderPromise ----------------------------
(***************************************************************************)
(* What the execution engine promises about each order, without retries,   *)
(* keys, calls, messages or reconciliation: the caller sees an order being *)
(* worked on and then, for ever, one outcome.  "filled" is promised only   *)
(* when the exchange has executed an order sent on its behalf, "closed"    *)
(* promises nothing about the exchange: the engine may give up an order    *)
(* that is executed later, which is why Execute stays possible.            *)
(***************************************************************************)
CONSTANT Order

VARIABLES
  view,         \* what the engine says: absent, working, filled, closed
  executed      \* whether the exchange executed an order opened for it

promiseVars == <<view, executed>>

TypeOK ==
  /\ view \in [Order -> {"absent", "working", "filled", "closed"}]
  /\ executed \in [Order -> BOOLEAN]

Init ==
  /\ view = [o \in Order |-> "absent"]
  /\ executed = [o \in Order |-> FALSE]

Create(o) ==
  /\ view[o] = "absent"
  /\ view' = [view EXCEPT ![o] = "working"]
  /\ UNCHANGED executed

Execute(o) ==
  /\ view[o] # "absent"
  /\ executed' = [executed EXCEPT ![o] = TRUE]
  /\ UNCHANGED view

ReportFilled(o) ==
  /\ view[o] = "working" /\ executed[o]
  /\ view' = [view EXCEPT ![o] = "filled"]
  /\ UNCHANGED executed

Close(o) ==
  /\ view[o] = "working"
  /\ view' = [view EXCEPT ![o] = "closed"]
  /\ UNCHANGED executed

Next == \E o \in Order : Create(o) \/ Execute(o) \/ ReportFilled(o) \/ Close(o)

Spec == Init /\ [][Next]_promiseVars
=============================================================================
