------------------------ MODULE OrderExecutionProofs ------------------------
(***************************************************************************)
(* Type correctness of the execution engine, the invariant BackingInv and  *)
(* the refinement of OrderPromise, for any sets of orders and keys and any *)
(* limits.  The order of the proofs is: what a method of the state machine *)
(* changes, one lemma per invariant with one step per action, the          *)
(* refinement, the counters.                                               *)
(***************************************************************************)
EXTENDS OrderExecutionRefines, OrderStateMachineProofs, SequenceTheorems, FiniteSetTheorems

(* A call of a method of the state machine on o, as the engine makes it.   *)
Method(o) ==
  \/ Submit(o) \/ Cancel(o) \/ Reject(o)
  \/ \E q \in 0..Quantity : PartialFill(o, q) \/ Fill(o, q)
  \/ \E retryable \in BOOLEAN : Fail(o, retryable)

(* A method keeps the types and the set of orders.                         *)
LEMMA MethodEffect ==
  ASSUME TypeOK, NEW o \in Order, Method(o)
  PROVE  TypeOK' /\ Created' = Created
<1>1. 0 \in 0..Quantity BY LimitAssumption
<1>2. TypeOK' BY <1>1, MethodType, FailType DEF Method
<1>3. \E new \in OrderStatus, q \in 0..Quantity : Attempt(o, new, q)
  <2>1. filled[o] \in 0..Quantity BY DEF TypeOK
  <2>2. QED BY <2>1 DEF Method, Submit, Cancel, Reject, PartialFill, Fill, Fail,
                        OrderStatus
<1>4. Created' = Created
  <2>1. PICK new \in OrderStatus, q \in 0..Quantity : Attempt(o, new, q)
    BY <1>3
  <2>2. CASE CanMove(o, new) /\ Move(o, new, q)
    <3>1. \A p \in Order : status'[p] = IF p = o THEN new ELSE status[p]
      BY <2>2 DEF Move, TypeOK
    <3>2. status[o] # "ABSENT" /\ new # "ABSENT"
      BY <2>2 DEF CanMove, OrderStatus
    <3>3. QED BY <3>1, <3>2 DEF Created
  <2>3. CASE Refused BY <2>3 DEF Refused, Created
  <2>4. QED BY <2>1, <2>2, <2>3 DEF Attempt
<1>5. QED BY <1>2, <1>4

(* So does reconcile().                                                    *)
LEMMA ReconcileEffect ==
  ASSUME TypeOK, NEW o \in Order, NEW s, NEW q \in 0..Quantity, Reconcile(o, s, q)
  PROVE  TypeOK' /\ Created' = Created
<1>1. CASE Method(o) BY <1>1, MethodEffect
<1>2. CASE UNCHANGED smVars BY <1>2 DEF smVars, TypeOK, Created
<1>3. QED BY <1>1, <1>2 DEF Reconcile, Method

-----------------------------------------------------------------------------
(* What is needed beside the types: an id that is asked for or stored is   *)
(* that of an exchange order, so that reading its state makes sense.       *)
TypeInv == ExecTypeOK /\ CallsInv /\ IdsInv /\ AskedInv

(* An exchange order stays with the order it was opened for.               *)
LEMMA OpenedGrows ==
  ASSUME \A e \in Order : orderOf[e] # NoOrder => orderOf'[e] = orderOf[e],
         \A e \in Order : xstatus[e] # "NONE" => xstatus'[e] # "NONE"
  PROVE  \A o \in Order : Opened(o) \subseteq Opened(o)'
BY NoOrderAssumption DEF Opened

(* Steps of the exchange: it opens orders, never forgets one, and answers  *)
(* only about those it opened.                                             *)
LEMMA ExchangeType ==
  ASSUME TypeInv, NEW o \in Order, Exchange(o)
  PROVE  TypeInv'
<1> USE DEF TypeInv, ExecTypeOK
<1>1. TypeOK' /\ Created' = Created
  BY DEF Exchange, XAccept, XRefuse, XFill, XReject, XExpire, XCancel, XAnswer,
         XNoAnswer, XLoseUpdate, unchangedLocal, smVars, TypeOK, Created
<1>2. /\ exchangeId' = exchangeId /\ orderOf' = orderOf /\ stats' = stats
      /\ orphans' = orphans /\ running' = running /\ queryId' = queryId
      /\ cancelId' = cancelId
  BY DEF Exchange, XAccept, XRefuse, XFill, XReject, XExpire, XCancel, XAnswer,
         XNoAnswer, XLoseUpdate, unchangedLocal, cancelVars, reconVars
<1>3. /\ xstatus' \in [Order -> XStatus \union {"NONE"}]
      /\ xfilled' \in [Order -> 0..Quantity]
      /\ call' \in [Order -> CallPhase]
      /\ cancel' \in [Order -> {"idle", "sent", "ok", "error"}]
  <2>1. CASE XAccept(o)
    <3>1. PICK r \in {"accepted", "retryable", "fatal"} : call' = [call EXCEPT ![o] = r]
      BY <2>1 DEF XAccept
    <3>2. call' \in [Order -> CallPhase] BY <3>1 DEF CallPhase
    <3>3. QED BY <2>1, <3>2 DEF XAccept, XStatus, XLive, cancelVars
  <2>2. CASE XRefuse(o)
    <3>1. PICK r \in {"retryable", "fatal"} : call' = [call EXCEPT ![o] = r]
      BY <2>2 DEF XRefuse
    <3>2. call' \in [Order -> CallPhase] BY <3>1 DEF CallPhase
    <3>3. QED BY <2>2, <3>2 DEF XRefuse, cancelVars, exchangeVars
  <2>3. CASE XFill(o)
    <3>1. PICK q \in (xfilled[o] + 1)..Quantity :
            /\ xfilled' = [xfilled EXCEPT ![o] = q]
            /\ xstatus' = [xstatus EXCEPT ![o] = IF q = Quantity THEN "FILLED"
                                                 ELSE "PARTIALLY_FILLED"]
      BY <2>3 DEF XFill
    <3>2. q \in 0..Quantity BY LimitAssumption
    <3>3. QED BY <2>3, <3>1, <3>2 DEF XFill, XStatus, XLive, cancelVars
  <2>4. CASE XReject(o) \/ XExpire(o) \/ XLoseUpdate(o)
    BY <2>4 DEF XReject, XExpire, XLoseUpdate, XStatus, XLive, cancelVars
  <2>5. CASE XCancel(o)
    <3>1. PICK r \in {"ok", "error"} : cancel' = [cancel EXCEPT ![o] = r]
      BY <2>5 DEF XCancel
    <3>2. cancel' \in [Order -> {"idle", "sent", "ok", "error"}] BY <3>1
    <3>3. CASE UNCHANGED xstatus BY <2>5, <3>2, <3>3 DEF XCancel
    <3>4. CASE xstatus' = [xstatus EXCEPT ![cancelId[o]] = "CANCELED"]
      BY <2>5, <3>2, <3>4 DEF XCancel, XStatus
    <3>5. QED BY <2>5, <3>3, <3>4 DEF XCancel
  <2>6. CASE XAnswer(o) \/ XNoAnswer(o)
    BY <2>6 DEF XAnswer, XNoAnswer, cancelVars, exchangeVars
  <2>7. QED BY <2>1, <2>2, <2>3, <2>4, <2>5, <2>6 DEF Exchange
<1>4. updates' \in [Order -> Seq(Update)]
  <2>1. CASE XFill(o)
    <3>1. PICK q \in (xfilled[o] + 1)..Quantity : Notify(o, "fill", q)
      BY <2>1 DEF XFill
    <3>2. [kind |-> "fill", quantity |-> q] \in Update
      BY <3>1, LimitAssumption DEF Update
    <3>3. QED BY <3>1, <3>2, AppendProperties DEF Notify
  <2>2. CASE XReject(o)
    <3>1. [kind |-> "reject", quantity |-> 0] \in Update
      BY LimitAssumption DEF Update
    <3>2. QED BY <2>2, <3>1, AppendProperties DEF XReject, Notify
  <2>3. CASE XLoseUpdate(o)
    BY <2>3, HeadTailProperties DEF XLoseUpdate
  <2>4. CASE UNCHANGED updates BY <2>4
  <2>5. QED BY <2>1, <2>2, <2>3, <2>4
          DEF Exchange, XAccept, XRefuse, XExpire, XCancel, XAnswer, XNoAnswer,
              exchangeVars
<1>5. /\ query' \in [Order -> QueryPhase]
      /\ snapshot' \in [Order -> [status : XStatus, quantity : 0..Quantity]]
      /\ \A p \in Order : query'[p] \in {"sent", "answered", "failed"} =>
                           query[p] \in {"sent", "answered", "failed"}
  <2>1. CASE XAnswer(o)
    <3>1. queryId[o] \in Order /\ xstatus[queryId[o]] # "NONE"
      BY <2>1 DEF XAnswer, AskedInv, Opened
    <3>2. [status |-> xstatus[queryId[o]], quantity |-> xfilled[queryId[o]]]
            \in [status : XStatus, quantity : 0..Quantity]
      BY <3>1
    <3>3. QED BY <2>1, <3>2 DEF XAnswer, QueryPhase
  <2>2. CASE XNoAnswer(o) BY <2>2 DEF XNoAnswer, QueryPhase
  <2>3. CASE UNCHANGED <<query, snapshot>> BY <2>3
  <2>4. QED BY <2>1, <2>2, <2>3
          DEF Exchange, XAccept, XRefuse, XFill, XReject, XExpire, XCancel,
              XLoseUpdate, reconVars
<1>6. \A e \in Order : xstatus[e] # "NONE" => xstatus'[e] # "NONE"
  BY DEF Exchange, XAccept, XRefuse, XFill, XReject, XExpire, XCancel, XAnswer,
         XNoAnswer, XLoseUpdate, exchangeVars
<1>7. CallsInv'
  <2>1. CASE XAccept(o)
    BY <1>1, <1>2, <2>1 DEF XAccept, CallsInv, CallPhase
  <2>2. CASE XRefuse(o)
    BY <1>1, <1>2, <2>2 DEF XRefuse, CallsInv, CallPhase, exchangeVars
  <2>3. CASE call' = call /\ \A e \in Order : xstatus[e] = "NONE" => xstatus'[e] = "NONE"
    BY <1>1, <1>2, <1>6, <2>3 DEF CallsInv
  <2>4. QED BY <2>1, <2>2, <2>3
          DEF Exchange, XFill, XReject, XExpire, XCancel, XAnswer, XNoAnswer,
              XLoseUpdate, XLive, exchangeVars
<1>8. IdsInv' /\ AskedInv'
  BY <1>2, <1>5, <1>6, OpenedGrows DEF IdsInv, AskedInv
<1>9. QED BY <1>1, <1>2, <1>3, <1>4, <1>5, <1>7, <1>8

Counters == [total : Nat, successful : Nat, failed : Nat]

(* Counting one more keeps the counters natural numbers.                   *)
LEMMA CountOne ==
  ASSUME NEW s \in Counters
  PROVE  /\ [s EXCEPT !.total = @ + 1] \in Counters
         /\ [s EXCEPT !.successful = @ + 1] \in Counters
         /\ [s EXCEPT !.failed = @ + 1] \in Counters
<1>1. s.total \in Nat /\ s.successful \in Nat /\ s.failed \in Nat
  BY DEF Counters
<1>2. s.total + 1 \in Nat /\ s.successful + 1 \in Nat /\ s.failed + 1 \in Nat
  BY <1>1
<1>3. QED BY <1>2 DEF Counters

(* submit_order up to its await.                                           *)
LEMMA SubmitType ==
  ASSUME TypeInv, NEW c \in Order, SubmitOrder(c)
  PROVE  TypeInv'
<1> USE DEF TypeInv, ExecTypeOK
<1>1. PICK k \in Key \union {NoKey} :
        \/ CreateNew(c, k) /\ orderOf' = [orderOf EXCEPT ![c] = c]
        \/ ReturnExisting(c, k) /\ orderOf' = [orderOf EXCEPT ![c] = keyOrder[k]]
  BY DEF SubmitOrder
<1>2. TypeOK' /\ Created \subseteq Created' /\ orderOf'[c] \in Created'
      /\ orderOf' = [orderOf EXCEPT ![c] = orderOf'[c]]
  <2>1. CASE CreateNew(c, k) /\ orderOf' = [orderOf EXCEPT ![c] = c]
    <3>1. TypeOK' BY <2>1, CreateType
    <3>2. QED BY <2>1, <3>1 DEF CreateNew, Created, TypeOK
  <2>2. CASE ReturnExisting(c, k) /\ orderOf' = [orderOf EXCEPT ![c] = keyOrder[k]]
    <3>1. keyOrder[k] \in Created BY <2>2 DEF ReturnExisting, Existing
    <3>2. UNCHANGED smVars BY <2>2 DEF ReturnExisting
    <3>3. QED BY <2>2, <3>1, <3>2 DEF smVars, Created, TypeOK
  <2>3. QED BY <1>1, <2>1, <2>2
<1>3. /\ call[c] = "idle" /\ call' = [call EXCEPT ![c] = "sent"]
      /\ exchangeId' = exchangeId /\ query' = query /\ queryId' = queryId
      /\ xstatus' = xstatus
  BY DEF SubmitOrder, reconVars, exchangeVars
<1>4. /\ orderOf' \in [Order -> Order \union {NoOrder}]
      /\ call' \in [Order -> CallPhase]
  BY <1>2, <1>3 DEF Created, CallPhase
<1>5. stats' \in [total : Nat, successful : Nat, failed : Nat]
  BY CountOne DEF SubmitOrder, Counters
<1>6. CallsInv'
  <2> SUFFICES ASSUME NEW d \in Order
               PROVE  /\ call'[d] = "idle" <=> orderOf'[d] = NoOrder
                      /\ orderOf'[d] # NoOrder => orderOf'[d] \in Created'
                      /\ call'[d] \in {"idle", "sent"} => xstatus'[d] = "NONE"
                      /\ call'[d] = "accepted" => xstatus'[d] # "NONE"
    BY DEF CallsInv
  <2>1. CASE d = c
    <3>1. orderOf'[c] # NoOrder BY <1>2, NoOrderAssumption DEF Created
    <3>2. QED BY <1>2, <1>3, <2>1, <3>1 DEF CallsInv
  <2>2. CASE d # c
    BY <1>2, <1>3, <2>2 DEF CallsInv
  <2>3. QED BY <2>1, <2>2
<1>7. \A e \in Order : orderOf[e] # NoOrder => orderOf'[e] = orderOf[e]
  BY <1>2, <1>3 DEF CallsInv
<1>8. IdsInv' /\ AskedInv'
  BY <1>3, <1>7, OpenedGrows DEF IdsInv, AskedInv
<1>9. QED
  BY <1>2, <1>3, <1>4, <1>5, <1>6, <1>8
     DEF SubmitOrder, cancelVars, reconVars, exchangeVars

(* The rest of submit_order.                                               *)
LEMMA ReturnType ==
  ASSUME TypeInv, NEW c \in Order, SubmitAccepted(c) \/ SubmitFailed(c)
  PROVE  TypeInv'
<1> USE DEF TypeInv, ExecTypeOK
<1>1. call[c] \in {"accepted", "retryable", "fatal"} /\ orderOf[c] \in Created
  BY DEF SubmitAccepted, SubmitFailed, CallsInv
<1>2. orderOf[c] \in Order BY <1>1 DEF Created
<1>3. Method(orderOf[c])
  BY DEF SubmitAccepted, SubmitFailed, Method
<1>4. TypeOK' /\ Created' = Created BY <1>2, <1>3, MethodEffect
<1>5. Return(c) BY DEF SubmitAccepted, SubmitFailed
<1>6. stats' \in [total : Nat, successful : Nat, failed : Nat]
  <2>1. stats' = stats \/ stats' = [stats EXCEPT !.failed = @ + 1]
    BY DEF SubmitAccepted, SubmitFailed
  <2>2. QED BY <2>1, CountOne DEF Counters
<1>7. \/ exchangeId' = exchangeId
      \/ /\ call[c] = "accepted"
         /\ exchangeId' = [exchangeId EXCEPT ![orderOf[c]] = c]
  BY DEF SubmitAccepted, SubmitFailed
<1>8. CallsInv'
  BY <1>1, <1>2, <1>4, <1>5, NoOrderAssumption DEF CallsInv, Return, exchangeVars
<1>9. \A p \in Order : Opened(p)' = Opened(p)
  BY <1>5 DEF Opened, Return, exchangeVars
<1>10. call[c] = "accepted" => c \in Opened(orderOf[c])
  BY DEF CallsInv, Opened
<1>11. IdsInv' BY <1>2, <1>7, <1>9, <1>10 DEF IdsInv
<1>12. AskedInv' BY <1>5, <1>9 DEF AskedInv, Return, reconVars
<1>13. exchangeId' \in [Order -> Order \union {NoOrder}] BY <1>7
<1>14. call' \in [Order -> CallPhase] BY <1>5 DEF Return, CallPhase
<1>15. QED
  BY <1>4, <1>5, <1>6, <1>8, <1>11, <1>12, <1>13, <1>14
     DEF Return, cancelVars, reconVars, exchangeVars

(* cancel_order and the message handlers.                                  *)
LEMMA HandlerType ==
  ASSUME TypeInv, NEW o \in Order,
         CancelLocal(o) \/ CancelRequest(o) \/ CancelReturn(o) \/ HandleUpdate(o)
  PROVE  TypeInv'
<1> USE DEF TypeInv, ExecTypeOK
<1>1. UNCHANGED smVars \/ \E p \in Order : Method(p)
  <2>1. CASE CancelLocal(o) \/ CancelReturn(o)
    BY <2>1 DEF CancelLocal, CancelReturn, Method
  <2>2. CASE CancelRequest(o) BY <2>2 DEF CancelRequest
  <2>3. CASE HandleUpdate(o)
    <3>1. Head(updates[o]) \in Update
      BY <2>3, HeadTailProperties DEF HandleUpdate
    <3>2. QED BY <2>3, <3>1 DEF HandleUpdate, Method, Update, Created
  <2>4. QED BY <2>1, <2>2, <2>3
<1>2. TypeOK' /\ Created' = Created
  <2>1. CASE UNCHANGED smVars BY <2>1 DEF smVars, TypeOK, Created
  <2>2. QED BY <1>1, <2>1, MethodEffect
<1>3. /\ UNCHANGED <<exchangeId, call, orderOf, reconVars, orphans, xstatus, xfilled>>
      /\ cancel' \in [Order -> {"idle", "sent", "ok", "error"}]
      /\ cancelId' \in [Order -> Order \union {NoOrder}]
      /\ stats' \in [total : Nat, successful : Nat, failed : Nat]
      /\ updates' \in [Order -> Seq(Update)]
  <2>1. CASE CancelLocal(o) \/ CancelRequest(o) \/ CancelReturn(o)
    BY <2>1 DEF CancelLocal, CancelRequest, CancelReturn, engineVars, cancelVars,
       exchangeVars
  <2>2. CASE HandleUpdate(o)
    <3>1. updates' \in [Order -> Seq(Update)]
      BY <2>2, HeadTailProperties DEF HandleUpdate
    <3>2. stats' \in [total : Nat, successful : Nat, failed : Nat]
      <4>1. \/ stats' = stats
            \/ stats' = [stats EXCEPT !.successful = @ + 1]
            \/ stats' = [stats EXCEPT !.failed = @ + 1]
        BY <2>2 DEF HandleUpdate
      <4>2. QED BY <4>1, CountOne DEF Counters
    <3>3. QED BY <2>2, <3>1, <3>2 DEF HandleUpdate, cancelVars
  <2>3. QED BY <2>1, <2>2
<1>4. CallsInv' BY <1>2, <1>3 DEF CallsInv
<1>5. IdsInv' /\ AskedInv'
  BY <1>3 DEF IdsInv, AskedInv, Opened, reconVars
<1>6. QED BY <1>2, <1>3, <1>4, <1>5 DEF reconVars

(* The reconciliation loop and the orphan clean-up.                        *)
LEMMA ReconciliationType ==
  ASSUME TypeInv, Reconciliation
  PROVE  TypeInv'
<1> USE DEF TypeInv, ExecTypeOK
<1>1. TypeOK' /\ Created' = Created
  <2>1. CASE UNCHANGED smVars BY <2>1 DEF smVars, TypeOK, Created
  <2>2. CASE \E o \in Order : CleanupOrphan(o)
    BY <2>2, MethodEffect DEF CleanupOrphan, Method
  <2>3. CASE \E o \in Order : ReconcileApply(o)
    <3>1. PICK o \in Order : ReconcileApply(o) BY <2>3
    <3>2. snapshot[o].quantity \in 0..Quantity OBVIOUS
    <3>3. QED BY <2>1, <3>1, <3>2, ReconcileEffect DEF ReconcileApply
  <2>4. QED
    BY <2>1, <2>2, <2>3
       DEF Reconciliation, StartLoop, StopLoop, ReconcileAll, NextBatch,
           DetectOrphans, ReconcileAsk
<1>2. UNCHANGED <<engineVars, cancelVars, exchangeVars>>
  BY DEF Reconciliation, StartLoop, StopLoop, ReconcileAll, NextBatch,
         DetectOrphans, ReconcileAsk, ReconcileApply, CleanupOrphan
<1>3. /\ running' \in BOOLEAN
      /\ query' \in [Order -> QueryPhase]
      /\ queryId' \in [Order -> Order \union {NoOrder}]
      /\ snapshot' \in [Order -> [status : XStatus, quantity : 0..Quantity]]
      /\ orphans' \subseteq Order
      /\ \A o \in Order : query'[o] \in {"sent", "answered", "failed"} =>
           \/ query[o] \in {"sent", "answered", "failed"} /\ queryId'[o] = queryId[o]
           \/ exchangeId[o] # NoOrder /\ queryId'[o] = exchangeId[o]
  <2>1. CASE StartLoop \/ StopLoop
    BY <2>1 DEF StartLoop, StopLoop, QueryPhase
  <2>2. CASE ReconcileAll BY <2>2 DEF ReconcileAll, QueryPhase
  <2>3. CASE NextBatch
    <3>1. PICK batch \in SUBSET {o \in Order : query[o] = "queued"} :
            query' = [o \in Order |-> IF o \in batch THEN "batched" ELSE query[o]]
      BY <2>3 DEF NextBatch
    <3>2. QED BY <2>3, <3>1 DEF NextBatch, QueryPhase
  <2>4. CASE DetectOrphans
    BY <2>4 DEF DetectOrphans, reconVars
  <2>5. CASE \E o \in Order : ReconcileAsk(o)
    BY <2>5 DEF ReconcileAsk, QueryPhase
  <2>6. CASE \E o \in Order : ReconcileApply(o)
    <3>1. [status |-> "NEW", quantity |-> 0] \in [status : XStatus, quantity : 0..Quantity]
      BY LimitAssumption DEF XStatus, XLive
    <3>2. QED BY <2>6, <3>1 DEF ReconcileApply, QueryPhase
  <2>7. CASE \E o \in Order : CleanupOrphan(o)
    BY <2>7 DEF CleanupOrphan, reconVars
  <2>8. QED BY <2>1, <2>2, <2>3, <2>4, <2>5, <2>6, <2>7 DEF Reconciliation
<1>4. CallsInv' BY <1>1, <1>2 DEF CallsInv, engineVars, exchangeVars
<1>5. \A o \in Order : Opened(o)' = Opened(o)
  BY <1>2 DEF Opened, engineVars, exchangeVars
<1>6. IdsInv' BY <1>2, <1>5 DEF IdsInv, engineVars
<1>7. AskedInv' BY <1>2, <1>3, <1>5 DEF IdsInv, AskedInv
<1>8. QED
  BY <1>1, <1>2, <1>3, <1>4, <1>6, <1>7 DEF engineVars, cancelVars, exchangeVars

(* A step that changes nothing.                                            *)
LEMMA StutterType ==
  ASSUME TypeInv, UNCHANGED vars
  PROVE  TypeInv'
BY DEF vars, smVars, engineVars, cancelVars, reconVars, exchangeVars, TypeInv,
       ExecTypeOK, TypeOK, CallsInv, IdsInv, AskedInv, Opened, Created

(* Whatever the engine, the loop and the exchange do, the ids and the      *)
(* quantities they exchange are of the right kind; in particular a query   *)
(* is only ever made with the id of an exchange order.                     *)
THEOREM IdsKnown == ExecSpec => []TypeInv
<1>1. ExecInit => TypeInv
  <2> SUFFICES ASSUME ExecInit PROVE TypeInv OBVIOUS
  <2>1. TypeOK
    BY LimitAssumption DEF ExecInit, Init, TypeOK, KeyEntryStatus
  <2>2. ExecTypeOK
    <3>1. stats \in [total : Nat, successful : Nat, failed : Nat]
      BY DEF ExecInit
    <3>2. updates \in [Order -> Seq(Update)]
      <4>1. <<>> \in Seq(Update) OBVIOUS
      <4>2. QED BY <4>1 DEF ExecInit
    <3>3. snapshot \in [Order -> [status : XStatus, quantity : 0..Quantity]]
      BY LimitAssumption DEF ExecInit, XStatus, XLive
    <3>4. QED BY <2>1, <3>1, <3>2, <3>3, LimitAssumption
             DEF ExecInit, ExecTypeOK, CallPhase, QueryPhase
  <2>3. CallsInv /\ IdsInv /\ AskedInv
    BY DEF ExecInit, CallsInv, IdsInv, AskedInv
  <2>4. QED BY <2>2, <2>3 DEF TypeInv
<1>2. TypeInv /\ [ExecNext]_vars => TypeInv'
  BY ExchangeType, SubmitType, ReturnType, HandlerType, ReconciliationType,
     StutterType DEF ExecNext, Engine
<1>3. QED BY <1>1, <1>2, PTL DEF ExecSpec

(* In particular the engine, its reconciliation and the exchange are type  *)
(* correct.                                                                *)
THEOREM ExecTypeCorrect == ExecSpec => []ExecTypeOK
<1>1. TypeInv => ExecTypeOK BY DEF TypeInv
<1>2. QED BY <1>1, IdsKnown, PTL

-----------------------------------------------------------------------------
(* The engine is never ahead of the exchange.                              *)

(* The exchange does not take anything back: what was executed stays       *)
(* executed, FILLED and REJECTED are final, an order that was opened stays *)
(* known and stays with the order it was opened for.                       *)
Forward ==
  /\ \A o \in Order : Opened(o) \subseteq Opened(o)'
  /\ \A e \in Order : /\ xfilled[e] <= xfilled'[e]
                      /\ xstatus[e] \in {"FILLED", "REJECTED"} =>
                           xstatus'[e] = xstatus[e]

LEMMA StepForward ==
  ASSUME TypeInv, [ExecNext]_vars
  PROVE  Forward
<1> USE DEF TypeInv, ExecTypeOK
<1>1. \A e \in Order : xfilled[e] \in 0..Quantity OBVIOUS
<1>2. CASE UNCHANGED <<orderOf, xstatus, xfilled>>
  BY <1>1, <1>2, LimitAssumption DEF Forward, Opened
<1>3. ASSUME NEW c \in Order, SubmitOrder(c) PROVE Forward
  <2>1. \A e \in Order : orderOf[e] # NoOrder => orderOf'[e] = orderOf[e]
    BY <1>3 DEF SubmitOrder, CallsInv
  <2>2. UNCHANGED <<xstatus, xfilled>> BY <1>3 DEF SubmitOrder, exchangeVars
  <2>3. QED BY <1>1, <2>1, <2>2, OpenedGrows, LimitAssumption DEF Forward
<1>4. ASSUME NEW o \in Order, Exchange(o) PROVE Forward
  <2>1. orderOf' = orderOf
    BY <1>4 DEF Exchange, XAccept, XRefuse, XFill, XReject, XExpire, XCancel,
       XAnswer, XNoAnswer, XLoseUpdate, unchangedLocal
  <2>2. \A e \in Order : /\ xstatus[e] # "NONE" => xstatus'[e] # "NONE"
                         /\ xstatus[e] \in {"FILLED", "REJECTED"} =>
                              xstatus'[e] = xstatus[e]
    BY <1>4 DEF Exchange, XAccept, XRefuse, XFill, XReject, XExpire, XCancel,
       XAnswer, XNoAnswer, XLoseUpdate, exchangeVars, XLive, CallsInv
  <2>3. \A e \in Order : xfilled[e] <= xfilled'[e]
    <3>1. CASE XFill(o)
      BY <1>1, <3>1, LimitAssumption DEF XFill
    <3>2. CASE UNCHANGED xfilled BY <1>1, <3>2, LimitAssumption
    <3>3. QED BY <1>4, <3>1, <3>2
             DEF Exchange, XAccept, XRefuse, XReject, XExpire, XCancel,
                 XAnswer, XNoAnswer, XLoseUpdate, exchangeVars
  <2>4. \A e \in Order : orderOf[e] # NoOrder => orderOf'[e] = orderOf[e]
    BY <2>1
  <2>5. \A e \in Order : xstatus[e] # "NONE" => xstatus'[e] # "NONE"
    BY <2>2
  <2>6. \A p \in Order : Opened(p) \subseteq Opened(p)'
    BY <2>4, <2>5, OpenedGrows
  <2>7. \A e \in Order : /\ xfilled[e] <= xfilled'[e]
                         /\ xstatus[e] \in {"FILLED", "REJECTED"} =>
                              xstatus'[e] = xstatus[e]
    BY <2>2, <2>3, Zenon
  <2>8. QED BY <2>6, <2>7, Zenon DEF Forward
<1>5. CASE Reconciliation
  BY <1>2, <1>5 DEF Reconciliation, StartLoop, StopLoop, ReconcileAll, NextBatch,
     DetectOrphans, ReconcileAsk, ReconcileApply, CleanupOrphan, engineVars,
     exchangeVars
<1>6. ASSUME NEW o \in Order, Engine(o) PROVE Forward
  BY <1>2, <1>3, <1>6 DEF Engine, SubmitAccepted, SubmitFailed, Return,
     CancelLocal, CancelRequest, CancelReturn, HandleUpdate, engineVars, exchangeVars
<1>7. CASE UNCHANGED vars BY <1>2, <1>7 DEF vars, engineVars, exchangeVars
<1>8. QED BY <1>4, <1>5, <1>6, <1>7 DEF ExecNext

(* For a chain of bounds in a context too large for arithmetic.            *)
LEMMA LeqTransitive == \A a, b, c \in Int : a <= b /\ b <= c => a <= c
OBVIOUS

(* Where nothing moves locally, nothing can get ahead.                     *)
LEMMA IdleBacked ==
  ASSUME TypeInv, TypeInv', Forward, LocalBacked, WorkingHasExchangeOrder,
         UNCHANGED <<filled, exchangeId>>,
         \A o \in Order : \/ status'[o] = status[o]
                          \/ status'[o] = "PENDING"
  PROVE  LocalBacked' /\ WorkingHasExchangeOrder'
<1> USE DEF TypeInv, ExecTypeOK, TypeOK
<1>1. WorkingHasExchangeOrder'
  BY DEF WorkingHasExchangeOrder, Forward
<1>2. ASSUME NEW o \in Order
      PROVE  /\ status'[o] = "FILLED" => \E e \in Opened(o)' : xstatus'[e] = "FILLED"
             /\ status'[o] = "REJECTED" => \E e \in Opened(o)' : xstatus'[e] = "REJECTED"
             /\ filled'[o] > 0 => \E e \in Opened(o)' : filled'[o] <= xfilled'[e]
  <2>1. \A e \in Opened(o) : e \in Order /\ e \in Opened(o)' BY DEF Opened, Forward
  <2>2. ASSUME status'[o] = "FILLED" PROVE \E e \in Opened(o)' : xstatus'[e] = "FILLED"
    <3>1. status[o] = "FILLED" BY <2>2
    <3>2. PICK e \in Opened(o) : xstatus[e] = "FILLED" BY <3>1 DEF LocalBacked
    <3>3. QED BY <2>1, <3>2 DEF Forward
  <2>3. ASSUME status'[o] = "REJECTED"
        PROVE  \E e \in Opened(o)' : xstatus'[e] = "REJECTED"
    <3>1. status[o] = "REJECTED" BY <2>3
    <3>2. PICK e \in Opened(o) : xstatus[e] = "REJECTED" BY <3>1 DEF LocalBacked
    <3>3. QED BY <2>1, <3>2 DEF Forward
  <2>4. ASSUME filled'[o] > 0 PROVE \E e \in Opened(o)' : filled'[o] <= xfilled'[e]
    <3>1. PICK e \in Opened(o) : filled[o] <= xfilled[e] BY <2>4 DEF LocalBacked
    <3>2. xfilled[e] <= xfilled'[e] /\ e \in Opened(o)' BY <2>1, <3>1 DEF Forward
    <3>3. e \in Order BY <2>1, <3>1
    <3>4. filled[o] \in Int BY LimitAssumption
    <3>5. xfilled[e] \in Int BY <3>3, LimitAssumption
    <3>6. xfilled'[e] \in Int BY <3>3, LimitAssumption
    <3>7. filled[o] <= xfilled'[e]
      BY <3>1, <3>2, <3>4, <3>5, <3>6, LeqTransitive
    <3>8. filled'[o] = filled[o] OBVIOUS
    <3>9. QED BY <3>2, <3>7, <3>8
  <2>5. QED BY <2>2, <2>3, <2>4
<1>3. LocalBacked' BY <1>2 DEF LocalBacked
<1>4. QED BY <1>1, <1>3

(* A transition keeps the engine behind the exchange if what it reports of *)
(* its order is true of an exchange order opened for it.  An order that is *)
(* filled was SUBMITTED before, so its id is known already.                *)
LEMMA MoveBacked ==
  ASSUME TypeInv, TypeInv', Forward, LocalBacked, WorkingHasExchangeOrder,
         NEW o \in Order, NEW new \in OrderStatus, NEW q \in 0..Quantity,
         Attempt(o, new, q),
         new = "FILLED" => \E e \in Opened(o) : xstatus[e] = "FILLED",
         new = "REJECTED" => \E e \in Opened(o) : xstatus[e] = "REJECTED",
         q > 0 => \E e \in Opened(o) : q <= xfilled[e],
         new = "SUBMITTED" => exchangeId'[o] \in Opened(o)',
         \A p \in Order : exchangeId[p] \in Opened(p) => exchangeId'[p] \in Opened(p)'
  PROVE  LocalBacked' /\ WorkingHasExchangeOrder'
<1>1. /\ status \in [Order -> OrderStatus \union {"ABSENT"}]
      /\ filled \in [Order -> 0..Quantity]
  BY DEF TypeInv, ExecTypeOK, TypeOK
<1>2. \A e \in Order : xfilled[e] \in Int /\ xfilled'[e] \in Int
  BY LimitAssumption DEF TypeInv, ExecTypeOK
<1>3. \/ CanMove(o, new) /\ Move(o, new, q)
      \/ status' = status /\ filled' = filled
  BY DEF Attempt, Refused
<1>4. \A p \in Order : \/ status'[p] = status[p] /\ filled'[p] = filled[p]
                       \/ p = o /\ status'[p] = new /\ filled'[p] = q
  BY <1>1, <1>3 DEF Move
<1>5. \A p \in Order : \A e \in Opened(p) : e \in Order /\ e \in Opened(p)'
  BY DEF Opened, Forward
<1>6. ASSUME NEW p \in Order, status'[p] = "FILLED"
      PROVE  \E e \in Opened(p)' : xstatus'[e] = "FILLED"
  <2>1. PICK e \in Opened(p) : xstatus[e] = "FILLED"
    BY <1>4, <1>6 DEF LocalBacked
  <2>2. QED BY <1>5, <2>1 DEF Forward
<1>7. ASSUME NEW p \in Order, status'[p] = "REJECTED"
      PROVE  \E e \in Opened(p)' : xstatus'[e] = "REJECTED"
  <2>1. PICK e \in Opened(p) : xstatus[e] = "REJECTED"
    BY <1>4, <1>7 DEF LocalBacked
  <2>2. QED BY <1>5, <2>1 DEF Forward
<1>8. ASSUME NEW p \in Order, filled'[p] > 0
      PROVE  \E e \in Opened(p)' : filled'[p] <= xfilled'[e]
  <2>1. PICK e \in Opened(p) : filled'[p] <= xfilled[e]
    BY <1>4, <1>8 DEF LocalBacked
  <2>2. filled'[p] \in Int BY <1>1, <1>4, LimitAssumption
  <2>3. e \in Order /\ e \in Opened(p)' BY <1>5
  <2>4. xfilled[e] <= xfilled'[e] BY <2>3 DEF Forward
  <2>5. filled'[p] <= xfilled'[e] BY <1>2, <2>1, <2>2, <2>3, <2>4, LeqTransitive
  <2>6. QED BY <2>3, <2>5
<1>9. LocalBacked' BY <1>6, <1>7, <1>8 DEF LocalBacked
<1>10. ASSUME NEW p \in Order,
              status'[p] \in {"SUBMITTED", "PARTIALLY_FILLED", "FILLED"}
       PROVE  exchangeId'[p] \in Opened(p)'
  <2>1. CASE status'[p] = status[p]
    BY <1>10, <2>1 DEF WorkingHasExchangeOrder
  <2>2. CASE status'[p] # status[p] /\ new = "SUBMITTED" BY <1>4, <2>2
  <2>3. CASE status'[p] # status[p] /\ new # "SUBMITTED"
    <3>1. p = o /\ new \in {"PARTIALLY_FILLED", "FILLED"} BY <1>4, <1>10, <2>3
    <3>2. CanMove(o, new) BY <1>3, <2>3
    <3>3. status[o] \in {"SUBMITTED", "PARTIALLY_FILLED"}
      BY <3>1, <3>2 DEF CanMove, ValidTransitions, OrderStatus, TerminalStates
    <3>4. QED BY <3>1, <3>3 DEF WorkingHasExchangeOrder
  <2>4. QED BY <2>1, <2>2, <2>3
<1>11. WorkingHasExchangeOrder' BY <1>10 DEF WorkingHasExchangeOrder
<1>12. QED BY <1>9, <1>11

(* UpdateTrue in the next state. *)
TrueNext(e, m) ==
  /\ m.kind = "fill" => /\ m.quantity <= xfilled'[e]
                        /\ m.quantity = Quantity => xstatus'[e] = "FILLED"
  /\ m.kind = "reject" => xstatus'[e] = "REJECTED"

(* What the exchange said, in an answer or in a message, stays true of it. *)
LEMMA SaidStaysTrue ==
  ASSUME TypeInv, TypeInv', Forward, SnapshotsInv, UpdatesInv, [ExecNext]_vars
  PROVE  SnapshotsInv' /\ UpdatesInv'
<1>1. \A e \in Order : xfilled[e] \in Int /\ xfilled'[e] \in Int
  BY LimitAssumption DEF TypeInv, ExecTypeOK
<1>2. ASSUME NEW e \in Order, NEW m \in Update, UpdateTrue(e, m)
      PROVE  TrueNext(e, m)
  <2>1. m.quantity \in Int BY LimitAssumption DEF Update
  <2>2. xfilled[e] <= xfilled'[e] BY DEF Forward
  <2>3. m.kind = "fill" => m.quantity <= xfilled'[e]
    BY <1>1, <1>2, <2>1, <2>2, LeqTransitive DEF UpdateTrue
  <2>4. /\ m.kind = "fill" /\ m.quantity = Quantity => xstatus'[e] = "FILLED"
        /\ m.kind = "reject" => xstatus'[e] = "REJECTED"
    BY <1>2 DEF UpdateTrue, Forward
  <2>5. QED BY <2>3, <2>4 DEF TrueNext
<1>3. \A e \in Order : updates[e] \in Seq(Update) /\ updates'[e] \in Seq(Update)
  BY DEF TypeInv, ExecTypeOK
<1>4. ASSUME NEW e \in Order, updates'[e] = updates[e]
      PROVE  \A i \in 1..Len(updates'[e]) : TrueNext(e, updates'[e][i])
  <2>1. ASSUME NEW i \in 1..Len(updates'[e]) PROVE TrueNext(e, updates'[e][i])
    <3>1. updates[e][i] \in Update BY <1>3, <1>4, ElementOfSeq
    <3>2. UpdateTrue(e, updates[e][i]) BY <1>4 DEF UpdatesInv
    <3>3. QED BY <1>2, <1>4, <3>1, <3>2
  <2>2. QED BY <2>1
<1>5. ASSUME NEW e \in Order, updates[e] # <<>>, updates'[e] = Tail(updates[e])
      PROVE  \A i \in 1..Len(updates'[e]) : TrueNext(e, updates'[e][i])
  <2>1. \A i \in 1..Len(updates'[e]) :
           /\ i + 1 \in 1..Len(updates[e])
           /\ updates'[e][i] = updates[e][i + 1]
    BY <1>3, <1>5, HeadTailProperties
  <2>2. ASSUME NEW i \in 1..Len(updates'[e]) PROVE TrueNext(e, updates'[e][i])
    <3>1. updates[e][i + 1] \in Update BY <1>3, <2>1, ElementOfSeq
    <3>2. UpdateTrue(e, updates[e][i + 1]) BY <2>1 DEF UpdatesInv
    <3>3. QED BY <1>2, <2>1, <3>1, <3>2
  <2>3. QED BY <2>2
<1>6. ASSUME NEW e \in Order, NEW m \in Update, TrueNext(e, m),
             updates'[e] = Append(updates[e], m)
      PROVE  \A i \in 1..Len(updates'[e]) : TrueNext(e, updates'[e][i])
  <2>1. /\ Len(updates'[e]) = Len(updates[e]) + 1
        /\ updates'[e][Len(updates[e]) + 1] = m
        /\ \A i \in 1..Len(updates[e]) : updates'[e][i] = updates[e][i]
    BY <1>3, <1>6, AppendProperties
  <2>2. Len(updates[e]) \in Nat BY <1>3, LenProperties
  <2>3. \A i \in 1..Len(updates'[e]) :
          i \in 1..Len(updates[e]) \/ i = Len(updates[e]) + 1
    BY <2>1, <2>2
  <2>4. ASSUME NEW i \in 1..Len(updates[e]) PROVE TrueNext(e, updates'[e][i])
    <3>1. updates[e][i] \in Update BY <1>3, ElementOfSeq
    <3>2. UpdateTrue(e, updates[e][i]) BY DEF UpdatesInv
    <3>3. QED BY <1>2, <2>1, <3>1, <3>2
  <2>5. QED BY <1>6, <2>1, <2>3, <2>4
<1>7. UpdatesInv'
  <2> SUFFICES ASSUME NEW e \in Order
               PROVE  \/ updates'[e] = updates[e]
                      \/ updates[e] # <<>> /\ updates'[e] = Tail(updates[e])
                      \/ \E m \in Update :
                           TrueNext(e, m) /\ updates'[e] = Append(updates[e], m)
    <3>1. UpdatesInv' <=> \A e \in Order : \A i \in 1..Len(updates'[e]) :
                           TrueNext(e, updates'[e][i])
      BY DEF UpdatesInv, UpdateTrue, TrueNext
    <3>2. QED BY <1>4, <1>5, <1>6, <3>1
  <2>1. updates \in [Order -> Seq(Update)] /\ xfilled \in [Order -> 0..Quantity]
        /\ xstatus \in [Order -> XStatus \union {"NONE"}]
    BY DEF TypeInv, ExecTypeOK
  <2>2. ASSUME NEW o \in Order, XFill(o)
        PROVE  \/ updates'[e] = updates[e]
               \/ \E m \in Update :
                    TrueNext(e, m) /\ updates'[e] = Append(updates[e], m)
    <3>1. PICK q \in (xfilled[o] + 1)..Quantity :
            /\ xfilled' = [xfilled EXCEPT ![o] = q]
            /\ xstatus' = [xstatus EXCEPT ![o] = IF q = Quantity THEN "FILLED"
                                                 ELSE "PARTIALLY_FILLED"]
            /\ Notify(o, "fill", q)
      BY <2>2 DEF XFill
    <3>2. [kind |-> "fill", quantity |-> q] \in Update
      BY <2>1, LimitAssumption DEF Update
    <3>3. TrueNext(o, [kind |-> "fill", quantity |-> q])
      BY <2>1, <3>1, LimitAssumption DEF TrueNext
    <3>4. QED BY <2>1, <3>1, <3>2, <3>3 DEF Notify
  <2>3. ASSUME NEW o \in Order, XReject(o)
        PROVE  \/ updates'[e] = updates[e]
               \/ \E m \in Update :
                    TrueNext(e, m) /\ updates'[e] = Append(updates[e], m)
    <3>1. [kind |-> "reject", quantity |-> 0] \in Update
      BY LimitAssumption DEF Update
    <3>2. TrueNext(o, [kind |-> "reject", quantity |-> 0])
      BY <2>1, <2>3 DEF TrueNext, XReject
    <3>3. QED BY <2>1, <2>3, <3>1, <3>2 DEF XReject, Notify
  <2>4. ASSUME NEW o \in Order, HandleUpdate(o) \/ XLoseUpdate(o)
        PROVE  \/ updates'[e] = updates[e]
               \/ updates[e] # <<>> /\ updates'[e] = Tail(updates[e])
    BY <2>1, <2>4 DEF HandleUpdate, XLoseUpdate
  <2>5. CASE UNCHANGED updates BY <2>5
  <2>6. QED
    BY <2>2, <2>3, <2>4, <2>5
       DEF ExecNext, Engine, Exchange, Reconciliation, SubmitOrder, SubmitAccepted,
           SubmitFailed, Return, CancelLocal, CancelRequest, CancelReturn, StartLoop,
           StopLoop, ReconcileAll, NextBatch, DetectOrphans, ReconcileAsk,
           ReconcileApply, CleanupOrphan, XAccept, XRefuse, XExpire, XCancel,
           XAnswer, XNoAnswer, vars, exchangeVars
<1>8. SnapshotsInv'
  <2> SUFFICES ASSUME NEW o \in Order, query'[o] = "answered"
               PROVE  /\ snapshot'[o].status \in {"FILLED", "REJECTED"} =>
                           xstatus'[queryId'[o]] = snapshot'[o].status
                      /\ snapshot'[o].quantity <= xfilled'[queryId'[o]]
    BY DEF SnapshotsInv
  <2>1. CASE UNCHANGED <<query[o], queryId[o], snapshot[o]>>
    <3>1. queryId[o] \in Order
      BY <2>1 DEF TypeInv, AskedInv, Opened
    <3>2. snapshot[o].quantity \in Int
      BY LimitAssumption DEF TypeInv, ExecTypeOK
    <3>3. xfilled[queryId[o]] <= xfilled'[queryId[o]] BY <3>1 DEF Forward
    <3>4. snapshot[o].quantity <= xfilled'[queryId[o]]
      BY <1>1, <2>1, <3>1, <3>2, <3>3, LeqTransitive DEF SnapshotsInv
    <3>5. snapshot[o].status \in {"FILLED", "REJECTED"} =>
            xstatus'[queryId[o]] = snapshot[o].status
      BY <2>1, <3>1 DEF SnapshotsInv, Forward
    <3>6. QED BY <2>1, <3>4, <3>5
  <2>2. CASE XAnswer(o)
    <3>1. queryId[o] \in Order
      BY <2>2 DEF XAnswer, TypeInv, AskedInv, Opened
    <3>2. snapshot'[o] = [status |-> xstatus[queryId[o]], quantity |-> xfilled[queryId[o]]]
      BY <2>2 DEF XAnswer, TypeInv, ExecTypeOK
    <3>3. UNCHANGED <<queryId, xstatus, xfilled>> BY <2>2 DEF XAnswer, exchangeVars
    <3>4. xfilled[queryId[o]] <= xfilled[queryId[o]] BY <1>1, <3>1
    <3>5. QED BY <3>2, <3>3, <3>4
  <2>3. query \in [Order -> QueryPhase] /\ queryId \in [Order -> Order \union {NoOrder}]
        /\ snapshot \in [Order -> [status : XStatus, quantity : 0..Quantity]]
    BY DEF TypeInv, ExecTypeOK
  <2>4. ASSUME NEW p \in Order, Exchange(p), ~XAnswer(o)
        PROVE  UNCHANGED <<query[o], queryId[o], snapshot[o]>>
    BY <2>3, <2>4
       DEF Exchange, XAccept, XRefuse, XFill, XReject, XExpire, XCancel, XAnswer,
           XNoAnswer, XLoseUpdate, reconVars
  <2>5. ASSUME NEW p \in Order, Engine(p)
        PROVE  UNCHANGED <<query[o], queryId[o], snapshot[o]>>
    BY <2>5
       DEF Engine, SubmitOrder, SubmitAccepted, SubmitFailed, Return, CancelLocal,
           CancelRequest, CancelReturn, HandleUpdate, reconVars
  <2>6. ASSUME Reconciliation
        PROVE  UNCHANGED <<query[o], queryId[o], snapshot[o]>>
    BY <2>3, <2>6
       DEF Reconciliation, StartLoop, StopLoop, ReconcileAll, NextBatch,
           DetectOrphans, ReconcileAsk, ReconcileApply, CleanupOrphan, reconVars
  <2>7. CASE UNCHANGED vars BY <2>1, <2>7 DEF vars, reconVars
  <2>8. QED BY <2>1, <2>2, <2>4, <2>5, <2>6, <2>7 DEF ExecNext
<1>9. QED BY <1>7, <1>8

(* The part of BackingInv that TypeInv does not hold.                      *)
TruthInv == SnapshotsInv /\ UpdatesInv /\ LocalBacked /\ WorkingHasExchangeOrder

(* fail() and cancel() claim nothing about the exchange.                   *)
LEMMA GiveUpBacked ==
  ASSUME TypeInv, TypeInv', Forward, LocalBacked, WorkingHasExchangeOrder,
         NEW o \in Order,
         Cancel(o) \/ \E retryable \in BOOLEAN : Fail(o, retryable),
         \A p \in Order : exchangeId[p] \in Opened(p) => exchangeId'[p] \in Opened(p)'
  PROVE  LocalBacked' /\ WorkingHasExchangeOrder'
<1>1. filled[o] \in 0..Quantity BY DEF TypeInv, ExecTypeOK, TypeOK
<1>2. filled[o] > 0 => \E e \in Opened(o) : filled[o] <= xfilled[e]
  BY DEF LocalBacked
<1>3. PICK new \in {"CANCELLED", "PENDING", "FAILED"} : Attempt(o, new, filled[o])
  BY DEF Cancel, Fail
<1>4. new \in OrderStatus /\ new \notin {"FILLED", "REJECTED", "SUBMITTED"}
  BY DEF OrderStatus
<1>5. QED BY <1>1, <1>2, <1>3, <1>4, MoveBacked

(* submit_order stores the id of the order the exchange has just opened    *)
(* for this order object.                                                  *)
LEMMA AcceptedBacked ==
  ASSUME TypeInv, TypeInv', Forward, LocalBacked, WorkingHasExchangeOrder,
         NEW c \in Order, SubmitAccepted(c)
  PROVE  LocalBacked' /\ WorkingHasExchangeOrder'
<1>1. PICK o \in Order : o = orderOf[c] /\ c \in Opened(o)
  BY DEF SubmitAccepted, TypeInv, CallsInv, Opened, Created
<1>2. exchangeId' = [exchangeId EXCEPT ![o] = c] BY <1>1 DEF SubmitAccepted
<1>3. exchangeId \in [Order -> Order \union {NoOrder}] BY DEF TypeInv, ExecTypeOK
<1>4. exchangeId'[o] \in Opened(o)' BY <1>1, <1>2, <1>3 DEF Forward
<1>5. \A p \in Order : exchangeId[p] \in Opened(p) => exchangeId'[p] \in Opened(p)'
  BY <1>2, <1>3, <1>4 DEF Forward
<1>6. CASE Fail(o, FALSE) BY <1>1, <1>5, <1>6, GiveUpBacked
<1>7. CASE Submit(o)
  <2>1. filled[o] \in 0..Quantity BY <1>1 DEF TypeInv, ExecTypeOK, TypeOK
  <2>2. filled[o] > 0 => \E e \in Opened(o) : filled[o] <= xfilled[e]
    BY <1>1 DEF LocalBacked
  <2>3. Attempt(o, "SUBMITTED", filled[o]) BY <1>7 DEF Submit
  <2>4. QED BY <1>1, <1>4, <1>5, <2>1, <2>2, <2>3, MoveBacked DEF OrderStatus
<1>8. QED BY <1>1, <1>6, <1>7 DEF SubmitAccepted

(* A handler applies a message of the exchange order whose id the order    *)
(* holds; reconcile() applies an answer about an exchange order opened for *)
(* it.  Either was said of that exchange order and is still true of it.    *)
LEMMA ToldBacked ==
  ASSUME TypeInv, TypeInv', Forward, LocalBacked, WorkingHasExchangeOrder,
         exchangeId' = exchangeId,
         NEW o \in Order, NEW e \in Opened(o), NEW q \in 0..Quantity,
         \/ Fill(o, q) /\ q <= xfilled[e] /\ xstatus[e] = "FILLED"
         \/ PartialFill(o, q) /\ q <= xfilled[e]
         \/ Reject(o) /\ xstatus[e] = "REJECTED"
  PROVE  LocalBacked' /\ WorkingHasExchangeOrder'
<1>1. filled[o] \in 0..Quantity BY DEF TypeInv, ExecTypeOK, TypeOK
<1>2. filled[o] > 0 => \E x \in Opened(o) : filled[o] <= xfilled[x]
  BY DEF LocalBacked
<1>3. \A p \in Order : exchangeId[p] \in Opened(p) => exchangeId'[p] \in Opened(p)'
  BY DEF Forward
<1>4. CASE Fill(o, q) /\ q <= xfilled[e] /\ xstatus[e] = "FILLED"
  <2>1. Attempt(o, "FILLED", q) BY <1>4 DEF Fill
  <2>2. QED BY <1>3, <1>4, <2>1, MoveBacked DEF OrderStatus
<1>5. CASE PartialFill(o, q) /\ q <= xfilled[e]
  <2>1. Attempt(o, "PARTIALLY_FILLED", q) BY <1>5 DEF PartialFill
  <2>2. QED BY <1>3, <1>5, <2>1, MoveBacked DEF OrderStatus
<1>6. CASE Reject(o) /\ xstatus[e] = "REJECTED"
  <2>1. Attempt(o, "REJECTED", filled[o]) BY <1>6 DEF Reject
  <2>2. QED BY <1>1, <1>2, <1>3, <1>6, <2>1, MoveBacked DEF OrderStatus
<1>7. QED BY <1>4, <1>5, <1>6

LEMMA HandleBacked ==
  ASSUME TypeInv, TypeInv', Forward, TruthInv, NEW e \in Order, HandleUpdate(e)
  PROVE  LocalBacked' /\ WorkingHasExchangeOrder'
<1> USE DEF TruthInv
<1> DEFINE m == Head(updates[e])
<1>1. exchangeId' = exchangeId BY DEF HandleUpdate
<1>2. updates[e] \in Seq(Update) /\ updates[e] # <<>>
  BY DEF HandleUpdate, TypeInv, ExecTypeOK
<1>3. m \in Update /\ UpdateTrue(e, m)
  <2>1. m = updates[e][1] /\ 1 \in 1..Len(updates[e])
    BY <1>2, HeadTailProperties, EmptySeq, LenProperties
  <2>2. QED BY <1>2, <2>1, HeadTailProperties DEF UpdatesInv
<1>4. m.quantity \in 0..Quantity BY <1>3 DEF Update
<1>5. CASE UNCHANGED smVars
  BY <1>1, <1>5, IdleBacked DEF smVars
<1>6. ASSUME NEW o \in Created, exchangeId[o] = e,
             \/ m.kind = "fill" /\ m.quantity = Quantity /\ Fill(o, m.quantity)
             \/ m.kind = "fill" /\ PartialFill(o, m.quantity)
             \/ m.kind = "reject" /\ Reject(o)
      PROVE  LocalBacked' /\ WorkingHasExchangeOrder'
  <2>1. o \in Order /\ e \in Opened(o)
    BY <1>6, NoOrderAssumption DEF Created, TypeInv, IdsInv
  <2>2. \/ Fill(o, m.quantity) /\ m.quantity <= xfilled[e] /\ xstatus[e] = "FILLED"
        \/ PartialFill(o, m.quantity) /\ m.quantity <= xfilled[e]
        \/ Reject(o) /\ xstatus[e] = "REJECTED"
    BY <1>3, <1>6 DEF UpdateTrue
  <2>3. QED BY <1>1, <1>4, <2>1, <2>2, ToldBacked
<1>7. QED BY <1>5, <1>6 DEF HandleUpdate

LEMMA ApplyBacked ==
  ASSUME TypeInv, TypeInv', Forward, TruthInv, NEW o \in Order, ReconcileApply(o)
  PROVE  LocalBacked' /\ WorkingHasExchangeOrder'
<1> USE DEF TruthInv
<1> DEFINE e == queryId[o]  q == snapshot[o].quantity  x == snapshot[o].status
<1>1. exchangeId' = exchangeId BY DEF ReconcileApply, engineVars
<1>2. CASE UNCHANGED smVars BY <1>1, <1>2, IdleBacked DEF smVars
<1>3. CASE query[o] = "answered" /\ Reconcile(o, MapExchangeStatus(x), q)
  <2>1. e \in Opened(o) BY <1>3 DEF TypeInv, AskedInv
  <2>2. q \in 0..Quantity BY DEF TypeInv, ExecTypeOK
  <2>3. q <= xfilled[e] /\ (x \in {"FILLED", "REJECTED"} => xstatus[e] = x)
    BY <1>3 DEF SnapshotsInv
  <2>4. /\ MapExchangeStatus(x) = "FILLED" => x = "FILLED"
        /\ MapExchangeStatus(x) = "REJECTED" => x = "REJECTED"
    BY DEF MapExchangeStatus
  <2>5. CASE Cancel(o)
    <3>1. \A p \in Order : exchangeId[p] \in Opened(p) => exchangeId'[p] \in Opened(p)'
      BY <1>1 DEF Forward
    <3>2. QED BY <2>5, <3>1, GiveUpBacked
  <2>6. CASE \/ Fill(o, q) /\ q <= xfilled[e] /\ xstatus[e] = "FILLED"
             \/ PartialFill(o, q) /\ q <= xfilled[e]
             \/ Reject(o) /\ xstatus[e] = "REJECTED"
    BY <1>1, <2>1, <2>2, <2>6, ToldBacked
  <2>7. QED BY <1>2, <1>3, <2>3, <2>4, <2>5, <2>6 DEF Reconcile
<1>4. QED BY <1>2, <1>3 DEF ReconcileApply

LEMMA StepBacked ==
  ASSUME TypeInv, TypeInv', Forward, TruthInv, [ExecNext]_vars
  PROVE  LocalBacked' /\ WorkingHasExchangeOrder'
<1> USE DEF TruthInv
<1>1. CASE UNCHANGED <<status, filled, exchangeId>>
  BY <1>1, IdleBacked
<1>2. ASSUME NEW o \in Order, Exchange(o) PROVE UNCHANGED <<status, filled, exchangeId>>
  BY <1>2 DEF Exchange, XAccept, XRefuse, XFill, XReject, XExpire, XCancel,
     XAnswer, XNoAnswer, XLoseUpdate, unchangedLocal, smVars
<1>3. ASSUME NEW o \in Order, CancelLocal(o) \/ CancelReturn(o) \/ CancelRequest(o)
      PROVE  LocalBacked' /\ WorkingHasExchangeOrder'
  <2>1. exchangeId' = exchangeId
    BY <1>3 DEF CancelLocal, CancelReturn, CancelRequest, engineVars
  <2>2. Cancel(o) \/ UNCHANGED smVars
    BY <1>3 DEF CancelLocal, CancelReturn, CancelRequest
  <2>3. \A p \in Order : exchangeId[p] \in Opened(p) => exchangeId'[p] \in Opened(p)'
    BY <2>1 DEF Forward
  <2>4. CASE Cancel(o) BY <2>3, <2>4, GiveUpBacked
  <2>5. QED BY <1>1, <2>1, <2>2, <2>4 DEF smVars
<1>4. ASSUME NEW c \in Order, SubmitFailed(c)
      PROVE  LocalBacked' /\ WorkingHasExchangeOrder'
  <2>1. orderOf[c] \in Order
    BY <1>4 DEF SubmitFailed, TypeInv, CallsInv, Created
  <2>2. exchangeId' = exchangeId BY <1>4 DEF SubmitFailed
  <2>3. \A p \in Order : exchangeId[p] \in Opened(p) => exchangeId'[p] \in Opened(p)'
    BY <2>2 DEF Forward
  <2>4. \E retryable \in BOOLEAN : Fail(orderOf[c], retryable)
    BY <1>4 DEF SubmitFailed
  <2>5. QED BY <2>1, <2>3, <2>4, GiveUpBacked
<1>5. ASSUME NEW c \in Order, SubmitOrder(c)
      PROVE  LocalBacked' /\ WorkingHasExchangeOrder'
  <2>1. UNCHANGED <<filled, exchangeId>>
    BY <1>5 DEF SubmitOrder, CreateNew, ReturnExisting, smVars
  <2>2. \A p \in Order : status'[p] = status[p] \/ status'[p] = "PENDING"
    BY <1>5 DEF SubmitOrder, CreateNew, ReturnExisting, smVars, TypeInv,
       ExecTypeOK, TypeOK
  <2>3. QED BY <2>1, <2>2, IdleBacked
<1>6. ASSUME NEW o \in Order, CleanupOrphan(o)
      PROVE  LocalBacked' /\ WorkingHasExchangeOrder'
  <2>1. exchangeId' = exchangeId BY <1>6 DEF CleanupOrphan, engineVars
  <2>2. \A p \in Order : exchangeId[p] \in Opened(p) => exchangeId'[p] \in Opened(p)'
    BY <2>1 DEF Forward
  <2>3. QED BY <1>6, <2>2, GiveUpBacked DEF CleanupOrphan
<1>7. CASE Reconciliation
  BY <1>1, <1>6, <1>7, ApplyBacked
     DEF Reconciliation, StartLoop, StopLoop, ReconcileAll, NextBatch, DetectOrphans,
         ReconcileAsk, smVars, engineVars
<1>8. CASE UNCHANGED vars BY <1>1, <1>8 DEF vars, smVars, engineVars
<1>9. QED
  BY <1>1, <1>2, <1>3, <1>4, <1>5, <1>7, <1>8, AcceptedBacked, HandleBacked
     DEF ExecNext, Engine

(* Whatever is lost, late or repeated, the engine never says more of an    *)
(* order than the exchange has done for it, and an order it believes to be *)
(* working is one the exchange has opened.                                 *)
THEOREM EngineBacked == ExecSpec => [](LocalBacked /\ WorkingHasExchangeOrder)
<1>1. ExecInit => TruthInv
  <2> SUFFICES ASSUME ExecInit PROVE TruthInv OBVIOUS
  <2>1. SnapshotsInv BY DEF ExecInit, SnapshotsInv
  <2>2. UpdatesInv BY DEF ExecInit, UpdatesInv
  <2>3. LocalBacked /\ WorkingHasExchangeOrder
    BY DEF ExecInit, Init, LocalBacked, WorkingHasExchangeOrder
  <2>4. QED BY <2>1, <2>2, <2>3 DEF TruthInv
<1>2. TypeInv /\ TypeInv' /\ TruthInv /\ [ExecNext]_vars => TruthInv'
  BY StepForward, SaidStaysTrue, StepBacked DEF TruthInv
<1>3. ExecSpec => []TypeInv BY IdsKnown
<1>4. ExecSpec => []TruthInv BY <1>1, <1>2, <1>3, PTL DEF ExecSpec
<1>5. TruthInv => LocalBacked /\ WorkingHasExchangeOrder BY DEF TruthInv
<1>6. QED BY <1>4, <1>5, PTL

-----------------------------------------------------------------------------
(* The refinement of OrderPromise.                                         *)

(* Within its bounds a transition is invisible or ends the work on one     *)
(* order.                                                                  *)
LEMMA MovePromised ==
  ASSUME TypeInv, LocalBacked', NEW o \in Order, NEW new \in OrderStatus,
         NEW q \in 0..Quantity, Attempt(o, new, q), UNCHANGED <<orderOf, xstatus>>
  PROVE  [Promise!Next]_Promise!promiseVars
<1>1. status \in [Order -> OrderStatus \union {"ABSENT"}]
  BY DEF TypeInv, ExecTypeOK, TypeOK
<1>2. UNCHANGED executedOf BY DEF executedOf, Opened
<1>3. CASE UNCHANGED status
  BY <1>2, <1>3 DEF viewOf, Promise!promiseVars
<1>4. CASE CanMove(o, new) /\ status' = [status EXCEPT ![o] = new]
  <2>1. viewOf[o] = "working"
    BY <1>1, <1>4 DEF viewOf, View, CanMove, ValidTransitions, OrderStatus,
       TerminalStates, ActiveStates
  <2>2. viewOf' = [viewOf EXCEPT ![o] = View(new)]
    BY <1>1, <1>4 DEF viewOf
  <2>3. View(new) \in {"working", "filled", "closed"}
    BY DEF View, OrderStatus, ActiveStates
  <2>4. CASE View(new) = "working"
    <3>1. viewOf' = viewOf BY <2>1, <2>2, <2>4 DEF viewOf
    <3>2. QED BY <1>2, <3>1 DEF Promise!promiseVars
  <2>5. CASE View(new) = "closed"
    BY <1>2, <2>1, <2>2, <2>5 DEF Promise!Next, Promise!Close
  <2>6. CASE View(new) = "filled"
    <3>1. new = "FILLED" BY <2>6 DEF View, OrderStatus, ActiveStates
    <3>2. status'[o] = "FILLED" BY <1>1, <1>4, <3>1
    <3>3. executedOf[o] BY <3>2 DEF LocalBacked, executedOf, Opened
    <3>4. QED BY <1>2, <2>1, <2>2, <2>6, <3>3 DEF Promise!Next, Promise!ReportFilled
  <2>7. QED BY <2>3, <2>4, <2>5, <2>6
<1>5. QED BY <1>3, <1>4 DEF Attempt, Move, Refused

LEMMA MethodPromised ==
  ASSUME TypeInv, LocalBacked', NEW o \in Order, Method(o),
         UNCHANGED <<orderOf, xstatus>>
  PROVE  [Promise!Next]_Promise!promiseVars
<1>1. filled[o] \in 0..Quantity BY DEF TypeInv, ExecTypeOK, TypeOK
<1>2. \E new \in OrderStatus, q \in 0..Quantity : Attempt(o, new, q)
  BY <1>1 DEF Method, Submit, Cancel, Reject, PartialFill, Fill, Fail, OrderStatus
<1>3. QED BY <1>2, MovePromised

(* An exchange order is executed once, for an order that exists.           *)
LEMMA ExecutePromised ==
  ASSUME TypeInv, NEW e \in Order, Exchange(e)
  PROVE  [Promise!Next]_Promise!promiseVars
<1>1. UNCHANGED <<status, orderOf>>
  BY DEF Exchange, XAccept, XRefuse, XFill, XReject, XExpire, XCancel, XAnswer,
         XNoAnswer, XLoseUpdate, unchangedLocal, smVars
<1>2. UNCHANGED viewOf BY <1>1 DEF viewOf
<1>3. xstatus \in [Order -> XStatus \union {"NONE"}]
  BY DEF TypeInv, ExecTypeOK
<1>4. CASE XFill(e) /\ xstatus'[e] = "FILLED"
  <2>1. PICK o \in Order : o = orderOf[e] /\ o \in Created
    BY <1>4, NoOrderAssumption DEF XFill, XLive, TypeInv, CallsInv, ExecTypeOK, Created,
       CallPhase
  <2>2. xstatus' = [xstatus EXCEPT ![e] = "FILLED"]
    BY <1>3, <1>4 DEF XFill
  <2>3. viewOf[o] # "absent"
    BY <2>1 DEF viewOf, View, Created, TypeInv, ExecTypeOK, TypeOK, OrderStatus,
       ActiveStates
  <2>4. ASSUME NEW p \in Order
        PROVE  executedOf'[p] = IF p = o THEN TRUE ELSE executedOf[p]
    <3>1. CASE p = o
      BY <1>1, <1>3, <2>1, <2>2, <3>1 DEF executedOf, Opened
    <3>2. CASE p # o
      BY <1>1, <1>3, <2>1, <2>2, <3>2 DEF executedOf, Opened
    <3>3. QED BY <3>1, <3>2
  <2>5. executedOf' = [executedOf EXCEPT ![o] = TRUE]
    BY <2>4 DEF executedOf
  <2>6. QED BY <1>2, <2>3, <2>5 DEF Promise!Next, Promise!Execute
<1>5. CASE ~(XFill(e) /\ xstatus'[e] = "FILLED")
  <2>1. \A x \in Order : /\ xstatus'[x] = "FILLED" <=> xstatus[x] = "FILLED"
                         /\ xstatus[x] = "FILLED" => xstatus[x] # "NONE"
    BY <1>3, <1>5
       DEF Exchange, XAccept, XRefuse, XFill, XReject, XExpire, XCancel, XAnswer,
           XNoAnswer, XLoseUpdate, exchangeVars, XLive, TypeInv, CallsInv
  <2>2. ASSUME NEW p \in Order PROVE executedOf'[p] = executedOf[p]
    BY <1>1, <2>1 DEF executedOf, Opened
  <2>3. executedOf' = executedOf BY <2>2 DEF executedOf
  <2>4. QED BY <1>2, <2>3 DEF Promise!promiseVars
<1>6. QED BY <1>4, <1>5

(* A submit_order call creates an order or is given one that exists.       *)
LEMMA CreatePromised ==
  ASSUME TypeInv, NEW c \in Order, SubmitOrder(c)
  PROVE  [Promise!Next]_Promise!promiseVars
<1>1. xstatus' = xstatus /\ xstatus[c] = "NONE"
  BY DEF SubmitOrder, exchangeVars, TypeInv, CallsInv
<1>2. \A x \in Order : x # c => orderOf'[x] = orderOf[x]
  BY DEF SubmitOrder, TypeInv, ExecTypeOK
<1>3. \A p \in Order : Opened(p)' = Opened(p) BY <1>1, <1>2 DEF Opened
<1>4. executedOf' = executedOf BY <1>1, <1>3 DEF executedOf
<1>5. CASE UNCHANGED status BY <1>4, <1>5 DEF viewOf, Promise!promiseVars
<1>6. CASE status[c] = "ABSENT" /\ status' = [status EXCEPT ![c] = "PENDING"]
  <2>1. View("ABSENT") = "absent" /\ View("PENDING") = "working"
    BY DEF View, ActiveStates
  <2>2. status \in [Order -> OrderStatus \union {"ABSENT"}]
    BY DEF TypeInv, ExecTypeOK, TypeOK
  <2>3. viewOf[c] = "absent" BY <1>6, <2>1 DEF viewOf
  <2>4. viewOf' = [viewOf EXCEPT ![c] = "working"]
    BY <1>6, <2>1, <2>2 DEF viewOf
  <2>5. QED BY <1>4, <2>3, <2>4 DEF Promise!Next, Promise!Create
<1>7. QED
  BY <1>5, <1>6 DEF SubmitOrder, CreateNew, ReturnExisting, smVars

(* For any orders, keys and limits: every step is a step of OrderPromise   *)
(* or invisible to it.                                                     *)
THEOREM PromiseKept == ExecSpec => KeepsPromise
<1>1. ExecInit => Promise!Init
  <2> SUFFICES ASSUME ExecInit PROVE Promise!Init OBVIOUS
  <2>1. viewOf = [o \in Order |-> "absent"]
    BY DEF ExecInit, Init, viewOf, View, ActiveStates
  <2>2. executedOf = [o \in Order |-> FALSE] BY DEF ExecInit, executedOf, Opened
  <2>3. QED BY <2>1, <2>2 DEF Promise!Init
<1>2. TypeInv /\ LocalBacked' /\ [ExecNext]_vars => [Promise!Next]_Promise!promiseVars
  <2> SUFFICES ASSUME TypeInv, LocalBacked', [ExecNext]_vars
               PROVE  [Promise!Next]_Promise!promiseVars
    OBVIOUS
  <2>1. CASE UNCHANGED <<status, orderOf, xstatus>>
    BY <2>1 DEF viewOf, executedOf, Opened, Promise!promiseVars
  <2>2. ASSUME NEW o \in Order, Engine(o) PROVE [Promise!Next]_Promise!promiseVars
    <3>1. CASE SubmitOrder(o) BY <3>1, CreatePromised
    <3>2. CASE SubmitAccepted(o) \/ SubmitFailed(o)
      <4>1. orderOf[o] \in Order
        BY <3>2 DEF SubmitAccepted, SubmitFailed, TypeInv, CallsInv, Created
      <4>2. Method(orderOf[o]) BY <3>2 DEF SubmitAccepted, SubmitFailed, Method
      <4>3. UNCHANGED <<orderOf, xstatus>>
        BY <3>2 DEF SubmitAccepted, SubmitFailed, Return, exchangeVars
      <4>4. QED BY <4>1, <4>2, <4>3, MethodPromised
    <3>3. CASE CancelLocal(o) \/ CancelRequest(o) \/ CancelReturn(o)
      <4>1. UNCHANGED <<orderOf, xstatus>>
        BY <3>3 DEF CancelLocal, CancelRequest, CancelReturn, engineVars, exchangeVars
      <4>2. Method(o) \/ UNCHANGED status
        BY <3>3 DEF CancelLocal, CancelRequest, CancelReturn, Method, smVars
      <4>3. QED BY <2>1, <4>1, <4>2, MethodPromised
    <3>4. CASE HandleUpdate(o)
      <4>1. UNCHANGED <<orderOf, xstatus>> BY <3>4 DEF HandleUpdate
      <4>2. Head(updates[o]) \in Update
        BY <3>4, HeadTailProperties DEF HandleUpdate, TypeInv, ExecTypeOK
      <4>3. UNCHANGED status \/ \E p \in Order : Method(p)
        BY <3>4, <4>2 DEF HandleUpdate, Method, Update, Created, smVars
      <4>4. QED BY <2>1, <4>1, <4>3, MethodPromised
    <3>5. QED BY <2>2, <3>1, <3>2, <3>3, <3>4 DEF Engine
  <2>3. CASE Reconciliation
    <3>1. UNCHANGED <<orderOf, xstatus>>
      BY <2>3 DEF Reconciliation, StartLoop, StopLoop, ReconcileAll, NextBatch,
         DetectOrphans, ReconcileAsk, ReconcileApply, CleanupOrphan, engineVars,
         exchangeVars
    <3>2. CASE \E o \in Order : CleanupOrphan(o)
      BY <3>1, <3>2, MethodPromised DEF CleanupOrphan, Method
    <3>3. CASE \E o \in Order : ReconcileApply(o)
      <4>1. PICK o \in Order : ReconcileApply(o) BY <3>3
      <4>2. snapshot[o].quantity \in 0..Quantity BY DEF TypeInv, ExecTypeOK
      <4>3. UNCHANGED status \/ Method(o)
        BY <4>1, <4>2 DEF ReconcileApply, Reconcile, Method, smVars
      <4>4. QED BY <2>1, <3>1, <4>3, MethodPromised
    <3>4. CASE UNCHANGED status BY <2>1, <3>1, <3>4
    <3>5. QED
      BY <2>3, <3>2, <3>3, <3>4
         DEF Reconciliation, StartLoop, StopLoop, ReconcileAll, NextBatch,
             DetectOrphans, ReconcileAsk, smVars
  <2>4. CASE UNCHANGED vars
    BY <2>1, <2>4 DEF vars, smVars, engineVars, exchangeVars
  <2>5. QED BY <2>2, <2>3, <2>4, ExecutePromised DEF ExecNext
<1>3. ExecSpec => []TypeInv BY IdsKnown
<1>4. ExecSpec => [](LocalBacked /\ WorkingHasExchangeOrder) BY EngineBacked
<1>5. QED BY <1>1, <1>2, <1>3, <1>4, PTL DEF ExecSpec, KeepsPromise, Promise!Spec

(* An order the engine takes for working was opened at the exchange, also  *)
(* when the reply that said so is older than what happened since.          *)
THEOREM WorkingWasOpened == ExecSpec => []WorkingHasExchangeOrder
BY EngineBacked, PTL

-----------------------------------------------------------------------------
(* The counters.                                                           *)

CallsMade == {c \in Order : call[c] # "idle"}
FilledOrders == {o \in Order : status[o] = "FILLED"}

(* The calls that have been counted as a success or a failure, or never    *)
(* will be: they have returned, and their order is no longer working at    *)
(* the exchange, or never was.                                             *)
Counted ==
  {c \in Order : call[c] = "done" /\ (exchangeId[c] = NoOrder \/ status[c] \notin ActiveStates)}

CountInv ==
  /\ IsFiniteSet(CallsMade) /\ Created \subseteq CallsMade
  /\ stats.total = Cardinality(CallsMade)
  /\ stats.successful <= Cardinality(FilledOrders)
  /\ NoReplay => /\ \A c \in Order : exchangeId[c] # NoOrder => call[c] = "done"
                 /\ stats.successful + stats.failed <= Cardinality(Counted)

LEMMA Grows ==
  ASSUME NEW A, NEW B, IsFiniteSet(B), A \subseteq B
  PROVE  /\ Cardinality(A) \in Nat /\ Cardinality(B) \in Nat
         /\ Cardinality(A) <= Cardinality(B)
         /\ \A x \in B \ A : Cardinality(A) + 1 <= Cardinality(B)
<1>1. /\ IsFiniteSet(A) /\ Cardinality(A) \in Nat /\ Cardinality(B) \in Nat
      /\ Cardinality(A) <= Cardinality(B)
  BY FS_Subset, FS_CardinalityType
<1>2. ASSUME NEW x \in B \ A PROVE Cardinality(A) + 1 <= Cardinality(B)
  <2>1. Cardinality(A \union {x}) = Cardinality(A) + 1  BY <1>1, FS_AddElement
  <2>2. Cardinality(A \union {x}) <= Cardinality(B)  BY <1>2, FS_Subset
  <2>3. QED BY <2>1, <2>2
<1>3. QED BY <1>1, <1>2

(* Only fail() with a retry brings an order back to PENDING.               *)
LEMMA SettledStays ==
  ASSUME TypeOK, NEW o \in Order,
         \/ Submit(o) \/ Cancel(o) \/ Reject(o) \/ Fail(o, FALSE)
         \/ \E q \in 0..Quantity : PartialFill(o, q) \/ Fill(o, q)
  PROVE  \A p \in Order : status[p] \notin ActiveStates => status'[p] = status[p]
<1>1. PICK new \in OrderStatus \ {"PENDING"}, q \in 0..Quantity : Attempt(o, new, q)
  <2>1. filled[o] \in 0..Quantity BY DEF TypeOK
  <2>2. QED
    BY <2>1 DEF Submit, Cancel, Reject, Fail, ShouldRetry, PartialFill, Fill, OrderStatus
<1>2. CASE ~CanMove(o, new)
  BY <1>1, <1>2 DEF Attempt, Refused
<1>3. CASE CanMove(o, new)
  <2>1. status' = [status EXCEPT ![o] = new]  BY <1>1, <1>3 DEF Attempt, Move
  <2>2. status[o] \in ActiveStates
    BY <1>3 DEF CanMove, OrderStatus, TerminalStates, ActiveStates, ValidTransitions
  <2>3. QED BY <2>1, <2>2 DEF TypeOK
<1>4. QED BY <1>2, <1>3

(* A step that counts nothing and lets no call return.                     *)
LEMMA NothingCounted ==
  ASSUME TypeInv, CountInv, Created' = Created, UNCHANGED <<exchangeId, orderOf, stats>>,
         \A c \in Order : /\ call'[c] = "idle" <=> call[c] = "idle"
                          /\ call'[c] = "done" <=> call[c] = "done",
         \A p \in Order : status[p] \notin ActiveStates => status'[p] = status[p]
  PROVE  CountInv'
<1>1. CallsMade' = CallsMade  BY DEF CallsMade
<1>2. FilledOrders \subseteq FilledOrders'  BY DEF FilledOrders, ActiveStates
<1>3. Counted \subseteq Counted'  BY DEF Counted
<1>4. IsFiniteSet(FilledOrders') /\ IsFiniteSet(Counted')
  <2>1. FilledOrders' \subseteq CallsMade  BY DEF CountInv, FilledOrders, Created
  <2>2. Counted' \subseteq CallsMade  BY DEF Counted, CallsMade
  <2>3. QED BY <2>1, <2>2, FS_Subset DEF CountInv
<1>5. /\ Cardinality(FilledOrders) \in Nat /\ Cardinality(FilledOrders') \in Nat
      /\ Cardinality(FilledOrders) <= Cardinality(FilledOrders')
      /\ Cardinality(Counted) \in Nat /\ Cardinality(Counted') \in Nat
      /\ Cardinality(Counted) <= Cardinality(Counted')
  BY <1>2, <1>3, <1>4, Grows
<1>6. stats.successful \in Nat /\ stats.failed \in Nat  BY DEF TypeInv, ExecTypeOK
<1>7. NoReplay' <=> NoReplay  BY DEF NoReplay
<1>8. QED BY <1>1, <1>5, <1>6, <1>7 DEF CountInv

LEMMA CountsCall ==
  ASSUME TypeInv, CountInv, NEW c \in Order, SubmitOrder(c)
  PROVE  CountInv'
<1> USE DEF TypeInv, ExecTypeOK
<1>1. /\ call[c] = "idle" /\ call' = [call EXCEPT ![c] = "sent"]
      /\ stats' = [stats EXCEPT !.total = @ + 1] /\ exchangeId' = exchangeId
      /\ \A b \in Order \ {c} : orderOf'[b] = orderOf[b]
      /\ \/ status' = [status EXCEPT ![c] = "PENDING"] /\ status[c] = "ABSENT"
         \/ status' = status
  <2>1. PICK k \in Key \union {NoKey} :
          \/ CreateNew(c, k) /\ orderOf' = [orderOf EXCEPT ![c] = c]
          \/ ReturnExisting(c, k) /\ orderOf' = [orderOf EXCEPT ![c] = keyOrder[k]]
    BY DEF SubmitOrder
  <2>2. \/ status' = [status EXCEPT ![c] = "PENDING"] /\ status[c] = "ABSENT"
        \/ status' = status
    BY <2>1 DEF CreateNew, ReturnExisting, smVars
  <2>3. \A b \in Order \ {c} : orderOf'[b] = orderOf[b]  BY <2>1
  <2>4. QED BY <2>2, <2>3 DEF SubmitOrder
<1>2. CallsMade' = CallsMade \union {c} /\ c \notin CallsMade
  BY <1>1 DEF CallsMade
<1>3. /\ IsFiniteSet(CallsMade')
      /\ Cardinality(CallsMade') = Cardinality(CallsMade) + 1
  BY <1>2, FS_AddElement DEF CountInv
<1>4. Created' \subseteq CallsMade'
  BY <1>1, <1>2 DEF CountInv, Created, TypeOK
<1>5. FilledOrders' = FilledOrders
  BY <1>1 DEF FilledOrders, TypeOK
<1>6. Counted' = Counted
  BY <1>1 DEF Counted, TypeOK
<1>7. /\ stats'.total = stats.total + 1
      /\ stats'.successful = stats.successful /\ stats'.failed = stats.failed
  BY <1>1
<1>8. NoReplay' => NoReplay
  <2>1. orderOf[c] = NoOrder  BY <1>1 DEF CallsInv
  <2>2. QED BY <1>1, <2>1 DEF NoReplay
<1>9. \A b \in Order : call[b] = "done" => call'[b] = "done"  BY <1>1
<1>10. QED BY <1>1, <1>3, <1>4, <1>5, <1>6, <1>7, <1>8, <1>9 DEF CountInv

(* A call returns: it is counted as a failure, or its order is working.    *)
LEMMA CountsReturn ==
  ASSUME TypeInv, WorkingHasExchangeOrder, CountInv, NEW c \in Order,
         SubmitAccepted(c) \/ SubmitFailed(c)
  PROVE  CountInv'
<1> USE DEF TypeInv, ExecTypeOK
<1>1. /\ call[c] \in {"accepted", "retryable", "fatal"}
      /\ call' = [call EXCEPT ![c] = "done"] /\ orderOf' = orderOf
  BY DEF SubmitAccepted, SubmitFailed, Return
<1>2. orderOf[c] \in Created  BY <1>1 DEF CallsInv
<1>3. /\ orderOf[c] \in Order /\ Method(orderOf[c])
      /\ TypeOK' /\ Created' = Created
  <2>1. Method(orderOf[c])  BY DEF SubmitAccepted, SubmitFailed, Method
  <2>2. orderOf[c] \in Order  BY <1>2 DEF Created
  <2>3. QED BY <2>1, <2>2, MethodEffect
<1>4. CallsMade' = CallsMade  BY <1>1 DEF CallsMade
<1>5. FilledOrders \subseteq FilledOrders'
  <2>1. \E new \in OrderStatus, q \in 0..Quantity : Attempt(orderOf[c], new, q)
    <3>1. filled[orderOf[c]] \in 0..Quantity BY <1>3 DEF TypeOK
    <3>2. QED BY <1>3, <3>1 DEF Method, Submit, Cancel, Reject, PartialFill, Fill, Fail,
                               OrderStatus
  <2>2. QED BY <2>1 DEF Attempt, CanMove, Move, Refused, TerminalStates, FilledOrders, TypeOK
<1>6. IsFiniteSet(FilledOrders') /\ IsFiniteSet(Counted')
  <2>1. FilledOrders' \subseteq CallsMade  BY <1>3 DEF CountInv, FilledOrders, Created
  <2>2. Counted' \subseteq CallsMade  BY <1>4 DEF Counted, CallsMade
  <2>3. QED BY <2>1, <2>2, FS_Subset DEF CountInv
<1>7. /\ Cardinality(FilledOrders) \in Nat /\ Cardinality(FilledOrders') \in Nat
      /\ Cardinality(FilledOrders) <= Cardinality(FilledOrders')
  BY <1>5, <1>6, Grows
<1>8. \/ stats' = stats /\ CanMove(orderOf[c], "SUBMITTED") /\ Submit(orderOf[c])
         /\ exchangeId' = [exchangeId EXCEPT ![orderOf[c]] = c]
      \/ stats' = [stats EXCEPT !.failed = @ + 1]
  BY DEF SubmitAccepted, SubmitFailed
<1>9. /\ stats'.total = stats.total /\ stats'.successful = stats.successful
      /\ stats.successful \in Nat /\ stats.failed \in Nat
      /\ stats'.failed = stats.failed \/ stats'.failed = stats.failed + 1
  BY <1>8
<1>10. ASSUME NoReplay'
       PROVE  /\ \A b \in Order : exchangeId'[b] # NoOrder => call'[b] = "done"
              /\ stats'.successful + stats'.failed <= Cardinality(Counted')
  <2>1. NoReplay /\ orderOf[c] = c  BY <1>1, <1>2, <1>3, <1>10, NoOrderAssumption DEF NoReplay
  <2>2. /\ \A b \in Order : exchangeId[b] # NoOrder => call[b] = "done"
        /\ stats.successful + stats.failed <= Cardinality(Counted)
    BY <2>1 DEF CountInv
  <2>3. exchangeId[c] = NoOrder /\ c \notin Counted  BY <1>1, <2>2 DEF Counted
  <2>4. exchangeId' = [exchangeId EXCEPT ![c] = c] \/ exchangeId' = exchangeId
    BY <2>1 DEF SubmitAccepted, SubmitFailed
  <2>5. \A p \in Order \ {c} : status'[p] = status[p]
    <3>1. \E new \in OrderStatus, q \in 0..Quantity : Attempt(c, new, q)
      <4>1. filled[c] \in 0..Quantity BY DEF TypeOK
      <4>2. QED BY <1>3, <2>1, <4>1 DEF Method, Submit, Cancel, Reject, PartialFill, Fill,
                                        Fail, OrderStatus
    <3>2. QED BY <3>1 DEF Attempt, Move, Refused, TypeOK
  <2>6. Counted \subseteq Counted'
    BY <1>1, <2>3, <2>4, <2>5 DEF Counted
  <2>7. \A b \in Order : exchangeId'[b] # NoOrder => call'[b] = "done"
    BY <1>1, <2>2, <2>4
  <2>8. /\ Cardinality(Counted) \in Nat /\ Cardinality(Counted') \in Nat
        /\ Cardinality(Counted) <= Cardinality(Counted')
        /\ c \in Counted' => Cardinality(Counted) + 1 <= Cardinality(Counted')
    BY <1>6, <2>3, <2>6, Grows
  <2>9. stats'.failed = stats.failed + 1 => c \in Counted'
    <3>1. CASE SubmitFailed(c)
      <4>1. exchangeId'[c] = NoOrder  BY <2>3, <3>1 DEF SubmitFailed
      <4>2. QED BY <1>1, <4>1 DEF Counted
    <3>2. CASE SubmitAccepted(c) /\ stats'.failed = stats.failed + 1
      <4>1. ~CanMove(c, "SUBMITTED") /\ Fail(c, FALSE)
        <5>1. stats' # stats  BY <1>9, <3>2
        <5>2. QED BY <2>1, <3>2, <5>1 DEF SubmitAccepted
      <4>2. status[c] \in OrderStatus  BY <1>2, <2>1 DEF Created, TypeOK
      <4>3. status[c] \notin {"SUBMITTED", "PARTIALLY_FILLED"}
        BY <2>3, NoOrderAssumption DEF WorkingHasExchangeOrder, Opened
      <4>4. status[c] # "PENDING"
        BY <4>1, <4>2 DEF CanMove, OrderStatus, TerminalStates, ValidTransitions
      <4>5. status'[c] = status[c]
        BY <4>1, <4>3, <4>4, SettledStays DEF ActiveStates
      <4>6. QED BY <1>1, <4>3, <4>4, <4>5 DEF Counted, ActiveStates
    <3>3. QED BY <3>1, <3>2
  <2>10. QED BY <1>9, <2>2, <2>7, <2>8, <2>9
<1>11. QED BY <1>3, <1>4, <1>7, <1>9, <1>10 DEF CountInv

(* A message is counted once: the order it ends was working, so its call   *)
(* has returned without being counted.                                     *)
LEMMA CountsUpdate ==
  ASSUME TypeInv, CountInv, NEW e \in Order, HandleUpdate(e)
  PROVE  CountInv'
<1> USE DEF TypeInv, ExecTypeOK
<1>1. UNCHANGED <<exchangeId, call, orderOf>>  BY DEF HandleUpdate
<1>2. Head(updates[e]) \in Update
  BY HeadTailProperties DEF HandleUpdate
<1>3. CASE UNCHANGED <<smVars, stats>>
  <2>1. Created' = Created /\ status' = status  BY <1>3 DEF smVars, Created
  <2>2. QED BY <1>1, <1>3, <2>1, NothingCounted
<1>4. ASSUME NEW o \in Order, exchangeId[o] = e, o \in Created, NEW q \in 0..Quantity,
             \/ Fill(o, q) /\ stats' = IF CanMove(o, "FILLED")
                                       THEN [stats EXCEPT !.successful = @ + 1] ELSE stats
             \/ PartialFill(o, q) /\ stats' = stats
             \/ Reject(o) /\ stats' = IF CanMove(o, "REJECTED")
                                      THEN [stats EXCEPT !.failed = @ + 1] ELSE stats
      PROVE  CountInv'
  <2>1. Method(o)  BY <1>4 DEF Method
  <2>2. TypeOK' /\ Created' = Created  BY <2>1, MethodEffect
  <2>3. \A p \in Order : status[p] \notin ActiveStates => status'[p] = status[p]
    BY <1>4, SettledStays
  <2>4. CASE stats' = stats
    BY <1>1, <2>2, <2>3, <2>4, NothingCounted
  <2>5. CASE \/ /\ Fill(o, q) /\ CanMove(o, "FILLED")
                /\ stats' = [stats EXCEPT !.successful = @ + 1]
             \/ /\ Reject(o) /\ CanMove(o, "REJECTED")
                /\ stats' = [stats EXCEPT !.failed = @ + 1]
    <3>1. /\ status[o] \in ActiveStates
          /\ \/ status' = [status EXCEPT ![o] = "FILLED"]
                /\ stats' = [stats EXCEPT !.successful = @ + 1]
             \/ status' = [status EXCEPT ![o] = "REJECTED"]
                /\ stats' = [stats EXCEPT !.failed = @ + 1]
      BY <2>5 DEF Fill, Reject, Attempt, Move, CanMove, OrderStatus, TerminalStates,
                  ActiveStates, ValidTransitions
    <3>2. IsFiniteSet(FilledOrders') /\ IsFiniteSet(Counted') /\ CallsMade' = CallsMade
      <4>1. FilledOrders' \subseteq CallsMade  BY <2>2 DEF CountInv, FilledOrders, Created
      <4>2. Counted' \subseteq CallsMade  BY <1>1 DEF Counted, CallsMade
      <4>3. QED BY <1>1, <4>1, <4>2, FS_Subset DEF CountInv, CallsMade
    <3>3. FilledOrders \subseteq FilledOrders' /\ o \notin FilledOrders
      BY <2>3, <3>1 DEF FilledOrders, ActiveStates
    <3>4. /\ Cardinality(FilledOrders) \in Nat /\ Cardinality(FilledOrders') \in Nat
          /\ Cardinality(FilledOrders) <= Cardinality(FilledOrders')
          /\ o \in FilledOrders' => Cardinality(FilledOrders) + 1 <= Cardinality(FilledOrders')
      BY <3>2, <3>3, Grows
    <3>5. /\ stats'.total = stats.total
          /\ stats.successful \in Nat /\ stats.failed \in Nat
          /\ \/ /\ stats'.successful = stats.successful + 1 /\ stats'.failed = stats.failed
                /\ o \in FilledOrders'
             \/ stats'.successful = stats.successful /\ stats'.failed = stats.failed + 1
      BY <3>1 DEF FilledOrders, TypeOK
    <3>6. stats'.successful <= Cardinality(FilledOrders')
      BY <3>4, <3>5 DEF CountInv
    <3>7. ASSUME NoReplay'
          PROVE  /\ \A b \in Order : exchangeId'[b] # NoOrder => call'[b] = "done"
                 /\ stats'.successful + stats'.failed <= Cardinality(Counted')
      <4>1. /\ \A b \in Order : exchangeId[b] # NoOrder => call[b] = "done"
            /\ stats.successful + stats.failed <= Cardinality(Counted)
        BY <1>1, <3>7 DEF CountInv, NoReplay
      <4>2. exchangeId[o] # NoOrder  BY <1>4, NoOrderAssumption
      <4>3. Counted \subseteq Counted'  BY <1>1, <2>3 DEF Counted
      <4>4. o \notin Counted  BY <3>1, <4>2 DEF Counted
      <4>5. o \in Counted'
        <5>1. status'[o] \notin ActiveStates  BY <3>1 DEF ActiveStates, TypeOK
        <5>2. QED BY <1>1, <4>1, <4>2, <5>1 DEF Counted
      <4>6. Cardinality(Counted) \in Nat /\ Cardinality(Counted) + 1 <= Cardinality(Counted')
            /\ Cardinality(Counted') \in Nat
        BY <3>2, <4>3, <4>4, <4>5, Grows
      <4>7. \A b \in Order : exchangeId'[b] # NoOrder => call'[b] = "done"
        BY <1>1, <4>1
      <4>8. stats'.successful + stats'.failed = stats.successful + stats.failed + 1
        BY <3>5
      <4>9. stats.successful + stats.failed + 1 <= Cardinality(Counted')
        BY <3>5, <4>1, <4>6
      <4>10. QED BY <4>7, <4>8, <4>9
    <3>8. QED BY <2>2, <3>2, <3>5, <3>6, <3>7 DEF CountInv
  <2>6. QED BY <1>4, <2>4, <2>5
<1>5. CASE ~UNCHANGED <<smVars, stats>>
  <2> DEFINE m == Head(updates[e])
  <2>1. PICK o \in {p \in Created : exchangeId[p] = e} :
          \/ /\ m.kind = "fill" /\ m.quantity = Quantity /\ Fill(o, m.quantity)
             /\ stats' = IF CanMove(o, "FILLED")
                         THEN [stats EXCEPT !.successful = @ + 1] ELSE stats
          \/ /\ m.kind = "fill" /\ m.quantity < Quantity /\ PartialFill(o, m.quantity)
             /\ UNCHANGED stats
          \/ /\ m.kind = "reject" /\ Reject(o)
             /\ stats' = IF CanMove(o, "REJECTED")
                         THEN [stats EXCEPT !.failed = @ + 1] ELSE stats
    BY <1>5 DEF HandleUpdate
  <2>2. o \in Order /\ o \in Created /\ exchangeId[o] = e  BY <2>1 DEF Created
  <2>3. m.quantity \in 0..Quantity  BY <1>2 DEF Update
  <2> HIDE DEF m
  <2>4. QED BY <1>4, <2>1, <2>2, <2>3
<1>6. QED BY <1>3, <1>5

LEMMA CountStep ==
  ASSUME TypeInv, WorkingHasExchangeOrder, CountInv, [ExecNext]_vars
  PROVE  CountInv'
<1> USE DEF TypeInv, ExecTypeOK
<1>1. ASSUME NEW o \in Order, Exchange(o) PROVE CountInv'
  <2>1. Created' = Created /\ status' = status /\ UNCHANGED <<exchangeId, orderOf, stats>>
    BY <1>1 DEF Exchange, XAccept, XRefuse, XFill, XReject, XExpire, XCancel, XAnswer,
       XNoAnswer, XLoseUpdate, unchangedLocal, smVars, Created
  <2>2. \A c \in Order : /\ call'[c] = "idle" <=> call[c] = "idle"
                         /\ call'[c] = "done" <=> call[c] = "done"
    BY <1>1 DEF Exchange, XAccept, XRefuse, XFill, XReject, XExpire, XCancel, XAnswer,
       XNoAnswer, XLoseUpdate
  <2>3. QED BY <2>1, <2>2, NothingCounted
<1>2. CASE UNCHANGED <<exchangeId, call, orderOf, stats>> /\ UNCHANGED smVars
  <2>1. Created' = Created /\ status' = status  BY <1>2 DEF smVars, Created
  <2>2. QED BY <1>2, <2>1, NothingCounted
<1>3. ASSUME NEW o \in Order,
             \/ Submit(o) \/ Cancel(o) \/ Reject(o) \/ Fail(o, FALSE)
             \/ \E q \in 0..Quantity : PartialFill(o, q) \/ Fill(o, q),
             UNCHANGED <<exchangeId, call, orderOf, stats>>
      PROVE  CountInv'
  <2>1. TypeOK' /\ Created' = Created  BY <1>3, MethodEffect DEF Method
  <2>2. \A p \in Order : status[p] \notin ActiveStates => status'[p] = status[p]
    BY <1>3, SettledStays
  <2>3. QED BY <1>3, <2>1, <2>2, NothingCounted
<1>4. ASSUME NEW o \in Order, CancelLocal(o) \/ CancelRequest(o) \/ CancelReturn(o)
      PROVE  CountInv'
  BY <1>2, <1>3, <1>4 DEF CancelLocal, CancelRequest, CancelReturn, engineVars
<1>5. ASSUME NEW o \in Order, ReconcileApply(o) PROVE CountInv'
  <2>1. UNCHANGED <<exchangeId, call, orderOf, stats>>
    BY <1>5 DEF ReconcileApply, engineVars
  <2>2. snapshot[o].quantity \in 0..Quantity  OBVIOUS
  <2>3. QED BY <1>2, <1>3, <1>5, <2>1, <2>2 DEF ReconcileApply, Reconcile
<1>6. ASSUME NEW o \in Order, CleanupOrphan(o) PROVE CountInv'
  BY <1>3, <1>6 DEF CleanupOrphan, engineVars
<1>7. CASE \/ UNCHANGED vars \/ StartLoop \/ StopLoop \/ ReconcileAll \/ NextBatch
           \/ DetectOrphans \/ \E o \in Order : ReconcileAsk(o)
  BY <1>2, <1>7 DEF vars, StartLoop, StopLoop, ReconcileAll, NextBatch, DetectOrphans,
     ReconcileAsk, engineVars
<1>8. QED
  BY <1>1, <1>4, <1>5, <1>6, <1>7, CountsCall, CountsReturn, CountsUpdate
     DEF ExecNext, Engine, Reconciliation

(* The engine's counters agree with what happened to the calls, although a *)
(* rejection or a fill is counted by a task of its own, after the call     *)
(* that sent the order has returned (execution_engine.py:147-184,          *)
(* 240-303).                                                               *)
THEOREM CountersAgree == ExecSpec => []StatsConsistent
<1>1. ExecInit => CountInv
  <2> SUFFICES ASSUME ExecInit PROVE CountInv  OBVIOUS
  <2>1. CallsMade = {} /\ FilledOrders = {} /\ Counted = {} /\ Created = {}
    BY DEF ExecInit, Init, CallsMade, FilledOrders, Counted, Created
  <2>2. /\ stats.total = 0 /\ stats.successful = 0 /\ stats.failed = 0
        /\ \A c \in Order : exchangeId[c] = NoOrder
    BY DEF ExecInit
  <2>3. QED BY <2>1, <2>2, FS_EmptySet DEF CountInv
<1>2. TypeInv /\ WorkingHasExchangeOrder /\ CountInv /\ [ExecNext]_vars => CountInv'
  BY CountStep
<1>3. TypeInv /\ CountInv => StatsConsistent
  <2> SUFFICES ASSUME TypeInv, CountInv PROVE StatsConsistent  OBVIOUS
  <2>1. Counted \subseteq {c \in Order : call[c] = "done"}  BY DEF Counted
  <2>2. IsFiniteSet({c \in Order : call[c] = "done"})
    <3>1. {c \in Order : call[c] = "done"} \subseteq CallsMade  BY DEF CallsMade
    <3>2. QED BY <3>1, FS_Subset DEF CountInv
  <2>3. /\ Cardinality(Counted) \in Nat /\ Cardinality({c \in Order : call[c] = "done"}) \in Nat
        /\ Cardinality(Counted) <= Cardinality({c \in Order : call[c] = "done"})
    BY <2>1, <2>2, Grows
  <2>4. stats.successful \in Nat /\ stats.failed \in Nat  BY DEF TypeInv, ExecTypeOK
  <2>5. NoReplay => stats.successful + stats.failed
                      <= Cardinality({c \in Order : call[c] = "done"})
    BY <2>3, <2>4 DEF CountInv
  <2>6. /\ stats.total = Cardinality({c \in Order : call[c] # "idle"})
        /\ stats.successful <= Cardinality({o \in Order : status[o] = "FILLED"})
    BY DEF CountInv, CallsMade, FilledOrders
  <2>7. QED BY <2>5, <2>6 DEF StatsConsistent
<1>4. QED BY <1>1, <1>2, <1>3, IdsKnown, WorkingWasOpened, PTL DEF ExecSpec
=============================================================================
