--------------------------- MODULE OrderExecution ---------------------------
(***************************************************************************)
(* ExecutionEngineWithStateMachine (execution_engine.py) and               *)
(* OrderReconciliation (reconciliation.py) around the state machine, with  *)
(* the exchange they talk to.                                              *)
(*                                                                         *)
(* asyncio runs one task at a time, so a step is the code between two      *)
(* suspensions: the awaits of adapter.submit_order, cancel_order and       *)
(* get_order.  The tasks are the submit_order calls, a cancel_order call   *)
(* per order, the fill and rejection handlers (one create_task per         *)
(* message), one reconcile_order per order of a pass and the orphan        *)
(* clean-up.                                                               *)
(*                                                                         *)
(* A submit_order call mints a fresh order id, which is also the           *)
(* client_order_id it sends; the exchange opens at most one order per      *)
(* request.  So one set, Order, names calls, local orders and exchange     *)
(* orders.  The exchange and the network are external: they are modelled   *)
(* from the adapter calls and the two callbacks of the engine.             *)
(***************************************************************************)
EXTENDS OrderStateMachine, Sequences, FiniteSets

CONSTANTS
  MayCancel,    \* orders whose owner may call cancel_order; bounds the model
  BatchSize,    \* ReconciliationConfig.batch_size
  Starts        \* whether engine.start(), which starts the loop, is ever called

ASSUME BatchAssumption == MayCancel \subseteq Order /\ BatchSize \in Nat \ {0}
ASSUME StartsAssumption == Starts \in BOOLEAN

VARIABLES
  exchangeId,   \* Order.exchange_order_id, NoOrder for None
  call,         \* submit_order of this id: idle, sent, the reply to it, done
  orderOf,      \* the order object the call works on (create_order's result)
  cancel,       \* cancel_order: idle, sent, the reply to it
  cancelId,     \* the exchange id it was sent for
  running,      \* OrderReconciliation._running
  query,        \* reconcile_order: idle, queued, batched, sent, the reply
  queryId,      \* the exchange id it asks for
  snapshot,     \* [status, quantity] of the get_order reply
  orphans,      \* what is left of the list cleanup_orphan_orders walks
  stats,        \* the engine's counters
  xstatus,      \* exchange: state of the exchange order, "NONE" if never opened
  xfilled,      \* exchange: quantity executed
  updates       \* exchange: fill and rejection messages not yet handled

engineVars == <<exchangeId, call, orderOf, stats>>
cancelVars == <<cancel, cancelId>>
reconVars == <<running, query, queryId, snapshot>>
exchangeVars == <<xstatus, xfilled, updates>>
vars == <<smVars, engineVars, cancelVars, reconVars, orphans, exchangeVars>>

XLive == {"NEW", "PARTIALLY_FILLED"}
XStatus == XLive \union {"FILLED", "CANCELED", "REJECTED", "EXPIRED"}
Update == [kind : {"fill", "reject"}, quantity : 0..Quantity]
CallPhase == {"idle", "sent", "accepted", "retryable", "fatal", "done"}
QueryPhase == {"idle", "queued", "batched", "sent", "answered", "failed"}

ExecInit ==
  /\ Init
  /\ exchangeId = [o \in Order |-> NoOrder]
  /\ call = [o \in Order |-> "idle"]
  /\ orderOf = [o \in Order |-> NoOrder]
  /\ stats = [total |-> 0, successful |-> 0, failed |-> 0]
  /\ cancel = [o \in Order |-> "idle"]
  /\ cancelId = [o \in Order |-> NoOrder]
  /\ running = FALSE
  /\ query = [o \in Order |-> "idle"]
  /\ queryId = [o \in Order |-> NoOrder]
  /\ snapshot = [o \in Order |-> [status |-> "NEW", quantity |-> 0]]
  /\ orphans = {}
  /\ xstatus = [o \in Order |-> "NONE"]
  /\ xfilled = [o \in Order |-> 0]
  /\ updates = [o \in Order |-> <<>>]

-----------------------------------------------------------------------------
(* submit_order, up to the await and after it.                             *)

\* An exchange without a registered adapter raises before anything is sent;
\* that is the "fatal" reply.
SubmitOrder(c) ==
  /\ call[c] = "idle"
  /\ \E k \in Key \union {NoKey} :
       \/ CreateNew(c, k) /\ orderOf' = [orderOf EXCEPT ![c] = c]
       \/ /\ ReturnExisting(c, k)
          /\ orderOf' = [orderOf EXCEPT ![c] = keyOrder[k]]
  /\ call' = [call EXCEPT ![c] = "sent"]
  /\ stats' = [stats EXCEPT !.total = @ + 1]
  /\ UNCHANGED <<exchangeId, cancelVars, reconVars, orphans, exchangeVars>>

Return(c) ==
  /\ call' = [call EXCEPT ![c] = "done"]
  /\ UNCHANGED <<orderOf, cancelVars, reconVars, orphans, exchangeVars>>

\* Mutants of SubmitAccepted: a call that fails forgets the id it stored;
\* acceptance counts as success.
SubmitAcceptedForgets(c) ==
  LET o == orderOf[c] IN
  /\ call[c] = "accepted"
  /\ \/ /\ CanMove(o, "SUBMITTED") /\ Submit(o) /\ UNCHANGED stats
        /\ exchangeId' = [exchangeId EXCEPT ![o] = c]
     \/ /\ ~CanMove(o, "SUBMITTED")
        /\ Fail(o, FALSE)
        /\ stats' = [stats EXCEPT !.failed = @ + 1]
        /\ exchangeId' = [exchangeId EXCEPT ![o] = NoOrder]
  /\ Return(c)
SubmitAcceptedSucceeds(c) ==
  LET o == orderOf[c] IN
  /\ call[c] = "accepted"
  /\ exchangeId' = [exchangeId EXCEPT ![o] = c]
  /\ Submit(o)
  /\ stats' = [stats EXCEPT !.successful = @ + 1]
  /\ Return(c)

\* The id is stored before submit() is tried.  If submit() raises, the
\* handler calls fail() with that (not retryable) error and counts a failure.
SubmitAccepted(c) ==
  LET o == orderOf[c] IN
  /\ call[c] = "accepted"
  /\ exchangeId' = [exchangeId EXCEPT ![o] = c]
  /\ \/ CanMove(o, "SUBMITTED") /\ Submit(o) /\ UNCHANGED stats
     \/ /\ ~CanMove(o, "SUBMITTED")
        /\ Fail(o, FALSE)
        /\ stats' = [stats EXCEPT !.failed = @ + 1]
  /\ Return(c)

SubmitFailed(c) ==
  /\ call[c] \in {"retryable", "fatal"}
  /\ Fail(orderOf[c], call[c] = "retryable")
  /\ stats' = [stats EXCEPT !.failed = @ + 1]
  /\ UNCHANGED exchangeId
  /\ Return(c)

-----------------------------------------------------------------------------
(* cancel_order.                                                           *)

\* Without an exchange id the order is cancelled locally, at once.
CancelLocal(o) ==
  /\ o \in Created \cap MayCancel
  /\ exchangeId[o] = NoOrder
  /\ Cancel(o)
  /\ UNCHANGED <<engineVars, cancelVars, reconVars, orphans, exchangeVars>>

CancelRequest(o) ==
  /\ o \in Created \cap MayCancel
  /\ exchangeId[o] # NoOrder
  /\ cancel[o] = "idle"
  /\ cancel' = [cancel EXCEPT ![o] = "sent"]
  /\ cancelId' = [cancelId EXCEPT ![o] = exchangeId[o]]
  /\ UNCHANGED <<smVars, engineVars, reconVars, orphans, exchangeVars>>

CancelReturn(o) ==
  /\ \/ cancel[o] = "ok" /\ Cancel(o)
     \/ cancel[o] = "error" /\ UNCHANGED smVars
  /\ cancel' = [cancel EXCEPT ![o] = "idle"]
  /\ cancelId' = [cancelId EXCEPT ![o] = NoOrder]
  /\ UNCHANGED <<engineVars, reconVars, orphans, exchangeVars>>

-----------------------------------------------------------------------------
(* The tasks on_fill and on_order_rejected create.  They find the order by *)
(* its exchange id; a message for an id no order holds (yet) is dropped.   *)

HandleUpdate(e) ==
  /\ updates[e] # <<>>
  /\ updates' = [updates EXCEPT ![e] = Tail(@)]
  /\ LET m == Head(updates[e])
         owners == {o \in Created : exchangeId[o] = e}
     IN \/ owners = {} /\ UNCHANGED <<smVars, stats>>
        \/ \E o \in owners :
             \/ /\ m.kind = "fill" /\ m.quantity = Quantity
                /\ Fill(o, m.quantity)
                /\ stats' = IF CanMove(o, "FILLED")
                            THEN [stats EXCEPT !.successful = @ + 1] ELSE stats
             \/ /\ m.kind = "fill" /\ m.quantity < Quantity
                /\ PartialFill(o, m.quantity)
                /\ UNCHANGED stats
             \/ /\ m.kind = "reject"
                /\ Reject(o)
                /\ stats' = IF CanMove(o, "REJECTED")
                            THEN [stats EXCEPT !.failed = @ + 1] ELSE stats
  /\ UNCHANGED <<exchangeId, call, orderOf, cancelVars, reconVars, orphans,
                 xstatus, xfilled>>

-----------------------------------------------------------------------------
(* The reconciliation loop: every interval one pass over a snapshot of the *)
(* active orders, in batches run by asyncio.gather.                        *)

StartLoop ==
  /\ Starts /\ ~running /\ running' = TRUE
  /\ UNCHANGED <<smVars, engineVars, cancelVars, query, queryId, snapshot,
                 orphans, exchangeVars>>

\* stop() cancels the task; the reconcile_order calls it gathers die with it.
StopLoop ==
  /\ running /\ running' = FALSE
  /\ query' = [o \in Order |-> "idle"]
  /\ queryId' = [o \in Order |-> NoOrder]
  /\ UNCHANGED <<smVars, engineVars, cancelVars, snapshot, orphans, exchangeVars>>

ReconcileAll ==
  /\ running
  /\ \A o \in Order : query[o] = "idle"
  /\ query' = [o \in Order |-> IF status[o] \in ActiveStates THEN "queued"
                               ELSE "idle"]
  /\ UNCHANGED <<smVars, engineVars, cancelVars, running, queryId, snapshot,
                 orphans, exchangeVars>>

\* Mutant of NextBatch: only the first slice of the active orders is run.
FirstBatchOnly ==
  LET queued == {o \in Order : query[o] = "queued"} IN
  /\ queued # {}
  /\ \A o \in Order : query[o] \in {"idle", "queued"}
  /\ \E batch \in SUBSET queued :
       /\ batch = queued \/ Cardinality(batch) = BatchSize
       /\ Cardinality(batch) <= BatchSize
       /\ query' = [o \in Order |-> IF o \in batch THEN "batched" ELSE "idle"]
  /\ UNCHANGED <<smVars, engineVars, cancelVars, running, queryId, snapshot,
                 orphans, exchangeVars>>

\* The next batch starts when every call of the one before has returned.
\* _orders keeps insertion order, which the model does not: any batch.
NextBatch ==
  LET queued == {o \in Order : query[o] = "queued"} IN
  /\ queued # {}
  /\ \A o \in Order : query[o] \in {"idle", "queued"}
  /\ \E batch \in SUBSET queued :
       /\ batch = queued \/ Cardinality(batch) = BatchSize
       /\ Cardinality(batch) <= BatchSize
       /\ query' = [o \in Order |-> IF o \in batch THEN "batched" ELSE query[o]]
  /\ UNCHANGED <<smVars, engineVars, cancelVars, running, queryId, snapshot,
                 orphans, exchangeVars>>

\* reconcile_order up to get_order.  Without an exchange id there is nothing
\* to ask, and the order counts as reconciled.
ReconcileAsk(o) ==
  /\ query[o] = "batched"
  /\ query' = [query EXCEPT ![o] = IF exchangeId[o] = NoOrder THEN "idle"
                                   ELSE "sent"]
  /\ queryId' = [queryId EXCEPT ![o] = exchangeId[o]]
  /\ UNCHANGED <<smVars, engineVars, cancelVars, running, snapshot, orphans,
                 exchangeVars>>

\* Mutant of MapExchangeStatus: an expiry is read as a rejection.
MapExpiredRejected(s) ==
  CASE s = "NEW" -> "SUBMITTED"
    [] s = "CANCELED" -> "CANCELLED"
    [] s = "EXPIRED" -> "REJECTED"
    [] OTHER -> s

MapExchangeStatus(s) ==
  CASE s = "NEW" -> "SUBMITTED"
    [] s = "CANCELED" -> "CANCELLED"
    [] OTHER -> s

\* reconcile_order after get_order: the reply is compared with the order as
\* it is now.  An order get_order does not know, and one whose query raised,
\* is only counted.
ReconcileApply(o) ==
  /\ \/ /\ query[o] = "answered"
        /\ Reconcile(o, MapExchangeStatus(snapshot[o].status), snapshot[o].quantity)
     \/ query[o] = "failed" /\ UNCHANGED smVars
  /\ query' = [query EXCEPT ![o] = "idle"]
  /\ queryId' = [queryId EXCEPT ![o] = NoOrder]
  /\ snapshot' = [snapshot EXCEPT ![o] = [status |-> "NEW", quantity |-> 0]]
  /\ UNCHANGED <<engineVars, cancelVars, running, orphans, exchangeVars>>

\* detect_orphan_orders lists active orders without an exchange id that are
\* older than max_age_seconds (any of them may be); fail() is then awaited
\* for one after the other.
DetectOrphans ==
  /\ orphans = {}
  /\ orphans' \in SUBSET {o \in Order : status[o] \in ActiveStates
                                        /\ exchangeId[o] = NoOrder}
  /\ UNCHANGED <<smVars, engineVars, cancelVars, reconVars, exchangeVars>>

CleanupOrphan(o) ==
  /\ o \in orphans
  /\ orphans' = orphans \ {o}
  /\ Fail(o, FALSE)
  /\ UNCHANGED <<engineVars, cancelVars, reconVars, exchangeVars>>

-----------------------------------------------------------------------------
(* The exchange and the network.                                           *)

unchangedLocal == UNCHANGED <<smVars, exchangeId, orderOf, stats, orphans>>

\* The exchange opens the order; the reply arrives, or the call fails with an
\* exception the engine retries, or with one it does not.
XAccept(c) ==
  /\ call[c] = "sent"
  /\ xstatus' = [xstatus EXCEPT ![c] = "NEW"]
  /\ \E r \in {"accepted", "retryable", "fatal"} : call' = [call EXCEPT ![c] = r]
  /\ unchangedLocal
  /\ UNCHANGED <<cancelVars, reconVars, xfilled, updates>>

\* The request fails before the exchange opens anything.
XRefuse(c) ==
  /\ call[c] = "sent"
  /\ \E r \in {"retryable", "fatal"} : call' = [call EXCEPT ![c] = r]
  /\ unchangedLocal
  /\ UNCHANGED <<cancelVars, reconVars, exchangeVars>>

Notify(e, kind, q) ==
  updates' = [updates EXCEPT ![e] = Append(@, [kind |-> kind, quantity |-> q])]

XFill(e) ==
  /\ xstatus[e] \in XLive
  /\ \E q \in (xfilled[e] + 1)..Quantity :
       /\ xfilled' = [xfilled EXCEPT ![e] = q]
       /\ xstatus' = [xstatus EXCEPT ![e] = IF q = Quantity THEN "FILLED"
                                            ELSE "PARTIALLY_FILLED"]
       /\ Notify(e, "fill", q)
  /\ unchangedLocal
  /\ UNCHANGED <<call, cancelVars, reconVars>>

XReject(e) ==
  /\ xstatus[e] = "NEW"
  /\ xstatus' = [xstatus EXCEPT ![e] = "REJECTED"]
  /\ Notify(e, "reject", 0)
  /\ unchangedLocal
  /\ UNCHANGED <<call, cancelVars, reconVars, xfilled>>

\* No callback of the engine announces an expiry.
XExpire(e) ==
  /\ xstatus[e] \in XLive
  /\ xstatus' = [xstatus EXCEPT ![e] = "EXPIRED"]
  /\ unchangedLocal
  /\ UNCHANGED <<call, cancelVars, reconVars, xfilled, updates>>

\* A cancel request takes effect or not, and either way the call may return or
\* raise: an adapter may answer FALSE, which the engine does not look at.
XCancel(o) ==
  LET e == cancelId[o] IN
  /\ cancel[o] = "sent"
  /\ \/ xstatus[e] \in XLive /\ xstatus' = [xstatus EXCEPT ![e] = "CANCELED"]
     \/ UNCHANGED xstatus
  /\ \E r \in {"ok", "error"} : cancel' = [cancel EXCEPT ![o] = r]
  /\ unchangedLocal
  /\ UNCHANGED <<call, cancelId, reconVars, xfilled, updates>>

XAnswer(o) ==
  /\ query[o] = "sent"
  /\ query' = [query EXCEPT ![o] = "answered"]
  /\ snapshot' = [snapshot EXCEPT ![o] = [status |-> xstatus[queryId[o]],
                                          quantity |-> xfilled[queryId[o]]]]
  /\ unchangedLocal
  /\ UNCHANGED <<call, cancelVars, running, queryId, exchangeVars>>

\* get_order raises, or returns nothing.
XNoAnswer(o) ==
  /\ query[o] = "sent"
  /\ query' = [query EXCEPT ![o] = "failed"]
  /\ unchangedLocal
  /\ UNCHANGED <<call, cancelVars, running, queryId, snapshot, exchangeVars>>

\* The message is lost (a disconnected stream).
XLoseUpdate(e) ==
  /\ updates[e] # <<>>
  /\ updates' = [updates EXCEPT ![e] = Tail(@)]
  /\ unchangedLocal
  /\ UNCHANGED <<call, cancelVars, reconVars, xstatus, xfilled>>

-----------------------------------------------------------------------------
Engine(o) ==
  \/ SubmitOrder(o) \/ SubmitAccepted(o) \/ SubmitFailed(o)
  \/ CancelLocal(o) \/ CancelRequest(o) \/ CancelReturn(o)
  \/ HandleUpdate(o)
Reconciliation ==
  \/ StartLoop \/ StopLoop \/ ReconcileAll \/ NextBatch \/ DetectOrphans
  \/ \E o \in Order : ReconcileAsk(o) \/ ReconcileApply(o) \/ CleanupOrphan(o)
Exchange(o) ==
  \/ XAccept(o) \/ XRefuse(o) \/ XFill(o) \/ XReject(o) \/ XExpire(o)
  \/ XCancel(o) \/ XAnswer(o) \/ XNoAnswer(o) \/ XLoseUpdate(o)

ExecNext == Reconciliation \/ \E o \in Order : Engine(o) \/ Exchange(o)

ExecSpec == ExecInit /\ [][ExecNext]_vars

(* The loop sleeps and goes on while it runs, asyncio runs every ready     *)
(* task, and a query that is asked again and again is answered at last.    *)
Fairness ==
  /\ WF_vars(ReconcileAll) /\ WF_vars(NextBatch)
  /\ \A o \in Order : /\ WF_vars(ReconcileAsk(o))
                      /\ WF_vars(ReconcileApply(o))
                      /\ WF_vars(XAnswer(o) \/ XNoAnswer(o))
                      /\ SF_vars(XAnswer(o))

FairSpec == ExecSpec /\ Fairness

-----------------------------------------------------------------------------
(* Type invariant of the engine, its reconciliation and the exchange. *)
ExecTypeOK ==
  /\ TypeOK
  /\ exchangeId \in [Order -> Order \union {NoOrder}]
  /\ call \in [Order -> CallPhase]
  /\ orderOf \in [Order -> Order \union {NoOrder}]
  /\ stats \in [total : Nat, successful : Nat, failed : Nat]
  /\ cancel \in [Order -> {"idle", "sent", "ok", "error"}]
  /\ cancelId \in [Order -> Order \union {NoOrder}]
  /\ running \in BOOLEAN
  /\ query \in [Order -> QueryPhase]
  /\ queryId \in [Order -> Order \union {NoOrder}]
  /\ snapshot \in [Order -> [status : XStatus, quantity : 0..Quantity]]
  /\ orphans \subseteq Order
  /\ xstatus \in [Order -> XStatus \union {"NONE"}]
  /\ xfilled \in [Order -> 0..Quantity]
  /\ updates \in [Order -> Seq(Update)]

\* The exchange orders opened on behalf of o.
Opened(o) == {e \in Order : orderOf[e] = o /\ xstatus[e] # "NONE"}

(* What the engine says of an order is never ahead of the exchange: a      *)
(* FILLED order has a filled exchange order behind it, a REJECTED one a    *)
(* rejected one, and the quantity it reports was executed -- in spite of   *)
(* stale get_order replies, messages handled after the id was overwritten  *)
(* and fills racing a cancel (execution_engine.py:240-308,                 *)
(* reconciliation.py:257-307).                                             *)
LocalBacked ==
  \A o \in Order :
    /\ status[o] = "FILLED" => \E e \in Opened(o) : xstatus[e] = "FILLED"
    /\ status[o] = "REJECTED" => \E e \in Opened(o) : xstatus[e] = "REJECTED"
    /\ filled[o] > 0 => \E e \in Opened(o) : filled[o] <= xfilled[e]

(* An order the engine believes to be working at the exchange is found     *)
(* there: its exchange id is set and names an order that was opened for it *)
(* (execution_engine.py:164-166; reconcile_order relies on it).            *)
WorkingHasExchangeOrder ==
  \A o \in Order :
    status[o] \in {"SUBMITTED", "PARTIALLY_FILLED", "FILLED"} =>
      exchangeId[o] \in Opened(o)

(* What makes LocalBacked inductive: everything the engine holds on the    *)
(* way to a local order is true of an exchange order opened for it.        *)
CallsInv ==
  \A c \in Order :
    /\ call[c] = "idle" <=> orderOf[c] = NoOrder
    /\ orderOf[c] # NoOrder => orderOf[c] \in Created
    /\ call[c] \in {"idle", "sent"} => xstatus[c] = "NONE"
    /\ call[c] = "accepted" => xstatus[c] # "NONE"
IdsInv == \A o \in Order : exchangeId[o] # NoOrder => exchangeId[o] \in Opened(o)
AskedInv ==
  \A o \in Order :
    query[o] \in {"sent", "answered", "failed"} => queryId[o] \in Opened(o)
SnapshotsInv ==
  \A o \in Order : query[o] = "answered" =>
    /\ snapshot[o].status \in {"FILLED", "REJECTED"} =>
         xstatus[queryId[o]] = snapshot[o].status
    /\ snapshot[o].quantity <= xfilled[queryId[o]]
UpdateTrue(e, m) ==
  /\ m.kind = "fill" => /\ m.quantity <= xfilled[e]
                        /\ m.quantity = Quantity => xstatus[e] = "FILLED"
  /\ m.kind = "reject" => xstatus[e] = "REJECTED"
UpdatesInv ==
  \A e \in Order : \A i \in 1..Len(updates[e]) : UpdateTrue(e, updates[e][i])

(* Calls, ids, queries in flight and messages not yet handled all tell the *)
(* truth about an exchange order opened for the order they will be applied *)
(* to: the reason why a late one is harmless.                              *)
BackingInv ==
  CallsInv /\ IdsInv /\ AskedInv /\ SnapshotsInv /\ UpdatesInv
  /\ LocalBacked /\ WorkingHasExchangeOrder

(* The counters add up: every call is counted once in total_orders and,    *)
(* as long as no call was given an existing order by its idempotency key,  *)
(* ends at most once, as a success or a failure, whether it fails in       *)
(* submit_order or by a later rejection; and a success is an order that is *)
(* FILLED.  After a replay the middle part is false: the replayed call and *)
(* the first one may both fail and the order be rejected on top            *)
(* (execution_engine.py:147-184, 257-265, 301-303).                        *)
NoReplay == \A c \in Order : orderOf[c] \in {c, NoOrder}
StatsConsistent ==
  /\ stats.total = Cardinality({c \in Order : call[c] # "idle"})
  /\ NoReplay => stats.successful + stats.failed
                   <= Cardinality({c \in Order : call[c] = "done"})
  /\ stats.successful <= Cardinality({o \in Order : status[o] = "FILLED"})

(* The reconciliation loop makes up for lost messages: an order that is    *)
(* working locally while the exchange has filled, cancelled or rejected it *)
(* does not stay so for ever, provided the loop is at some time left       *)
(* running (reconciliation.py:201-307).                                    *)
ReconciliationRepairs ==
  <>[]running =>
    \A o \in Order :
      (/\ status[o] \in {"SUBMITTED", "PARTIALLY_FILLED"}
       /\ xstatus[exchangeId[o]] \in {"FILLED", "CANCELED", "REJECTED"})
        ~> status[o] \notin {"SUBMITTED", "PARTIALLY_FILLED"}

-----------------------------------------------------------------------------
(* Two things the code says of itself and does not do.                     *)

(* "Scheduling retry {n} for order ..." (order_state_machine.py:473-476):  *)
(* a submission that failed with a retryable error is tried again or given *)
(* up; the order does not stay PENDING with nobody working on it, at least *)
(* while reconciliation is left running.                                   *)
ScheduledRetryHappens ==
  <>[]running =>
    \A o \in Order :
      (call[o] = "done" /\ retries[o] > 0 /\ status[o] = "PENDING")
        ~> (status[o] # "PENDING" \/ call[o] = "sent")

(* "Returning existing order for idempotency key" (order_state_machine.py: *)
(* 300): a call that is answered with the existing order of its key opens  *)
(* nothing new at the exchange.                                            *)
ReplayOpensNothing ==
  \A c \in Order : orderOf[c] \notin {c, NoOrder} => xstatus[c] = "NONE"
=============================================================================
