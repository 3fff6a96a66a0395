---------------------------- MODULE EventJournal ----------------------------
(***************************************************************************)
(* EventJournal (event_journal.py): published events are buffered, and a   *)
(* periodic task, every query and stop() flush the buffer to ClickHouse,   *)
(* or to a file when ClickHouse cannot be reached.                         *)
(*                                                                         *)
(* Everything runs on one event loop.  A critical section of _pending_lock *)
(* never suspends, with one exception: append() calls _flush_pending()     *)
(* inside it when the buffer is full, and that asks for the same lock,     *)
(* which is not reentrant.  So the lock is free at every suspension until  *)
(* an append fills the buffer, and then it is held for good: `held'.       *)
(* Writing a batch to the file never suspends; an insert into ClickHouse   *)
(* does, and it fails as a whole, perhaps after the server has applied it. *)
(*                                                                         *)
(* The model is the life of one journal object, from initialize() to the   *)
(* end of stop(); its counter total_failed is left out.  What a query      *)
(* reads, and in which day's file an event is, is in module JournalReplay. *)
(***************************************************************************)
EXTENDS Naturals, Sequences, FiniteSets, Functions

CONSTANTS
  Event,      \* events published on the bus
  Query,      \* tasks that call query()
  BatchSize,  \* _batch_size
  MaxFaults   \* failed writes; bounds the model

ASSUME JournalAssumption ==
  /\ BatchSize \in Nat \ {0}
  /\ MaxFaults \in Nat
  /\ Query \cap {"periodic", "stop"} = {}

Flusher == Query \union {"periodic", "stop"}

VARIABLES
  initialized,  \* _initialized
  backend,      \* _active_backend: none, clickhouse, file
  stopping,     \* stop(): no, cancelling, flushing, done
  task,         \* append() of this event: idle, spawned, holding, done
  appended,     \* events accepted so far, in order (total_appended)
  pending,      \* _pending
  held,         \* an append waits for the lock it holds
  flush,        \* _flush_pending: idle, writing, requeue, cancelled
  batch,        \* its local batch
  stored,       \* rows of the table, lines of the files, as they were written
  flushed,      \* total_flushed
  lost,         \* history: dropped by a cancelled or partial write
  doubtful,     \* history: inserted although the insert reported a failure
  faults        \* failed writes so far

taskVars == <<initialized, backend, stopping, task>>
bufferVars == <<appended, pending, held>>
flushVars == <<flush, batch>>
storeVars == <<stored, flushed, lost, doubtful, faults>>
vars == <<taskVars, bufferVars, flushVars, storeVars>>

Init ==
  /\ initialized = FALSE /\ backend = "none"
  /\ stopping = "no"
  /\ task = [e \in Event |-> "idle"]
  /\ appended = <<>> /\ pending = <<>> /\ held = FALSE
  /\ flush = [f \in Flusher |-> "idle"]
  /\ batch = [f \in Flusher |-> <<>>]
  /\ stored = <<>> /\ flushed = 0
  /\ lost = {} /\ doubtful = {} /\ faults = 0

\* get_event_journal publishes the object before it awaits initialize(),
\* which takes ClickHouse when it answers.
Initialize ==
  /\ ~initialized /\ stopping = "no"
  /\ initialized' = TRUE
  /\ backend' \in {"clickhouse", "file"}
  /\ UNCHANGED <<stopping, task, bufferVars, flushVars, storeVars>>

-----------------------------------------------------------------------------
(* RuntimeBus.publish spawns an append for every event.                    *)

Publish(e) ==
  /\ task[e] = "idle"
  /\ task' = [task EXCEPT ![e] = "spawned"]
  /\ UNCHANGED <<initialized, backend, stopping, bufferVars, flushVars, storeVars>>

AppendRefused(e) ==
  /\ task[e] = "spawned" /\ ~initialized
  /\ task' = [task EXCEPT ![e] = "done"]
  /\ UNCHANGED <<initialized, backend, stopping, bufferVars, flushVars, storeVars>>

\* The append that fills the buffer never returns and never lets go.
AppendEvent(e) ==
  /\ task[e] = "spawned" /\ initialized /\ ~held
  /\ pending' = Append(pending, e)
  /\ appended' = Append(appended, e)
  /\ held' = (Len(pending') >= BatchSize)
  /\ task' = [task EXCEPT ![e] = IF held' THEN "holding" ELSE "done"]
  /\ UNCHANGED <<initialized, backend, stopping, flushVars, storeVars>>

-----------------------------------------------------------------------------
(* _flush_pending, called by the periodic task, query() and stop().        *)

\* What its caller does next: the flusher sleeps, query() reads, stop()
\* drops the backends.
Caller(f) ==
  IF f = "stop" THEN stopping' = "done" /\ initialized' = FALSE
                ELSE UNCHANGED <<stopping, initialized>>

\* A mutant of MayFlush: the lock is not asked for.
MayFlushUnlocked(f) ==
  /\ flush[f] = "idle"
  /\ CASE f = "periodic" -> initialized
       [] f = "stop"     -> stopping = "flushing"
       [] OTHER          -> TRUE

MayFlush(f) ==
  /\ flush[f] = "idle" /\ ~held
  /\ CASE f = "periodic" -> initialized
       [] f = "stop"     -> stopping = "flushing"
       [] OTHER          -> TRUE

\* A mutant of Take: the buffer is cleared after the write.
TakeKeeping(f) ==
  /\ backend = "clickhouse" /\ initialized /\ MayFlush(f) /\ pending # <<>>
  /\ batch' = [batch EXCEPT ![f] = pending]
  /\ flush' = [flush EXCEPT ![f] = "writing"]
  /\ UNCHANGED <<taskVars, bufferVars, storeVars>>

Take(f) ==
  /\ backend = "clickhouse" /\ initialized /\ MayFlush(f) /\ pending # <<>>
  /\ batch' = [batch EXCEPT ![f] = pending]
  /\ pending' = <<>>
  /\ flush' = [flush EXCEPT ![f] = "writing"]
  /\ UNCHANGED <<taskVars, appended, held, storeVars>>

\* Nothing to write.
StopEmpty ==
  /\ MayFlush("stop") /\ pending = <<>>
  /\ Caller("stop")
  /\ UNCHANGED <<backend, task, bufferVars, flushVars, storeVars>>

\* A mutant of WriteDone: the answer is counted, not looked at.
WriteDoneBlind(f) ==
  /\ flush[f] = "writing"
  /\ \/ stored' = stored \o batch[f]
     \/ UNCHANGED stored
  /\ flushed' = flushed + Len(batch[f])
  /\ flush' = [flush EXCEPT ![f] = "idle"]
  /\ batch' = [batch EXCEPT ![f] = <<>>]
  /\ Caller(f)
  /\ UNCHANGED <<backend, task, bufferVars, lost, doubtful, faults>>

WriteDone(f) ==
  /\ flush[f] = "writing"
  /\ stored' = stored \o batch[f]
  /\ flushed' = flushed + Len(batch[f])
  /\ flush' = [flush EXCEPT ![f] = "idle"]
  /\ batch' = [batch EXCEPT ![f] = <<>>]
  /\ Caller(f)
  /\ UNCHANGED <<backend, task, bufferVars, lost, doubtful, faults>>

\* Mutants of Requeue: a failed batch is dropped; the newer events are.
RequeueNothing(f) ==
  /\ flush' = [flush EXCEPT ![f] = "idle"]
  /\ batch' = [batch EXCEPT ![f] = <<>>]
  /\ Caller(f)
  /\ UNCHANGED <<backend, task, bufferVars>>
RequeueOver(f) ==
  /\ pending' = batch[f]
  /\ flush' = [flush EXCEPT ![f] = "idle"]
  /\ batch' = [batch EXCEPT ![f] = <<>>]
  /\ Caller(f)
  /\ UNCHANGED <<backend, task, appended, held>>

\* The batch goes behind what came in meanwhile; a held lock is waited for.
Requeue(f) ==
  \/ /\ ~held
     /\ pending' = pending \o batch[f]
     /\ flush' = [flush EXCEPT ![f] = "idle"]
     /\ batch' = [batch EXCEPT ![f] = <<>>]
     /\ Caller(f)
     /\ UNCHANGED <<backend, task, appended, held>>
  \/ /\ held
     /\ flush' = [flush EXCEPT ![f] = "requeue"]
     /\ UNCHANGED <<taskVars, bufferVars, batch>>

WriteFails(f) ==
  /\ flush[f] = "writing" /\ faults < MaxFaults
  /\ \/ UNCHANGED <<stored, doubtful>>
     \/ /\ stored' = stored \o batch[f]
        /\ doubtful' = doubtful \union Range(batch[f])
  /\ faults' = faults + 1
  /\ Requeue(f)
  /\ UNCHANGED <<flushed, lost>>

\* A mutant of FlushFile: the batch is written from its end.
FlushFileBackwards(f) ==
  /\ backend = "file" /\ initialized /\ MayFlush(f) /\ pending # <<>>
  /\ stored' = stored \o [i \in DOMAIN pending |-> pending[Len(pending) + 1 - i]]
  /\ flushed' = flushed + Len(pending)
  /\ pending' = <<>>
  /\ Caller(f)
  /\ UNCHANGED <<backend, task, appended, held, flushVars, lost, doubtful, faults>>

\* What is left of a sequence when any of its elements are taken out.
Remains(s) ==
  UNION {{[i \in 1..n |-> s[pick[i]]] :
            pick \in {p \in [1..n -> DOMAIN s] : \A i, j \in 1..n : i < j => p[i] < p[j]}} :
         n \in 0..Len(s)}

\* The file takes the batch line by line, and some lines may fail: these are
\* put back only when not one line was written.
FlushFile(f) ==
  /\ backend = "file" /\ initialized /\ MayFlush(f) /\ pending # <<>>
  /\ \E lines \in Remains(pending) :
       LET failed == Range(pending) \ Range(lines)
       IN /\ failed # {} => faults < MaxFaults
          /\ stored' = stored \o lines
          /\ flushed' = flushed + Len(lines)
          /\ pending' = IF lines = <<>> THEN pending ELSE <<>>
          /\ lost' = IF lines = <<>> THEN lost ELSE lost \union failed
          /\ faults' = IF failed = {} THEN faults ELSE faults + 1
  /\ Caller(f)
  /\ UNCHANGED <<backend, task, appended, held, flushVars, doubtful>>

-----------------------------------------------------------------------------
(* stop(): cancel the periodic task, await it, flush, drop the backends.   *)

Stop ==
  /\ initialized /\ stopping = "no"
  /\ stopping' = "cancelling"
  /\ UNCHANGED <<initialized, backend, task, bufferVars, flushVars, storeVars>>

\* The cancellation interrupts a flush that is writing, whether or not the
\* insert goes through, or that waits for the lock.
FlusherCancelled ==
  /\ stopping = "cancelling"
  /\ stopping' = "flushing"
  /\ flush' = [flush EXCEPT !["periodic"] = "cancelled"]
  /\ batch' = [batch EXCEPT !["periodic"] = <<>>]
  /\ lost' = lost \union Range(batch["periodic"])
  /\ \/ UNCHANGED stored
     \/ /\ flush["periodic"] = "writing"
        /\ stored' = stored \o batch["periodic"]
  /\ UNCHANGED <<initialized, backend, task, bufferVars, flushed, doubtful, faults>>

Appending(e) == Publish(e) \/ AppendRefused(e) \/ AppendEvent(e)
Flushing(f) == Take(f) \/ WriteDone(f) \/ WriteFails(f) \/ FlushFile(f)
Stopping == Stop \/ FlusherCancelled \/ StopEmpty

\* What happens beside the queries.
Journals ==
  \/ Initialize
  \/ \E e \in Event : Appending(e)
  \/ \E f \in Flusher \ Query : Flushing(f)
  \/ Stopping

Next == Journals \/ \E q \in Query : Flushing(q)

\* The flusher wakes up every two seconds and inserts are answered.
Fairness ==
  /\ WF_vars(Initialize)
  /\ \A e \in Event : WF_vars(AppendEvent(e))
  /\ WF_vars(Take("periodic") \/ FlushFile("periodic"))
  /\ \A f \in Flusher : WF_vars(WriteDone(f) \/ WriteFails(f))

Spec == Init /\ [][Next]_vars /\ Fairness

-----------------------------------------------------------------------------
Count(e, s) == Cardinality({i \in DOMAIN s : s[i] = e})
InFlight(e) == {f \in Flusher : e \in Range(batch[f])}

TypeOK ==
  /\ initialized \in BOOLEAN /\ held \in BOOLEAN
  /\ backend \in {"none", "clickhouse", "file"}
  /\ stopping \in {"no", "cancelling", "flushing", "done"}
  /\ task \in [Event -> {"idle", "spawned", "holding", "done"}]
  /\ appended \in Seq(Event) /\ pending \in Seq(Event)
  /\ flush \in [Flusher -> {"idle", "writing", "requeue", "cancelled"}]
  /\ batch \in [Flusher -> Seq(Event)]
  /\ stored \in Seq(Event) /\ flushed \in 0..Len(stored)
  /\ lost \subseteq Event /\ doubtful \subseteq Event
  /\ faults \in 0..MaxFaults

\* An accepted event is in the buffer, in a batch being written or in the
\* journal, whatever flushes interleave and fail, unless the cancellation of
\* the flusher or a partly written file dropped it.
NothingDropped ==
  \A e \in Range(appended) :
    \/ e \in Range(pending) \/ InFlight(e) # {} \/ e \in Range(stored)
    \/ e \in lost

\* Flushes of the timer, of queries and of stop() never write one event
\* twice; only an insert that failed after it was applied is repeated.
WrittenOnce ==
  \A e \in Event \ doubtful :
    Count(e, pending) + Cardinality(InFlight(e)) + Count(e, stored) <= 1

\* The lines of the journal files were written in the order the events were
\* accepted, and so every file has its lines in that order.
FileInOrder ==
  backend = "file" =>
    \A i, j \in DOMAIN stored : i < j =>
      \E m, n \in DOMAIN appended :
        m < n /\ appended[m] = stored[i] /\ appended[n] = stored[j]

\* The append that fills the buffer blocks itself and every later flush: what
\* is in the buffer then stays there.
FullBufferIsFrozen == [][held => held' /\ pending' = pending]_vars

\* Until an append blocks the buffer or the journal is stopped, every
\* accepted event reaches the journal, if inserts do not fail for ever.
AcceptedIsStored ==
  \A e \in Event :
    e \in Range(appended) ~>
      e \in Range(stored) \union lost \/ held \/ stopping # "no"
=============================================================================
