------------------------- MODULE EventJournalProofs -------------------------
(***************************************************************************)
(* Proofs about EventJournal, for any events, queries and limits, and      *)
(* about JournalReplay, whose steps are steps of the journal.              *)
(***************************************************************************)
EXTENDS JournalReplay, FiniteSetTheorems, TLAPS

-----------------------------------------------------------------------------
(* Sequences.                                                              *)

Single(s, e) == \A i, j \in DOMAIN s : s[i] = e /\ s[j] = e => i = j

LEMMA EmptyHasNone == Range(<<>>) = {} /\ \A e : Single(<<>>, e)
  BY DEF Range, Single

LEMMA AppendRange ==
  ASSUME NEW S, NEW s \in Seq(S), NEW e \in S
  PROVE  /\ Append(s, e) \in Seq(S)
         /\ Range(Append(s, e)) = Range(s) \union {e}
<1>1. Append(s, e) \in Seq(S) /\ Len(Append(s, e)) = Len(s) + 1  OBVIOUS
<1>2. ASSUME NEW x \in Range(Append(s, e)) PROVE x \in Range(s) \union {e}
  BY <1>1, <1>2 DEF Range
<1>3. ASSUME NEW x \in Range(s) PROVE x \in Range(Append(s, e))
  <2>1. PICK i \in 1..Len(s) : s[i] = x  BY <1>3 DEF Range
  <2>2. i \in DOMAIN Append(s, e) /\ Append(s, e)[i] = x  BY <2>1, <1>1
  <2>3. QED BY <2>2 DEF Range
<1>4. e \in Range(Append(s, e))
  <2>1. Len(s) + 1 \in DOMAIN Append(s, e) /\ Append(s, e)[Len(s) + 1] = e  BY <1>1
  <2>2. QED BY <2>1 DEF Range
<1>5. QED BY <1>1, <1>2, <1>3, <1>4

LEMMA ConcatRange ==
  ASSUME NEW S, NEW s \in Seq(S), NEW t \in Seq(S)
  PROVE  /\ s \o t \in Seq(S) /\ Len(s \o t) = Len(s) + Len(t)
         /\ Range(s \o t) = Range(s) \union Range(t)
<1>1. s \o t \in Seq(S) /\ Len(s \o t) = Len(s) + Len(t)  OBVIOUS
<1>2. ASSUME NEW x \in Range(s \o t) PROVE x \in Range(s) \union Range(t)
  <2>1. PICK i \in 1..(Len(s) + Len(t)) : (s \o t)[i] = x  BY <1>1, <1>2 DEF Range
  <2>2. CASE i <= Len(s)
    <3>1. i \in DOMAIN s /\ s[i] = x  BY <2>1, <2>2
    <3>2. QED BY <3>1 DEF Range
  <2>3. CASE i > Len(s)
    <3>1. i - Len(s) \in DOMAIN t /\ t[i - Len(s)] = x  BY <2>1, <2>3
    <3>2. QED BY <3>1 DEF Range
  <2>4. QED BY <2>1, <2>2, <2>3
<1>3. ASSUME NEW x \in Range(s) PROVE x \in Range(s \o t)
  <2>1. PICK i \in 1..Len(s) : s[i] = x  BY <1>3 DEF Range
  <2>2. i \in DOMAIN (s \o t) /\ (s \o t)[i] = x  BY <2>1, <1>1
  <2>3. QED BY <2>2 DEF Range
<1>4. ASSUME NEW x \in Range(t) PROVE x \in Range(s \o t)
  <2>1. PICK i \in 1..Len(t) : t[i] = x  BY <1>4 DEF Range
  <2>2. Len(s) + i \in DOMAIN (s \o t) /\ (s \o t)[Len(s) + i] = x  BY <2>1, <1>1
  <2>3. QED BY <2>2 DEF Range
<1>5. QED BY <1>1, <1>2, <1>3, <1>4

LEMMA ConcatSingle ==
  ASSUME NEW S, NEW s \in Seq(S), NEW t \in Seq(S), NEW e,
         Single(s, e), Single(t, e), ~(e \in Range(s) /\ e \in Range(t))
  PROVE  Single(s \o t, e)
<1>1. SUFFICES ASSUME NEW i \in DOMAIN (s \o t), NEW j \in DOMAIN (s \o t),
                      (s \o t)[i] = e, (s \o t)[j] = e
               PROVE  i = j
  BY DEF Single
<1>2. i \in 1..(Len(s) + Len(t)) /\ j \in 1..(Len(s) + Len(t))  BY ConcatRange
<1>3. \A k \in 1..(Len(s) + Len(t)) : (s \o t)[k] = e =>
        \/ k \in DOMAIN s /\ s[k] = e
        \/ k - Len(s) \in DOMAIN t /\ t[k - Len(s)] = e
  OBVIOUS
<1>4. \/ i \in DOMAIN s /\ s[i] = e /\ j \in DOMAIN s /\ s[j] = e
      \/ /\ i - Len(s) \in DOMAIN t /\ t[i - Len(s)] = e
         /\ j - Len(s) \in DOMAIN t /\ t[j - Len(s)] = e
  BY <1>1, <1>2, <1>3 DEF Range
<1>5. CASE i \in DOMAIN s /\ s[i] = e /\ j \in DOMAIN s /\ s[j] = e
  BY <1>5 DEF Single
<1>6. CASE /\ i - Len(s) \in DOMAIN t /\ t[i - Len(s)] = e
           /\ j - Len(s) \in DOMAIN t /\ t[j - Len(s)] = e
  <2>1. i - Len(s) = j - Len(s)  BY <1>6 DEF Single
  <2>2. QED BY <2>1, <1>2
<1>7. QED BY <1>4, <1>5, <1>6

LEMMA AppendSingle ==
  ASSUME NEW S, NEW s \in Seq(S), NEW x \in S, NEW e, Single(s, e), x # e \/ e \notin Range(s)
  PROVE  Single(Append(s, x), e)
<1>1. SUFFICES ASSUME NEW i \in DOMAIN Append(s, x), NEW j \in DOMAIN Append(s, x),
                      Append(s, x)[i] = e, Append(s, x)[j] = e
               PROVE  i = j
  BY DEF Single
<1>2. i \in 1..(Len(s) + 1) /\ j \in 1..(Len(s) + 1)  OBVIOUS
<1>3. \A k \in 1..(Len(s) + 1) : Append(s, x)[k] = e =>
        \/ k \in DOMAIN s /\ s[k] = e
        \/ k = Len(s) + 1 /\ x = e
  OBVIOUS
<1>4. QED BY <1>1, <1>2, <1>3 DEF Single, Range

\* What Remains(s) keeps of s: a part of it, in its order.
LEMMA RemainsKeeps ==
  ASSUME NEW S, NEW s \in Seq(S), NEW r \in Remains(s)
  PROVE  /\ r \in Seq(S)
         /\ Range(r) \subseteq Range(s)
         /\ \E pick \in [1..Len(r) -> DOMAIN s] :
              /\ \A i, j \in 1..Len(r) : i < j => pick[i] < pick[j]
              /\ \A i \in 1..Len(r) : r[i] = s[pick[i]]
         /\ \A e : Single(s, e) => Single(r, e)
<1>1. PICK n \in 0..Len(s) :
        r \in {[i \in 1..n |-> s[p[i]]] :
                 p \in {p \in [1..n -> DOMAIN s] : \A i, j \in 1..n : i < j => p[i] < p[j]}}
  BY DEF Remains
<1>2. PICK pick \in [1..n -> DOMAIN s] :
        /\ \A i, j \in 1..n : i < j => pick[i] < pick[j]
        /\ r = [i \in 1..n |-> s[pick[i]]]
  BY <1>1
<1>3. DOMAIN s = 1..Len(s) /\ n \in Nat  BY <1>1
<1>4. \A i \in 1..n : s[pick[i]] \in S  BY <1>2, <1>3
<1>5. r \in Seq(S) /\ Len(r) = n /\ DOMAIN r = 1..n
  BY <1>2, <1>3, <1>4
<1>6. Range(r) \subseteq Range(s)
  BY <1>2, <1>5 DEF Range
<1>7. ASSUME NEW e, Single(s, e) PROVE Single(r, e)
  <2>1. SUFFICES ASSUME NEW i \in 1..n, NEW j \in 1..n, r[i] = e, r[j] = e
                 PROVE  i = j
    BY <1>5 DEF Single
  <2>2. pick[i] \in DOMAIN s /\ pick[j] \in DOMAIN s /\ s[pick[i]] = e /\ s[pick[j]] = e
    BY <1>2, <2>1
  <2>3. pick[i] = pick[j]  BY <1>7, <2>2 DEF Single
  <2>4. pick[i] \in Nat /\ pick[j] \in Nat  BY <2>2, <1>3
  <2>5. QED BY <1>2, <1>3, <2>3, <2>4
<1>8. QED BY <1>2, <1>5, <1>6, <1>7
-----------------------------------------------------------------------------
(* Types, and what holds of the places an event may be in.                 *)

\* A batch is in use as long as its insert is awaited or has to be put back.
BatchesInv ==
  \A f \in Flusher :
    /\ flush[f] \in {"writing", "requeue"} => backend = "clickhouse"
    /\ flush[f] \in {"idle", "cancelled"} => batch[f] = <<>>

\* What an append has not accepted is nowhere.
PlacesInv ==
  /\ \A e \in Event : task[e] \in {"idle", "spawned"} => e \notin Range(appended)
  /\ Range(pending) \subseteq Range(appended)
  /\ Range(stored) \subseteq Range(appended)
  /\ \A f \in Flusher : Range(batch[f]) \subseteq Range(appended)

LifeInv == initialized \/ stopping = "done" \/ backend = "none"

JournalInv == TypeOK /\ LifeInv /\ BatchesInv /\ PlacesInv

\* Nothing moves.
Still == UNCHANGED <<appended, pending, batch, stored, lost, doubtful>>

\* The steps of the journal: those that move an event, and the others.
LEMMA StepsOfJournal ==
  ASSUME [Next]_vars
  PROVE  \/ UNCHANGED vars
         \/ Initialize \/ StopEmpty \/ Stop
         \/ \E e \in Event : Publish(e) \/ AppendRefused(e) \/ AppendEvent(e)
         \/ \E f \in Flusher : Take(f) \/ WriteDone(f) \/ WriteFails(f) \/ FlushFile(f)
         \/ FlusherCancelled
  BY DEF Next, Journals, Appending, Flushing, Stopping, Flusher

LEMMA StillOrMoves ==
  ASSUME [Next]_vars
  PROVE  \/ Still /\ UNCHANGED <<flush, flushed, faults>>
         \/ \E e \in Event : AppendEvent(e)
         \/ \E f \in Flusher : Take(f) \/ WriteDone(f) \/ WriteFails(f) \/ FlushFile(f)
         \/ FlusherCancelled
<1>1. CASE UNCHANGED vars \/ Initialize \/ StopEmpty \/ Stop
  BY <1>1 DEF vars, bufferVars, flushVars, storeVars, taskVars, Still, Initialize, StopEmpty,
              Stop
<1>2. CASE \E e \in Event : Publish(e) \/ AppendRefused(e)
  BY <1>2 DEF bufferVars, flushVars, storeVars, Still, Publish, AppendRefused
<1>3. QED BY <1>1, <1>2, StepsOfJournal

LEMMA JournalInit == Init => JournalInv
<1> SUFFICES ASSUME Init PROVE JournalInv  OBVIOUS
<1>2. TypeOK
  <2>1. initialized = FALSE /\ held = FALSE  BY Zenon DEF Init
  <2>2. initialized \in BOOLEAN /\ held \in BOOLEAN  BY <2>1, Zenon
  <2>3. <<>> \in Seq(Event) /\ Len(<<>>) = 0  OBVIOUS
  <2>4. /\ appended = <<>> /\ pending = <<>> /\ stored = <<>> /\ flushed = 0 /\ faults = 0
        /\ batch = [f \in Flusher |-> <<>>] /\ flush = [f \in Flusher |-> "idle"]
        /\ task = [e \in Event |-> "idle"]
        /\ lost = {} /\ doubtful = {} /\ backend = "none" /\ stopping = "no"
    BY DEF Init
  <2>5. QED BY <2>2, <2>3, <2>4, JournalAssumption DEF TypeOK
<1>3. LifeInv /\ BatchesInv  BY DEF Init, LifeInv, BatchesInv
<1>4. PlacesInv
  <2>1. /\ appended = <<>> /\ pending = <<>> /\ stored = <<>>
        /\ \A f \in Flusher : batch[f] = <<>>
    BY DEF Init
  <2>2. QED BY <2>1, EmptyHasNone DEF PlacesInv
<1>5. QED BY <1>2, <1>3, <1>4 DEF JournalInv

\* The types of the counters and of everything but the switches.
DataTypes ==
  /\ backend \in {"none", "clickhouse", "file"}
  /\ stopping \in {"no", "cancelling", "flushing", "done"}
  /\ task \in [Event -> {"idle", "spawned", "holding", "done"}]
  /\ appended \in Seq(Event) /\ pending \in Seq(Event)
  /\ flush \in [Flusher -> {"idle", "writing", "requeue", "cancelled"}]
  /\ batch \in [Flusher -> Seq(Event)]
  /\ stored \in Seq(Event) /\ flushed \in Nat /\ flushed <= Len(stored)
  /\ lost \subseteq Event /\ doubtful \subseteq Event
  /\ faults \in 0..MaxFaults

LEMMA TypesAreData == TypeOK <=> (initialized \in BOOLEAN /\ held \in BOOLEAN /\ DataTypes)
<1>1. ASSUME DataTypes PROVE flushed \in 0..Len(stored)
  BY <1>1 DEF DataTypes
<1>2. ASSUME TypeOK PROVE flushed \in Nat /\ flushed <= Len(stored)
  BY <1>2 DEF TypeOK
<1>3. ASSUME TypeOK PROVE DataTypes  BY <1>2, <1>3 DEF TypeOK, DataTypes
<1>4. ASSUME TypeOK PROVE initialized \in BOOLEAN /\ held \in BOOLEAN
  BY <1>4, Zenon DEF TypeOK
<1>5. ASSUME initialized \in BOOLEAN, held \in BOOLEAN, DataTypes PROVE TypeOK
  <2>1. flushed \in 0..Len(stored)  BY <1>1, <1>5
  <2>2. QED BY <1>5, <2>1, Zenon DEF DataTypes, TypeOK
<1>6. QED BY <1>3, <1>4, <1>5

LEMMA SwitchesStep ==
  ASSUME initialized \in BOOLEAN, held \in BOOLEAN, [Next]_vars
  PROVE  initialized' \in BOOLEAN /\ held' \in BOOLEAN
<1>1. CASE UNCHANGED vars
  BY <1>1, Zenon DEF vars, taskVars, bufferVars
<1>2. CASE Initialize \/ Stop \/ FlusherCancelled
  BY <1>2, Zenon DEF Initialize, Stop, FlusherCancelled, bufferVars
<1>3. CASE StopEmpty
  <2>1. initialized' = FALSE /\ held' = held  BY <1>3 DEF StopEmpty, Caller, bufferVars
  <2>2. QED BY <2>1, Zenon
<1>4. ASSUME NEW e \in Event, Publish(e) \/ AppendRefused(e)
      PROVE  initialized' \in BOOLEAN /\ held' \in BOOLEAN
  BY <1>4, Zenon DEF Publish, AppendRefused, bufferVars
<1>5. ASSUME NEW e \in Event, AppendEvent(e)
      PROVE  initialized' \in BOOLEAN /\ held' \in BOOLEAN
  <2>1. initialized' = initialized /\ held' = (Len(pending') >= BatchSize)
    BY <1>5, Zenon DEF AppendEvent
  <2>2. (Len(pending') >= BatchSize) \in BOOLEAN  OBVIOUS
  <2>3. QED BY <2>1, <2>2, Zenon
<1>6. ASSUME NEW f \in Flusher, Take(f) \/ WriteDone(f) \/ WriteFails(f) \/ FlushFile(f)
      PROVE  initialized' \in BOOLEAN /\ held' \in BOOLEAN
  <2>1. initialized' = FALSE \/ initialized' = initialized
    BY <1>6, Zenon DEF Take, WriteDone, WriteFails, FlushFile, Requeue, Caller, taskVars
  <2>2. held' = held
    BY <1>6, Zenon DEF Take, WriteDone, WriteFails, FlushFile, Requeue, bufferVars
  <2>3. QED BY <2>1, <2>2, Zenon
<1>7. QED BY <1>1, <1>2, <1>3, <1>4, <1>5, <1>6, StepsOfJournal

\* The steps that move no event.
LEMMA StillStep ==
  ASSUME JournalInv, [Next]_vars, Still, UNCHANGED <<flush, flushed, faults>>
  PROVE  DataTypes' /\ LifeInv' /\ BatchesInv' /\ PlacesInv'
<1> USE DEF Still
<1>0. DataTypes /\ LifeInv /\ BatchesInv /\ PlacesInv
  BY TypesAreData DEF JournalInv
<1>1. CASE UNCHANGED vars
  BY <1>0, <1>1 DEF DataTypes, LifeInv, BatchesInv, PlacesInv, vars, taskVars
<1>2. CASE Initialize
  <2>1. backend = "none" /\ backend' \in {"clickhouse", "file"} /\ initialized'
        /\ UNCHANGED <<stopping, task>>
    BY <1>0, <1>2 DEF Initialize, LifeInv
  <2>2. QED BY <1>0, <2>1 DEF DataTypes, LifeInv, BatchesInv, PlacesInv
<1>3. CASE StopEmpty \/ Stop
  <2>1. /\ UNCHANGED <<backend, task>>
        /\ \/ stopping' = "done"
           \/ stopping' = "cancelling" /\ stopping = "no" /\ (initialized' <=> initialized)
    BY <1>3 DEF StopEmpty, Stop, Caller
  <2>2. QED BY <1>0, <2>1 DEF DataTypes, LifeInv, BatchesInv, PlacesInv
<1>4. ASSUME NEW e \in Event, Publish(e) \/ AppendRefused(e)
      PROVE  DataTypes' /\ LifeInv' /\ BatchesInv' /\ PlacesInv'
  <2>1. /\ task[e] \in {"idle", "spawned"} /\ task' = [task EXCEPT ![e] = task'[e]]
        /\ task'[e] \in {"spawned", "done"}
        /\ UNCHANGED <<backend, stopping, initialized>>
    BY <1>0, <1>4 DEF Publish, AppendRefused, DataTypes
  <2>2. QED BY <1>0, <2>1 DEF DataTypes, LifeInv, BatchesInv, PlacesInv
<1>5. ASSUME NEW e \in Event, AppendEvent(e) PROVE FALSE
  <2>1. appended' = Append(appended, e) /\ appended \in Seq(Event)
    BY <1>0, <1>5 DEF AppendEvent, DataTypes
  <2>2. Len(Append(appended, e)) = Len(appended) + 1 /\ Len(appended) \in Nat
    BY <2>1
  <2>3. QED BY <2>1, <2>2
<1>6. ASSUME NEW f \in Flusher, Take(f) \/ WriteDone(f) \/ WriteFails(f) \/ FlushFile(f)
      PROVE  DataTypes' /\ LifeInv' /\ BatchesInv' /\ PlacesInv'
  <2>1. /\ UNCHANGED <<backend, task>>
        /\ \/ stopping' = "done"
           \/ stopping' = stopping /\ (initialized' <=> initialized)
    BY <1>6 DEF Take, WriteDone, WriteFails, FlushFile, Requeue, Caller, taskVars
  <2>2. QED BY <1>0, <2>1 DEF DataTypes, LifeInv, BatchesInv, PlacesInv
<1>7. CASE FlusherCancelled
  BY <1>0, <1>7 DEF FlusherCancelled, DataTypes, LifeInv, BatchesInv, PlacesInv
<1>8. QED BY <1>1, <1>2, <1>3, <1>4, <1>5, <1>6, <1>7, StepsOfJournal

LEMMA AcceptStep ==
  ASSUME JournalInv, NEW e \in Event, AppendEvent(e)
  PROVE  DataTypes' /\ LifeInv' /\ BatchesInv' /\ PlacesInv'
<1>0. DataTypes /\ LifeInv /\ BatchesInv /\ PlacesInv
  BY TypesAreData DEF JournalInv
<1>1. /\ initialized /\ task[e] = "spawned"
      /\ pending' = Append(pending, e) /\ appended' = Append(appended, e)
      /\ task' = [task EXCEPT ![e] = task'[e]] /\ task'[e] \in {"holding", "done"}
      /\ UNCHANGED <<initialized, backend, stopping, flush, batch, stored, flushed, lost, doubtful,
                     faults>>
  BY <1>0 DEF AppendEvent, DataTypes, flushVars, storeVars
<1>2. /\ appended' \in Seq(Event) /\ Range(appended') = Range(appended) \union {e}
      /\ pending' \in Seq(Event) /\ Range(pending') = Range(pending) \union {e}
  BY <1>0, <1>1, AppendRange DEF DataTypes
<1>3. DataTypes' /\ LifeInv' /\ BatchesInv'
  BY <1>0, <1>1, <1>2 DEF DataTypes, LifeInv, BatchesInv
<1>4. PlacesInv'
  BY <1>0, <1>1, <1>2 DEF PlacesInv, DataTypes
<1>5. QED BY <1>3, <1>4

LEMMA TakeStep ==
  ASSUME JournalInv, NEW f \in Flusher, Take(f)
  PROVE  DataTypes' /\ LifeInv' /\ BatchesInv' /\ PlacesInv'
<1>0. DataTypes /\ LifeInv /\ BatchesInv /\ PlacesInv
  BY TypesAreData DEF JournalInv
<1>1. /\ backend = "clickhouse" /\ pending' = <<>>
      /\ batch' = [batch EXCEPT ![f] = pending] /\ flush' = [flush EXCEPT ![f] = "writing"]
      /\ UNCHANGED <<initialized, backend, stopping, task, appended, stored, flushed, lost,
                     doubtful, faults>>
  BY DEF Take, taskVars, storeVars
<1>2. <<>> \in Seq(Event)  OBVIOUS
<1>3. DataTypes' /\ LifeInv' /\ BatchesInv'
  BY <1>0, <1>1, <1>2 DEF DataTypes, LifeInv, BatchesInv
<1>4. PlacesInv'
  BY <1>0, <1>1, EmptyHasNone DEF PlacesInv, DataTypes
<1>5. QED BY <1>3, <1>4

LEMMA WriteDoneStep ==
  ASSUME JournalInv, NEW f \in Flusher, WriteDone(f)
  PROVE  DataTypes' /\ LifeInv' /\ BatchesInv' /\ PlacesInv'
<1>0. DataTypes /\ LifeInv /\ BatchesInv /\ PlacesInv
  BY TypesAreData DEF JournalInv
<1>1. /\ stored' = stored \o batch[f] /\ flushed' = flushed + Len(batch[f])
      /\ batch' = [batch EXCEPT ![f] = <<>>] /\ flush' = [flush EXCEPT ![f] = "idle"]
      /\ stopping' = "done" \/ (stopping' = stopping /\ (initialized' <=> initialized))
      /\ UNCHANGED <<backend, task, pending, appended, lost, doubtful, faults>>
  BY DEF WriteDone, Caller, bufferVars
<1>2. /\ stored' \in Seq(Event) /\ Len(stored') = Len(stored) + Len(batch[f])
      /\ Range(stored') = Range(stored) \union Range(batch[f])
      /\ Len(batch[f]) \in Nat /\ Len(stored) \in Nat
  BY <1>0, <1>1, ConcatRange DEF DataTypes
<1>3. <<>> \in Seq(Event)  OBVIOUS
<1>4. DataTypes' /\ LifeInv' /\ BatchesInv'
  BY <1>0, <1>1, <1>2, <1>3 DEF DataTypes, LifeInv, BatchesInv
<1>5. PlacesInv'
  BY <1>0, <1>1, <1>2, EmptyHasNone DEF PlacesInv, DataTypes
<1>6. QED BY <1>4, <1>5

\* What Requeue(f) does to a batch: it goes back, or waits.
LEMMA RequeuePuts ==
  ASSUME JournalInv, NEW f \in Flusher, flush[f] = "writing", Requeue(f)
  PROVE  /\ UNCHANGED <<backend, task, appended, held>>
         /\ stopping' = "done" \/ (stopping' = stopping /\ (initialized' <=> initialized))
         /\ \/ /\ pending' = pending \o batch[f]
               /\ batch' = [batch EXCEPT ![f] = <<>>]
               /\ flush' = [flush EXCEPT ![f] = "idle"]
            \/ /\ UNCHANGED <<pending, batch>>
               /\ flush' = [flush EXCEPT ![f] = "requeue"]
  BY DEF Requeue, Caller, taskVars, bufferVars

LEMMA WriteFailsStep ==
  ASSUME JournalInv, NEW f \in Flusher, WriteFails(f)
  PROVE  DataTypes' /\ LifeInv' /\ BatchesInv' /\ PlacesInv'
<1>0. DataTypes /\ LifeInv /\ BatchesInv /\ PlacesInv
  BY TypesAreData DEF JournalInv
<1>1. /\ flush[f] = "writing" /\ Requeue(f) /\ UNCHANGED <<flushed, lost>>
      /\ faults < MaxFaults /\ faults' = faults + 1
      /\ \/ UNCHANGED <<stored, doubtful>>
         \/ stored' = stored \o batch[f] /\ doubtful' = doubtful \union Range(batch[f])
  BY DEF WriteFails
<1>2. /\ UNCHANGED <<backend, task, appended>>
      /\ stopping' = "done" \/ (stopping' = stopping /\ (initialized' <=> initialized))
      /\ \/ /\ pending' = pending \o batch[f]
            /\ batch' = [batch EXCEPT ![f] = <<>>]
            /\ flush' = [flush EXCEPT ![f] = "idle"]
         \/ /\ UNCHANGED <<pending, batch>>
            /\ flush' = [flush EXCEPT ![f] = "requeue"]
  BY <1>1, RequeuePuts
<1>3. /\ batch[f] \in Seq(Event) /\ Range(batch[f]) \subseteq Event
      /\ Len(stored) \in Nat /\ Len(batch[f]) \in Nat /\ faults' \in 0..MaxFaults
  BY <1>0, <1>1, JournalAssumption DEF DataTypes, Range
<1>4. /\ stored' \in Seq(Event) /\ Len(stored) <= Len(stored')
      /\ Range(stored') \subseteq Range(stored) \union Range(batch[f])
      /\ doubtful' \subseteq Event
  <2>1. CASE UNCHANGED <<stored, doubtful>>
    BY <1>0, <1>3, <2>1 DEF DataTypes
  <2>2. CASE stored' = stored \o batch[f] /\ doubtful' = doubtful \union Range(batch[f])
    <3>1. /\ stored' \in Seq(Event) /\ Len(stored') = Len(stored) + Len(batch[f])
          /\ Range(stored') = Range(stored) \union Range(batch[f])
      BY <1>0, <1>3, <2>2, ConcatRange DEF DataTypes
    <3>2. doubtful' \subseteq Event  BY <1>0, <1>3, <2>2 DEF DataTypes
    <3>3. QED BY <3>1, <3>2, <1>3
  <2>3. QED BY <1>1, <2>1, <2>2
<1>5. /\ pending' \in Seq(Event)
      /\ Range(pending') \subseteq Range(pending) \union Range(batch[f])
  <2>1. CASE pending' = pending \o batch[f]
    <3>1. pending \in Seq(Event)  BY <1>0 DEF DataTypes
    <3>2. /\ pending \o batch[f] \in Seq(Event)
          /\ Range(pending \o batch[f]) = Range(pending) \union Range(batch[f])
      BY <1>3, <3>1, ConcatRange
    <3>3. QED BY <2>1, <3>2
  <2>2. CASE pending' = pending
    BY <1>0, <2>2 DEF DataTypes
  <2>3. QED BY <1>2, <2>1, <2>2
<1>6. <<>> \in Seq(Event)  OBVIOUS
<1>7. DataTypes' /\ LifeInv' /\ BatchesInv'
  <2>1. DataTypes'
    <3>1. flushed' \in Nat /\ flushed' <= Len(stored') /\ Len(stored') \in Nat
      BY <1>0, <1>1, <1>3, <1>4 DEF DataTypes
    <3>2. batch' \in [Flusher -> Seq(Event)]
          /\ flush' \in [Flusher -> {"idle", "writing", "requeue", "cancelled"}]
      BY <1>0, <1>2, <1>6 DEF DataTypes
    <3>3. QED BY <1>0, <1>1, <1>2, <1>3, <1>4, <1>5, <3>1, <3>2 DEF DataTypes
  <2>2. LifeInv'  BY <1>0, <1>2 DEF LifeInv
  <2>3. BatchesInv'  BY <1>0, <1>1, <1>2 DEF BatchesInv, DataTypes
  <2>4. QED BY <2>1, <2>2, <2>3
<1>8. PlacesInv'
  <2>1. \A g \in Flusher : batch'[g] = batch[g] \/ batch'[g] = <<>>
    BY <1>0, <1>2 DEF DataTypes
  <2>2. QED BY <1>0, <1>2, <1>4, <1>5, <2>1, EmptyHasNone DEF PlacesInv
<1>9. QED BY <1>7, <1>8

LEMMA FlushFileStep ==
  ASSUME JournalInv, NEW f \in Flusher, FlushFile(f)
  PROVE  DataTypes' /\ LifeInv' /\ BatchesInv' /\ PlacesInv'
<1>0. DataTypes /\ LifeInv /\ BatchesInv /\ PlacesInv
  BY TypesAreData DEF JournalInv
<1>1. PICK lines \in Remains(pending) :
        /\ Range(pending) \ Range(lines) # {} => faults < MaxFaults
        /\ stored' = stored \o lines /\ flushed' = flushed + Len(lines)
        /\ pending' = IF lines = <<>> THEN pending ELSE <<>>
        /\ lost' = IF lines = <<>> THEN lost ELSE lost \union (Range(pending) \ Range(lines))
        /\ faults' = IF Range(pending) \ Range(lines) = {} THEN faults ELSE faults + 1
  BY DEF FlushFile
<1>2. /\ stopping' = "done" \/ (stopping' = stopping /\ (initialized' <=> initialized))
      /\ UNCHANGED <<backend, task, appended, flush, batch, doubtful>>
  BY DEF FlushFile, Caller, flushVars
<1>3. /\ lines \in Seq(Event) /\ Range(lines) \subseteq Range(pending)
      /\ Len(lines) \in Nat /\ Len(stored) \in Nat
  BY <1>0, RemainsKeeps DEF DataTypes
<1>4. /\ stored' \in Seq(Event) /\ Len(stored') = Len(stored) + Len(lines)
      /\ Range(stored') = Range(stored) \union Range(lines)
  BY <1>0, <1>1, <1>3, ConcatRange DEF DataTypes
<1>5. /\ pending' \in Seq(Event) /\ Range(pending') \subseteq Range(pending)
      /\ lost' \subseteq Event /\ faults' \in 0..MaxFaults
  <2>1. Range(pending) \subseteq Event  BY <1>0 DEF DataTypes, Range
  <2>2. pending' = pending \/ pending' = <<>>  BY <1>1
  <2>3. pending' \in Seq(Event) /\ Range(pending') \subseteq Range(pending)
    <3>1. CASE pending' = pending  BY <1>0, <3>1 DEF DataTypes
    <3>2. CASE pending' = <<>>
      <4>1. <<>> \in Seq(Event)  OBVIOUS
      <4>2. QED BY <3>2, <4>1, EmptyHasNone
    <3>3. QED BY <2>2, <3>1, <3>2
  <2>4. lost' \subseteq Event  BY <1>0, <1>1, <2>1 DEF DataTypes
  <2>5. faults' \in 0..MaxFaults
    <3>1. faults' = faults \/ (faults < MaxFaults /\ faults' = faults + 1)  BY <1>1
    <3>2. QED BY <1>0, <3>1, JournalAssumption DEF DataTypes
  <2>6. QED BY <2>3, <2>4, <2>5
<1>6. DataTypes'
  BY <1>0, <1>1, <1>2, <1>3, <1>4, <1>5 DEF DataTypes
<1>7. LifeInv' /\ BatchesInv'  BY <1>0, <1>2 DEF LifeInv, BatchesInv
<1>8. PlacesInv'  BY <1>0, <1>2, <1>3, <1>4, <1>5 DEF PlacesInv
<1>9. QED BY <1>6, <1>7, <1>8

LEMMA CancelStep ==
  ASSUME JournalInv, FlusherCancelled
  PROVE  DataTypes' /\ LifeInv' /\ BatchesInv' /\ PlacesInv'
<1>0. DataTypes /\ LifeInv /\ BatchesInv /\ PlacesInv
  BY TypesAreData DEF JournalInv
<1>1. /\ "periodic" \in Flusher /\ stopping' = "flushing"
      /\ flush' = [flush EXCEPT !["periodic"] = "cancelled"]
      /\ batch' = [batch EXCEPT !["periodic"] = <<>>]
      /\ lost' = lost \union Range(batch["periodic"])
      /\ stored' = stored \/ stored' = stored \o batch["periodic"]
      /\ UNCHANGED <<initialized, backend, task, appended, pending, flushed, doubtful, faults>>
  BY DEF FlusherCancelled, Flusher, bufferVars
<1>2. stopping = "cancelling"  BY DEF FlusherCancelled
<1>3. /\ batch["periodic"] \in Seq(Event) /\ Range(batch["periodic"]) \subseteq Event
      /\ Len(stored) \in Nat /\ Len(batch["periodic"]) \in Nat
  BY <1>0, <1>1 DEF DataTypes, Range
<1>4. /\ stored' \in Seq(Event) /\ Len(stored) <= Len(stored') /\ Len(stored') \in Nat
      /\ Range(stored') \subseteq Range(stored) \union Range(batch["periodic"])
  <2>0. stored \in Seq(Event)  BY <1>0 DEF DataTypes
  <2>1. CASE stored' = stored
    BY <1>3, <2>0, <2>1
  <2>2. CASE stored' = stored \o batch["periodic"]
    <3>1. /\ stored \o batch["periodic"] \in Seq(Event)
          /\ Len(stored \o batch["periodic"]) = Len(stored) + Len(batch["periodic"])
          /\ Range(stored \o batch["periodic"]) = Range(stored) \union Range(batch["periodic"])
      BY <1>3, <2>0, ConcatRange
    <3>2. QED BY <1>3, <2>2, <3>1
  <2>3. QED BY <1>1, <2>1, <2>2
<1>5. <<>> \in Seq(Event)  OBVIOUS
<1>6. DataTypes'
  BY <1>0, <1>1, <1>3, <1>4, <1>5 DEF DataTypes
<1>7. LifeInv' /\ BatchesInv'
  BY <1>0, <1>1, <1>2, <1>5 DEF LifeInv, BatchesInv, DataTypes
<1>8. PlacesInv'
  <2>1. \A g \in Flusher : batch'[g] = batch[g] \/ batch'[g] = <<>>
    BY <1>0, <1>1 DEF DataTypes
  <2>2. QED BY <1>0, <1>1, <1>4, <2>1, EmptyHasNone DEF PlacesInv
<1>9. QED BY <1>6, <1>7, <1>8

LEMMA JournalStep == JournalInv /\ [Next]_vars => JournalInv'
<1> SUFFICES ASSUME JournalInv, [Next]_vars PROVE JournalInv'  OBVIOUS
<1>1. initialized' \in BOOLEAN /\ held' \in BOOLEAN
  BY TypesAreData, SwitchesStep DEF JournalInv
<1>2. DataTypes' /\ LifeInv' /\ BatchesInv' /\ PlacesInv'
  BY StillOrMoves, StillStep, AcceptStep, TakeStep, WriteDoneStep, WriteFailsStep,
     FlushFileStep, CancelStep
<1>3. TypeOK'
  <2>1. flushed' \in 0..Len(stored')
    <3>1. flushed' \in Nat /\ flushed' <= Len(stored') /\ stored' \in Seq(Event)
      BY <1>2 DEF DataTypes
    <3>2. Len(stored') \in Nat  BY <3>1
    <3>3. QED BY <3>1, <3>2
  <2>2. QED BY <1>1, <1>2, <2>1, Zenon DEF DataTypes, TypeOK
<1>4. QED BY <1>2, <1>3 DEF JournalInv

LEMMA JournalHolds == Init /\ [][Next]_vars => []JournalInv
  BY JournalInit, JournalStep, PTL

\* A replay only reads: what it does to the journal is a flush of query().
LEMMA ReplayIsJournal == ReplaySpec => Init /\ [][Next]_vars
<1>1. ReplayInit => Init  BY DEF ReplayInit
<1>2. [ReplayNext]_<<vars, replayVars>> => [Next]_vars
  <2> SUFFICES ASSUME [ReplayNext]_<<vars, replayVars>> PROVE [Next]_vars  OBVIOUS
  <2>1. CASE UNCHANGED <<vars, replayVars>>  BY <2>1
  <2>2. CASE Journals  BY <2>2 DEF Next
  <2>3. ASSUME NEW q \in Query, ReplayBegins(q) \/ Replays(q) PROVE [Next]_vars
    <3>1. UNCHANGED vars \/ Flushing(q)
      BY <2>3 DEF ReplayBegins, Replays, QueryFlushesNothing, QueryFlushes, PageRead, ReadInPart,
                    ReadFails
    <3>2. QED BY <3>1 DEF Next
  <2>4. QED BY <2>1, <2>2, <2>3 DEF ReplayNext
<1>3. QED BY <1>1, <1>2, PTL DEF ReplaySpec

\* The types hold whatever the flushes, the queries and stop() interleave.
THEOREM JournalTyped == (Spec \/ ReplaySpec) => []TypeOK
<1>1. JournalInv => TypeOK  BY DEF JournalInv
<1>2. QED BY <1>1, JournalHolds, ReplayIsJournal, PTL DEF Spec

-----------------------------------------------------------------------------
(* An accepted event is kept.                                              *)

\* NothingDropped, with the batches spelled out.
Kept ==
  \A e \in Range(appended) :
    \/ e \in Range(pending) \/ e \in Range(stored) \/ e \in lost
    \/ \E f \in Flusher : e \in Range(batch[f])

LEMMA KeptIsNotDropped == Kept <=> NothingDropped
  BY DEF Kept, NothingDropped, InFlight

LEMMA KeptStep ==
  ASSUME JournalInv, Kept, [Next]_vars
  PROVE  Kept'
<1>0. DataTypes /\ BatchesInv
  BY TypesAreData DEF JournalInv
<1>1. CASE Still
  BY <1>1 DEF Still, Kept
<1>2. ASSUME NEW e \in Event, AppendEvent(e) PROVE Kept'
  <2>1. /\ pending' = Append(pending, e) /\ appended' = Append(appended, e)
        /\ UNCHANGED <<batch, stored, lost>>
    BY <1>2 DEF AppendEvent, flushVars, storeVars
  <2>2. /\ Range(appended') = Range(appended) \union {e}
        /\ Range(pending') = Range(pending) \union {e}
    BY <1>0, <2>1, AppendRange DEF DataTypes
  <2>3. QED BY <2>1, <2>2 DEF Kept
<1>3. ASSUME NEW f \in Flusher, Take(f) PROVE Kept'
  <2>1. /\ flush[f] = "idle" /\ batch' = [batch EXCEPT ![f] = pending]
        /\ UNCHANGED <<appended, stored, lost>>
    BY <1>3 DEF Take, MayFlush, storeVars
  <2>2. /\ batch[f] = <<>> /\ batch'[f] = pending
        /\ \A g \in Flusher \ {f} : batch'[g] = batch[g]
    BY <1>0, <2>1 DEF BatchesInv, DataTypes
  <2>3. QED BY <2>1, <2>2, EmptyHasNone DEF Kept
<1>4. ASSUME NEW f \in Flusher, WriteDone(f) PROVE Kept'
  <2>1. /\ stored' = stored \o batch[f] /\ batch' = [batch EXCEPT ![f] = <<>>]
        /\ UNCHANGED <<appended, pending, lost>>
    BY <1>4 DEF WriteDone, bufferVars
  <2>2. Range(stored') = Range(stored) \union Range(batch[f])
    BY <1>0, <2>1, ConcatRange DEF DataTypes
  <2>3. \A g \in Flusher \ {f} : batch'[g] = batch[g]
    BY <1>0, <2>1 DEF DataTypes
  <2>4. QED BY <2>1, <2>2, <2>3 DEF Kept
<1>5. ASSUME NEW f \in Flusher, WriteFails(f) PROVE Kept'
  <2>1. /\ flush[f] = "writing" /\ Requeue(f) /\ UNCHANGED lost
        /\ stored' = stored \/ stored' = stored \o batch[f]
    BY <1>5 DEF WriteFails
  <2>2. Range(stored) \subseteq Range(stored')
    <3>1. Range(stored \o batch[f]) = Range(stored) \union Range(batch[f])
      BY <1>0, ConcatRange DEF DataTypes
    <3>2. QED BY <2>1, <3>1
  <2>3. UNCHANGED appended  BY <2>1, RequeuePuts
  <2>4. CASE pending' = pending \o batch[f] /\ batch' = [batch EXCEPT ![f] = <<>>]
    <3>1. Range(pending') = Range(pending) \union Range(batch[f])
      BY <1>0, <2>4, ConcatRange DEF DataTypes
    <3>2. \A g \in Flusher \ {f} : batch'[g] = batch[g]
      BY <1>0, <2>4 DEF DataTypes
    <3>3. QED BY <2>1, <2>2, <2>3, <3>1, <3>2 DEF Kept
  <2>5. CASE UNCHANGED <<pending, batch>>
    BY <2>1, <2>2, <2>3, <2>5 DEF Kept
  <2>6. QED BY <2>1, <2>4, <2>5, RequeuePuts
<1>6. ASSUME NEW f \in Flusher, FlushFile(f) PROVE Kept'
  <2>1. UNCHANGED <<appended, batch>>  BY <1>6 DEF FlushFile, flushVars
  <2>2. PICK lines \in Remains(pending) :
          /\ stored' = stored \o lines
          /\ pending' = IF lines = <<>> THEN pending ELSE <<>>
          /\ lost' = IF lines = <<>> THEN lost ELSE lost \union (Range(pending) \ Range(lines))
    BY <1>6 DEF FlushFile
  <2>3. lines \in Seq(Event)  BY <1>0, RemainsKeeps DEF DataTypes
  <2>4. Range(stored') = Range(stored) \union Range(lines)
    BY <1>0, <2>2, <2>3, ConcatRange DEF DataTypes
  <2>5. CASE lines = <<>>
    BY <2>1, <2>2, <2>4, <2>5 DEF Kept
  <2>6. CASE lines # <<>>
    <3>1. Range(pending) \subseteq Range(stored') \union lost' /\ lost \subseteq lost'
      BY <2>2, <2>4, <2>6
    <3>2. QED BY <2>1, <2>4, <3>1 DEF Kept
  <2>7. QED BY <2>5, <2>6
<1>7. CASE FlusherCancelled
  <2>1. /\ batch' = [batch EXCEPT !["periodic"] = <<>>]
        /\ lost' = lost \union Range(batch["periodic"])
        /\ stored' = stored \/ stored' = stored \o batch["periodic"]
        /\ UNCHANGED <<appended, pending>>
    BY <1>7 DEF FlusherCancelled, bufferVars
  <2>2. "periodic" \in Flusher  BY DEF Flusher
  <2>3. Range(stored) \subseteq Range(stored')
    <3>1. Range(stored \o batch["periodic"]) = Range(stored) \union Range(batch["periodic"])
      BY <1>0, <2>2, ConcatRange DEF DataTypes
    <3>2. QED BY <2>1, <3>1
  <2>4. \A g \in Flusher \ {"periodic"} : batch'[g] = batch[g]
    BY <1>0, <2>1 DEF DataTypes
  <2>5. QED BY <2>1, <2>2, <2>3, <2>4 DEF Kept
<1>8. QED BY <1>1, <1>2, <1>3, <1>4, <1>5, <1>6, <1>7, StillOrMoves

\* Between append() and the journal an event is always somewhere: a flush
\* that fails puts its batch back, however many flushes are under way.
THEOREM JournalDropsNothing == (Spec \/ ReplaySpec) => []NothingDropped
<1>1. Init => Kept
  <2>1. Init => appended = <<>>  BY DEF Init
  <2>2. QED BY <2>1, EmptyHasNone DEF Kept
<1>2. JournalInv /\ Kept /\ [Next]_vars => Kept'  BY KeptStep
<1>3. QED BY <1>1, <1>2, JournalHolds, ReplayIsJournal, KeptIsNotDropped, PTL DEF Spec

-----------------------------------------------------------------------------
(* An event is in one place only.                                          *)

\* Where an event is: in the buffer, in the journal, or in one batch, once.
OneCopy(e) ==
  /\ Single(pending, e) /\ Single(stored, e)
  /\ ~(e \in Range(pending) /\ e \in Range(stored))
  /\ \A f \in Flusher : Single(batch[f], e)
  /\ \A f \in Flusher : e \in Range(batch[f]) =>
       /\ e \notin Range(pending) /\ e \notin Range(stored)
       /\ \A g \in Flusher : e \in Range(batch[g]) => g = f

Copies == \A e \in Event \ doubtful : OneCopy(e)

LEMMA AcceptKeepsCopies ==
  ASSUME JournalInv, Copies, NEW x \in Event, AppendEvent(x)
  PROVE  Copies'
<1>0. DataTypes /\ PlacesInv  BY TypesAreData DEF JournalInv
<1>1. /\ task[x] = "spawned" /\ pending' = Append(pending, x)
      /\ UNCHANGED <<batch, stored, doubtful>>
  BY DEF AppendEvent, flushVars, storeVars
<1>2. /\ x \notin Range(pending) /\ x \notin Range(stored)
      /\ \A f \in Flusher : x \notin Range(batch[f])
  BY <1>0, <1>1 DEF PlacesInv
<1>3. pending \in Seq(Event) /\ Range(pending') = Range(pending) \union {x}
  BY <1>0, <1>1, AppendRange DEF DataTypes
<1>4. SUFFICES ASSUME NEW e \in Event \ doubtful PROVE OneCopy(e)'
  BY <1>1 DEF Copies
<1>5. OneCopy(e)  BY DEF Copies
<1>6. Single(pending', e)
  BY <1>1, <1>2, <1>3, <1>5, AppendSingle DEF OneCopy
<1>7. QED BY <1>1, <1>2, <1>3, <1>5, <1>6 DEF OneCopy

LEMMA TakeKeepsCopies ==
  ASSUME JournalInv, Copies, NEW f \in Flusher, Take(f)
  PROVE  Copies'
<1>0. DataTypes /\ BatchesInv  BY TypesAreData DEF JournalInv
<1>1. /\ flush[f] = "idle" /\ batch' = [batch EXCEPT ![f] = pending] /\ pending' = <<>>
      /\ UNCHANGED <<stored, doubtful>>
  BY DEF Take, MayFlush, storeVars
<1>2. /\ batch[f] = <<>> /\ batch'[f] = pending
      /\ \A g \in Flusher \ {f} : batch'[g] = batch[g]
  BY <1>0, <1>1 DEF BatchesInv, DataTypes
<1>3. SUFFICES ASSUME NEW e \in Event \ doubtful PROVE OneCopy(e)'
  BY <1>1 DEF Copies
<1>4. OneCopy(e)  BY DEF Copies
<1>5. Range(pending') = {} /\ Single(pending', e)  BY <1>1, EmptyHasNone
<1>6. \A g \in Flusher : Single(batch'[g], e)
  BY <1>2, <1>4 DEF OneCopy
<1>7. \A g, h \in Flusher : e \in Range(batch'[g]) /\ e \in Range(batch'[h]) => g = h
  BY <1>2, <1>4 DEF OneCopy
<1>8. \A g \in Flusher : e \in Range(batch'[g]) => e \notin Range(stored)
  BY <1>2, <1>4 DEF OneCopy
<1>9. QED BY <1>1, <1>4, <1>5, <1>6, <1>7, <1>8 DEF OneCopy

\* A batch of f is moved into the buffer or into the journal.
LEMMA MovedBatch ==
  ASSUME DataTypes, NEW f \in Flusher, NEW e, OneCopy(e),
         batch' = [batch EXCEPT ![f] = <<>>],
         \/ pending' = pending \o batch[f] /\ stored' = stored
         \/ stored' = stored \o batch[f] /\ pending' = pending
         \/ UNCHANGED <<stored, pending>>
  PROVE  OneCopy(e)'
<1>1. /\ pending \in Seq(Event) /\ stored \in Seq(Event) /\ batch[f] \in Seq(Event)
      /\ batch'[f] = <<>> /\ \A g \in Flusher \ {f} : batch'[g] = batch[g]
  BY DEF DataTypes
<1>2. /\ \A g \in Flusher : Single(batch'[g], e)
      /\ \A g \in Flusher : e \in Range(batch'[g]) =>
           /\ g # f /\ e \in Range(batch[g]) /\ e \notin Range(batch[f])
           /\ e \notin Range(pending) /\ e \notin Range(stored)
           /\ \A h \in Flusher : e \in Range(batch'[h]) => h = g
  BY <1>1, EmptyHasNone DEF OneCopy
<1>3. CASE pending' = pending \o batch[f] /\ stored' = stored
  <2>1. Range(pending') = Range(pending) \union Range(batch[f])
    BY <1>1, <1>3, ConcatRange
  <2>2. Single(pending', e)  BY <1>1, <1>3, ConcatSingle DEF OneCopy
  <2>3. QED BY <1>2, <1>3, <2>1, <2>2 DEF OneCopy
<1>4. CASE stored' = stored \o batch[f] /\ pending' = pending
  <2>1. Range(stored') = Range(stored) \union Range(batch[f])
    BY <1>1, <1>4, ConcatRange
  <2>2. Single(stored', e)  BY <1>1, <1>4, ConcatSingle DEF OneCopy
  <2>3. QED BY <1>2, <1>4, <2>1, <2>2 DEF OneCopy
<1>5. CASE UNCHANGED <<stored, pending>>
  BY <1>2, <1>5 DEF OneCopy
<1>6. QED BY <1>3, <1>4, <1>5

LEMMA FailureKeepsCopies ==
  ASSUME JournalInv, Copies, NEW f \in Flusher, WriteFails(f)
  PROVE  Copies'
<1>0. DataTypes  BY TypesAreData DEF JournalInv
<1>1. /\ flush[f] = "writing" /\ Requeue(f)
      /\ \/ UNCHANGED <<stored, doubtful>>
         \/ stored' = stored \o batch[f] /\ doubtful' = doubtful \union Range(batch[f])
  BY DEF WriteFails
<1>2. \/ pending' = pending \o batch[f] /\ batch' = [batch EXCEPT ![f] = <<>>]
      \/ UNCHANGED <<pending, batch>>
  BY <1>1, RequeuePuts
<1>3. SUFFICES ASSUME NEW e \in Event \ doubtful' PROVE OneCopy(e)'
  BY DEF Copies
<1>4. e \in Event \ doubtful /\ OneCopy(e)  BY <1>1 DEF Copies
<1>5. CASE UNCHANGED stored
  <2>1. CASE UNCHANGED <<pending, batch>>
    BY <1>4, <1>5, <2>1 DEF OneCopy
  <2>2. QED BY <1>0, <1>2, <1>4, <1>5, <2>1, MovedBatch
<1>6. CASE stored' = stored \o batch[f] /\ doubtful' = doubtful \union Range(batch[f])
  <2>1. e \notin Range(batch[f])  BY <1>6
  <2>2. /\ pending \in Seq(Event) /\ stored \in Seq(Event) /\ batch[f] \in Seq(Event)
    BY <1>0 DEF DataTypes
  <2>3. Range(stored') = Range(stored) \union Range(batch[f]) /\ Single(stored', e)
    BY <1>4, <1>6, <2>1, <2>2, ConcatRange, ConcatSingle DEF OneCopy
  <2>4. CASE pending' = pending \o batch[f] /\ batch' = [batch EXCEPT ![f] = <<>>]
    <3>1. Range(pending') = Range(pending) \union Range(batch[f]) /\ Single(pending', e)
      BY <1>4, <2>1, <2>2, <2>4, ConcatRange, ConcatSingle DEF OneCopy
    <3>2. batch'[f] = <<>> /\ \A g \in Flusher \ {f} : batch'[g] = batch[g]
      BY <1>0, <2>4 DEF DataTypes
    <3>3. QED BY <1>4, <2>1, <2>3, <3>1, <3>2, EmptyHasNone DEF OneCopy
  <2>5. CASE UNCHANGED <<pending, batch>>
    BY <1>4, <2>1, <2>3, <2>5 DEF OneCopy
  <2>6. QED BY <1>2, <2>4, <2>5
<1>7. QED BY <1>1, <1>5, <1>6

LEMMA FileKeepsCopies ==
  ASSUME JournalInv, Copies, NEW f \in Flusher, FlushFile(f)
  PROVE  Copies'
<1>0. DataTypes  BY TypesAreData DEF JournalInv
<1>1. PICK lines \in Remains(pending) :
        /\ stored' = stored \o lines
        /\ pending' = IF lines = <<>> THEN pending ELSE <<>>
  BY DEF FlushFile
<1>2. UNCHANGED <<batch, doubtful>>  BY DEF FlushFile, flushVars
<1>3. SUFFICES ASSUME NEW e \in Event \ doubtful PROVE OneCopy(e)'
  BY <1>2 DEF Copies
<1>4. OneCopy(e)  BY DEF Copies
<1>5. /\ pending \in Seq(Event) /\ stored \in Seq(Event) /\ lines \in Seq(Event)
      /\ Range(lines) \subseteq Range(pending) /\ Single(lines, e)
  BY <1>0, <1>4, RemainsKeeps DEF DataTypes, OneCopy
<1>6. Range(stored') = Range(stored) \union Range(lines) /\ Single(stored', e)
  <2>1. ~(e \in Range(stored) /\ e \in Range(lines))  BY <1>4, <1>5 DEF OneCopy
  <2>2. Single(stored, e)  BY <1>4 DEF OneCopy
  <2>3. QED BY <1>1, <1>5, <2>1, <2>2, ConcatRange, ConcatSingle
<1>7. CASE lines = <<>>
  <2>1. Range(lines) = {} /\ pending' = pending  BY <1>1, <1>7, EmptyHasNone
  <2>2. QED BY <1>2, <1>4, <1>6, <2>1 DEF OneCopy
<1>8. CASE lines # <<>>
  <2>1. pending' = <<>>  BY <1>1, <1>8
  <2>2. Range(pending') = {} /\ Single(pending', e)  BY <2>1, EmptyHasNone
  <2>3. QED BY <1>2, <1>4, <1>5, <1>6, <2>2 DEF OneCopy
<1>9. QED BY <1>7, <1>8

LEMMA CopiesStep ==
  ASSUME JournalInv, Copies, [Next]_vars
  PROVE  Copies'
<1>0. DataTypes  BY TypesAreData DEF JournalInv
<1>1. CASE Still
  BY <1>1 DEF Still, Copies, OneCopy
<1>2. ASSUME NEW f \in Flusher, WriteDone(f) PROVE Copies'
  <2>1. /\ batch' = [batch EXCEPT ![f] = <<>>] /\ stored' = stored \o batch[f]
        /\ UNCHANGED <<pending, doubtful>>
    BY <1>2 DEF WriteDone, bufferVars
  <2>2. QED BY <1>0, <2>1, MovedBatch DEF Copies
<1>3. CASE FlusherCancelled
  <2>1. /\ "periodic" \in Flusher /\ batch' = [batch EXCEPT !["periodic"] = <<>>]
        /\ stored' = stored \/ stored' = stored \o batch["periodic"]
        /\ UNCHANGED <<pending, doubtful>>
    BY <1>3 DEF FlusherCancelled, Flusher, bufferVars
  <2>2. QED BY <1>0, <2>1, MovedBatch DEF Copies
<1>4. QED BY <1>1, <1>2, <1>3, StillOrMoves, AcceptKeepsCopies, TakeKeepsCopies,
             FailureKeepsCopies, FileKeepsCopies

LEMMA OneIsCounted ==
  ASSUME NEW S, NEW s \in Seq(S), NEW e, Single(s, e)
  PROVE  Count(e, s) = IF e \in Range(s) THEN 1 ELSE 0
<1>1. CASE e \notin Range(s)
  <2>1. {i \in DOMAIN s : s[i] = e} = {}  BY <1>1 DEF Range
  <2>2. QED BY <1>1, <2>1, FS_EmptySet DEF Count
<1>2. CASE e \in Range(s)
  <2>1. PICK k \in DOMAIN s : s[k] = e  BY <1>2 DEF Range
  <2>2. {i \in DOMAIN s : s[i] = e} = {k}  BY <2>1 DEF Single
  <2>3. QED BY <1>2, <2>2, FS_Singleton DEF Count
<1>3. QED BY <1>1, <1>2

LEMMA CopiesAreCounted == TypeOK /\ Copies => WrittenOnce
<1>1. SUFFICES ASSUME TypeOK, Copies, NEW e \in Event \ doubtful
               PROVE  Count(e, pending) + Cardinality(InFlight(e)) + Count(e, stored) <= 1
  BY DEF WrittenOnce
<1>2. OneCopy(e)  BY <1>1 DEF Copies
<1>3. pending \in Seq(Event) /\ stored \in Seq(Event)  BY <1>1 DEF TypeOK
<1>4. /\ Count(e, pending) = IF e \in Range(pending) THEN 1 ELSE 0
      /\ Count(e, stored) = IF e \in Range(stored) THEN 1 ELSE 0
  BY <1>2, <1>3, OneIsCounted DEF OneCopy
<1>5. CASE InFlight(e) = {}
  <2>1. Cardinality(InFlight(e)) = 0  BY <1>5, FS_EmptySet
  <2>2. QED BY <1>2, <1>4, <2>1 DEF OneCopy
<1>6. CASE InFlight(e) # {}
  <2>1. PICK f \in Flusher : e \in Range(batch[f])  BY <1>6 DEF InFlight
  <2>2. InFlight(e) = {f}  BY <1>2, <2>1 DEF InFlight, OneCopy
  <2>3. Cardinality(InFlight(e)) = 1  BY <2>2, FS_Singleton
  <2>4. QED BY <1>2, <1>4, <2>1, <2>3 DEF OneCopy
<1>7. QED BY <1>5, <1>6

\* Flushes of the timer, of queries and of stop() hand the buffer from one to
\* the next: only an insert that failed after it was applied is repeated.
THEOREM JournalWritesOnce == (Spec \/ ReplaySpec) => []WrittenOnce
<1>1. Init => Copies
  <2>1. Init => /\ pending = <<>> /\ stored = <<>>
                /\ \A f \in Flusher : batch[f] = <<>>
    BY DEF Init
  <2>2. QED BY <2>1, EmptyHasNone DEF Copies, OneCopy
<1>2. JournalInv /\ Copies /\ [Next]_vars => Copies'  BY CopiesStep
<1>3. JournalInv => TypeOK  BY DEF JournalInv
<1>4. QED
  BY <1>1, <1>2, <1>3, JournalHolds, ReplayIsJournal, CopiesAreCounted, PTL DEF Spec

-----------------------------------------------------------------------------
(* The file is written in order.                                           *)

\* The elements of s stand in s in the order in which they stand in a.
InOrderOf(s, a) ==
  \A i, j \in DOMAIN s : i < j =>
    \E m, n \in DOMAIN a : m < n /\ a[m] = s[i] /\ a[n] = s[j]

LEMMA OrderOfAppend ==
  ASSUME NEW S, NEW s \in Seq(S), NEW a \in Seq(S), NEW x \in S,
         Range(s) \subseteq Range(a), InOrderOf(s, a)
  PROVE  InOrderOf(s, Append(a, x)) /\ InOrderOf(Append(s, x), Append(a, x))
<1>1. /\ DOMAIN a = 1..Len(a) /\ DOMAIN Append(a, x) = 1..(Len(a) + 1)
      /\ DOMAIN s = 1..Len(s) /\ DOMAIN Append(s, x) = 1..(Len(s) + 1)
      /\ \A k \in 1..Len(a) : Append(a, x)[k] = a[k]
      /\ \A k \in 1..Len(s) : Append(s, x)[k] = s[k]
      /\ Append(a, x)[Len(a) + 1] = x /\ Append(s, x)[Len(s) + 1] = x
      /\ Len(a) \in Nat /\ Len(s) \in Nat
  OBVIOUS
<1>2. ASSUME NEW i \in DOMAIN s, NEW j \in DOMAIN s, i < j
      PROVE  \E m, n \in DOMAIN Append(a, x) :
               m < n /\ Append(a, x)[m] = s[i] /\ Append(a, x)[n] = s[j]
  <2>1. PICK m \in DOMAIN a, n \in DOMAIN a : m < n /\ a[m] = s[i] /\ a[n] = s[j]
    BY <1>2 DEF InOrderOf
  <2>2. /\ m \in DOMAIN Append(a, x) /\ n \in DOMAIN Append(a, x)
        /\ Append(a, x)[m] = s[i] /\ Append(a, x)[n] = s[j]
    BY <1>1, <2>1
  <2>3. QED BY <2>1, <2>2
<1>3. InOrderOf(s, Append(a, x))  BY <1>2 DEF InOrderOf
<1>4. ASSUME NEW i \in DOMAIN Append(s, x), NEW j \in DOMAIN Append(s, x), i < j
      PROVE  \E m, n \in DOMAIN Append(a, x) :
               m < n /\ Append(a, x)[m] = Append(s, x)[i] /\ Append(a, x)[n] = Append(s, x)[j]
  <2>0. i \in DOMAIN s /\ (j \in DOMAIN s \/ j = Len(s) + 1)  BY <1>1, <1>4
  <2>1. CASE j \in DOMAIN s
    <3>1. Append(s, x)[i] = s[i] /\ Append(s, x)[j] = s[j]  BY <1>1, <2>0, <2>1
    <3>2. QED BY <1>2, <1>4, <2>0, <2>1, <3>1
  <2>2. CASE j = Len(s) + 1
    <3>1. i \in DOMAIN s /\ Append(s, x)[i] = s[i] /\ Append(s, x)[j] = x
      BY <1>1, <2>0, <2>2
    <3>2. PICK m \in DOMAIN a : a[m] = s[i]  BY <3>1 DEF Range
    <3>3. /\ m \in DOMAIN Append(a, x) /\ Len(a) + 1 \in DOMAIN Append(a, x) /\ m < Len(a) + 1
          /\ Append(a, x)[m] = s[i] /\ Append(a, x)[Len(a) + 1] = x
      BY <1>1, <3>2
    <3>4. QED BY <3>1, <3>3
  <2>3. QED BY <2>0, <2>1, <2>2
<1>5. InOrderOf(Append(s, x), Append(a, x))  BY <1>4 DEF InOrderOf
<1>6. QED BY <1>3, <1>5

\* What is left of t behind s is in the order of s followed by t.
LEMMA OrderOfRemains ==
  ASSUME NEW S, NEW s \in Seq(S), NEW t \in Seq(S), NEW a \in Seq(S), NEW r \in Remains(t),
         InOrderOf(s \o t, a)
  PROVE  InOrderOf(s \o r, a)
<1>1. /\ r \in Seq(S)
      /\ \E pick \in [1..Len(r) -> DOMAIN t] :
           /\ \A i, j \in 1..Len(r) : i < j => pick[i] < pick[j]
           /\ \A i \in 1..Len(r) : r[i] = t[pick[i]]
  BY RemainsKeeps
<1>2. PICK pick \in [1..Len(r) -> DOMAIN t] :
        /\ \A i, j \in 1..Len(r) : i < j => pick[i] < pick[j]
        /\ \A i \in 1..Len(r) : r[i] = t[pick[i]]
  BY <1>1
<1>3. /\ Len(s) \in Nat /\ Len(t) \in Nat /\ Len(r) \in Nat
      /\ DOMAIN t = 1..Len(t)
      /\ DOMAIN (s \o t) = 1..(Len(s) + Len(t)) /\ DOMAIN (s \o r) = 1..(Len(s) + Len(r))
  BY <1>1
<1> DEFINE at(k) == IF k <= Len(s) THEN k ELSE Len(s) + pick[k - Len(s)]
<1>4. ASSUME NEW k \in 1..(Len(s) + Len(r))
      PROVE  at(k) \in 1..(Len(s) + Len(t)) /\ (s \o r)[k] = (s \o t)[at(k)]
  <2>1. CASE k <= Len(s)
    <3>1. at(k) = k /\ k \in 1..Len(s)  BY <1>3, <2>1
    <3>2. (s \o r)[k] = s[k] /\ (s \o t)[k] = s[k]  BY <1>1, <3>1
    <3>3. QED BY <1>3, <3>1, <3>2
  <2>2. CASE k > Len(s)
    <3>1. k - Len(s) \in 1..Len(r)  BY <1>3, <2>2
    <3>2. pick[k - Len(s)] \in 1..Len(t) /\ r[k - Len(s)] = t[pick[k - Len(s)]]
      BY <1>2, <1>3, <3>1
    <3>3. (s \o r)[k] = r[k - Len(s)]  BY <1>1, <1>3, <2>2
    <3>4. at(k) = Len(s) + pick[k - Len(s)]  BY <1>3, <2>2
    <3>5. /\ at(k) \in 1..(Len(s) + Len(t)) /\ at(k) > Len(s)
          /\ at(k) - Len(s) = pick[k - Len(s)]
      BY <1>3, <3>2, <3>4
    <3>6. (s \o t)[at(k)] = t[at(k) - Len(s)]  BY <1>3, <3>5
    <3>7. QED BY <3>2, <3>3, <3>5, <3>6
  <2>3. QED BY <1>3, <2>1, <2>2
<1>5. ASSUME NEW i \in 1..(Len(s) + Len(r)), NEW j \in 1..(Len(s) + Len(r)), i < j
      PROVE  at(i) < at(j)
  <2>1. CASE j <= Len(s)
    BY <1>3, <1>5, <2>1
  <2>2. CASE i <= Len(s) /\ j > Len(s)
    <3>0. j - Len(s) \in 1..Len(r)  BY <1>3, <2>2
    <3>1. pick[j - Len(s)] \in 1..Len(t)  BY <1>2, <1>3, <3>0
    <3>2. at(i) = i /\ at(j) = Len(s) + pick[j - Len(s)]  BY <1>3, <2>2
    <3>3. QED BY <1>3, <2>2, <3>1, <3>2
  <2>3. CASE i > Len(s)
    <3>1. i - Len(s) \in 1..Len(r) /\ j - Len(s) \in 1..Len(r) /\ i - Len(s) < j - Len(s)
      BY <1>3, <1>5, <2>3
    <3>2. /\ pick[i - Len(s)] \in 1..Len(t) /\ pick[j - Len(s)] \in 1..Len(t)
          /\ pick[i - Len(s)] < pick[j - Len(s)]
      BY <1>2, <1>3, <3>1
    <3>3. at(i) = Len(s) + pick[i - Len(s)] /\ at(j) = Len(s) + pick[j - Len(s)]
      BY <1>3, <1>5, <2>3
    <3>4. QED BY <1>3, <3>2, <3>3
  <2>4. QED BY <1>3, <1>5, <2>1, <2>2, <2>3
<1>6. ASSUME NEW i \in DOMAIN (s \o r), NEW j \in DOMAIN (s \o r), i < j
      PROVE  \E m, n \in DOMAIN a : m < n /\ a[m] = (s \o r)[i] /\ a[n] = (s \o r)[j]
  <2>1. /\ at(i) \in DOMAIN (s \o t) /\ at(j) \in DOMAIN (s \o t) /\ at(i) < at(j)
        /\ (s \o r)[i] = (s \o t)[at(i)] /\ (s \o r)[j] = (s \o t)[at(j)]
    BY <1>3, <1>4, <1>5, <1>6
  <2>2. PICK m \in DOMAIN a, n \in DOMAIN a :
          m < n /\ a[m] = (s \o t)[at(i)] /\ a[n] = (s \o t)[at(j)]
    <3>1. InOrderOf(s \o t, a)  OBVIOUS
    <3> HIDE DEF at
    <3>2. QED BY <2>1, <3>1 DEF InOrderOf
  <2>3. QED BY <2>1, <2>2
<1>7. QED BY <1>6 DEF InOrderOf

\* Before there is a backend nothing is accepted; with the file as backend
\* what is buffered stands behind what is written.
Ordered ==
  /\ backend = "none" => ~initialized /\ pending = <<>> /\ stored = <<>>
  /\ backend = "file" => InOrderOf(stored \o pending, appended)

LEMMA OrderedStep ==
  ASSUME JournalInv, Ordered, [Next]_vars
  PROVE  Ordered'
<1>0. DataTypes /\ LifeInv /\ BatchesInv /\ PlacesInv
  BY TypesAreData DEF JournalInv
<1>1. /\ pending \in Seq(Event) /\ stored \in Seq(Event) /\ appended \in Seq(Event)
      /\ stored \o pending \in Seq(Event)
      /\ Range(stored \o pending) = Range(stored) \union Range(pending)
  BY <1>0, ConcatRange DEF DataTypes
<1>2. \A f \in Flusher : flush[f] \in {"writing", "requeue"} => backend = "clickhouse"
  BY <1>0 DEF BatchesInv
<1>3. CASE Initialize
  <2>1. /\ backend = "none" /\ backend' \in {"clickhouse", "file"}
        /\ UNCHANGED <<appended, pending, stored>>
    BY <1>0, <1>3 DEF Initialize, LifeInv, bufferVars, storeVars
  <2>2. stored' \o pending' = <<>>  BY <2>1 DEF Ordered
  <2>3. InOrderOf(stored' \o pending', appended')  BY <2>2 DEF InOrderOf
  <2>4. QED BY <2>1, <2>3 DEF Ordered
<1>4. CASE UNCHANGED <<backend, pending, stored, appended>> /\ (initialized' => initialized)
  BY <1>4 DEF Ordered
<1>5. CASE UNCHANGED vars \/ StopEmpty \/ Stop
  <2>1. UNCHANGED <<backend, pending, stored, appended>> /\ (initialized' => initialized)
    BY <1>5 DEF StopEmpty, Stop, Caller, vars, taskVars, bufferVars, storeVars
  <2>2. QED BY <1>4, <2>1
<1>6. ASSUME NEW e \in Event, Publish(e) \/ AppendRefused(e) PROVE Ordered'
  <2>1. UNCHANGED <<backend, pending, stored, appended>> /\ (initialized' => initialized)
    BY <1>6 DEF Publish, AppendRefused, bufferVars, storeVars
  <2>2. QED BY <1>4, <2>1
<1>7. ASSUME NEW e \in Event, AppendEvent(e) PROVE Ordered'
  <2>1. /\ initialized /\ pending' = Append(pending, e) /\ appended' = Append(appended, e)
        /\ UNCHANGED <<backend, stored>>
    BY <1>7 DEF AppendEvent, storeVars
  <2>2. backend' # "none"  BY <2>1 DEF Ordered
  <2>3. ASSUME backend = "file" PROVE InOrderOf(stored' \o pending', appended')
    <3>1. InOrderOf(stored \o pending, appended)  BY <2>3 DEF Ordered
    <3>2. Range(stored \o pending) \subseteq Range(appended)  BY <1>0, <1>1 DEF PlacesInv
    <3>3. InOrderOf(Append(stored \o pending, e), Append(appended, e))
      BY <1>1, <3>1, <3>2, OrderOfAppend
    <3>4. Append(stored \o pending, e) = stored \o Append(pending, e)  BY <1>1
    <3>5. QED BY <2>1, <3>3, <3>4
  <2>4. QED BY <2>1, <2>2, <2>3 DEF Ordered
<1>8. ASSUME NEW f \in Flusher, Take(f) \/ WriteDone(f) \/ WriteFails(f) PROVE Ordered'
  <2>1. backend = "clickhouse"
    BY <1>2, <1>8 DEF Take, WriteDone, WriteFails
  <2>2. backend' = backend
    BY <1>8 DEF Take, WriteDone, WriteFails, Requeue, taskVars
  <2>3. QED BY <2>1, <2>2 DEF Ordered
<1>9. ASSUME NEW f \in Flusher, FlushFile(f) PROVE Ordered'
  <2>1. backend = "file" /\ UNCHANGED <<backend, appended>>
    BY <1>9 DEF FlushFile
  <2>2. PICK lines \in Remains(pending) :
          stored' = stored \o lines /\ pending' = IF lines = <<>> THEN pending ELSE <<>>
    BY <1>9 DEF FlushFile
  <2>3. InOrderOf(stored \o pending, appended)  BY <2>1 DEF Ordered
  <2>4. InOrderOf(stored' \o pending', appended)
    <3>1. CASE lines = <<>>
      <4>1. stored' = stored  BY <1>1, <2>2, <3>1
      <4>2. QED BY <2>2, <2>3, <3>1, <4>1
    <3>2. CASE lines # <<>>
      <4>1. lines \in Seq(Event)  BY <1>1, RemainsKeeps
      <4>2. stored' \o pending' = stored \o lines  BY <1>1, <2>2, <3>2, <4>1
      <4>3. InOrderOf(stored \o lines, appended)  BY <1>1, <2>3, OrderOfRemains
      <4>4. QED BY <4>2, <4>3
    <3>3. QED BY <3>1, <3>2
  <2>5. QED BY <2>1, <2>4 DEF Ordered
<1>10. CASE FlusherCancelled
  <2>1. /\ UNCHANGED <<initialized, backend, appended, pending>>
        /\ stored' = stored \/ flush["periodic"] = "writing"
    BY <1>10 DEF FlusherCancelled, bufferVars
  <2>2. CASE stored' = stored
    BY <1>4, <2>1, <2>2
  <2>3. CASE flush["periodic"] = "writing"
    <3>1. backend = "clickhouse"  BY <1>2, <2>3 DEF Flusher
    <3>2. QED BY <2>1, <3>1 DEF Ordered
  <2>4. QED BY <2>1, <2>2, <2>3
<1>11. QED BY <1>3, <1>5, <1>6, <1>7, <1>8, <1>9, <1>10, StepsOfJournal

\* The buffer is behind the file, so the file itself is in order.
LEMMA OrderedIsFileInOrder == TypeOK /\ Ordered => FileInOrder
<1>1. SUFFICES ASSUME TypeOK, Ordered, backend = "file",
                      NEW i \in DOMAIN stored, NEW j \in DOMAIN stored, i < j
               PROVE  \E m, n \in DOMAIN appended :
                        m < n /\ appended[m] = stored[i] /\ appended[n] = stored[j]
  BY DEF FileInOrder
<1>2. stored \in Seq(Event) /\ pending \in Seq(Event)  BY <1>1 DEF TypeOK
<1>3. /\ i \in DOMAIN (stored \o pending) /\ j \in DOMAIN (stored \o pending)
      /\ (stored \o pending)[i] = stored[i] /\ (stored \o pending)[j] = stored[j]
  BY <1>2
<1>4. InOrderOf(stored \o pending, appended)  BY <1>1 DEF Ordered
<1>5. PICK m \in DOMAIN appended, n \in DOMAIN appended :
        /\ m < n /\ appended[m] = (stored \o pending)[i]
        /\ appended[n] = (stored \o pending)[j]
  BY <1>1, <1>3, <1>4 DEF InOrderOf
<1>6. QED BY <1>3, <1>5

\* Lines that fail leave gaps in the file of a day, but never change its
\* order: a batch is put back only when none of it was written.
THEOREM JournalFileInOrder == (Spec \/ ReplaySpec) => []FileInOrder
<1>1. Init => Ordered
  <2>1. Init => /\ pending = <<>> /\ stored = <<>> /\ backend = "none" /\ ~initialized
    BY DEF Init
  <2>2. QED BY <2>1 DEF Ordered
<1>2. JournalInv /\ Ordered /\ [Next]_vars => Ordered'  BY OrderedStep
<1>3. JournalInv => TypeOK  BY DEF JournalInv
<1>4. QED
  BY <1>1, <1>2, <1>3, JournalHolds, ReplayIsJournal, OrderedIsFileInOrder, PTL DEF Spec

-----------------------------------------------------------------------------
(* A full buffer.                                                          *)

LEMMA FrozenStep ==
  ASSUME JournalInv, held, [Next]_vars
  PROVE  held' /\ pending' = pending
<1>0. held = TRUE  BY TypesAreData DEF JournalInv
<1>1. CASE UNCHANGED vars \/ Initialize \/ Stop \/ FlusherCancelled
  BY <1>0, <1>1 DEF vars, bufferVars, Initialize, Stop, FlusherCancelled
<1>2. ASSUME NEW e \in Event, Publish(e) \/ AppendRefused(e) \/ AppendEvent(e)
      PROVE  held' /\ pending' = pending
  BY <1>0, <1>2 DEF Publish, AppendRefused, AppendEvent, bufferVars
<1>3. CASE StopEmpty
  BY <1>0, <1>3 DEF StopEmpty, MayFlush
<1>4. ASSUME NEW f \in Flusher, Take(f) \/ WriteDone(f) \/ WriteFails(f) \/ FlushFile(f)
      PROVE  held' /\ pending' = pending
  BY <1>0, <1>4 DEF Take, WriteDone, WriteFails, FlushFile, MayFlush, Requeue, bufferVars
<1>5. QED BY <1>1, <1>2, <1>3, <1>4, StepsOfJournal

\* append() asks again for the lock it holds when the buffer is full: from
\* then on nothing leaves the buffer and nothing enters it.
THEOREM JournalFreezes == (Spec \/ ReplaySpec) => FullBufferIsFrozen
<1>1. JournalInv /\ [Next]_vars => [held => held' /\ pending' = pending]_vars
  BY FrozenStep
<1>2. QED BY <1>1, JournalHolds, ReplayIsJournal, PTL DEF Spec, FullBufferIsFrozen

-----------------------------------------------------------------------------
(* What a page of a replay holds.                                          *)

LEMMA LeastNumber ==
  ASSUME NEW W \in SUBSET Nat, W # {}
  PROVE  \E n \in W : \A m \in W : n <= m
<1>1. PICK n \in W : \A m \in W : ~ (<<m, n>> \in OpToRel(<, Nat))
  BY NatLessThanWellFounded, WFMin
<1>2. \A m \in W : ~ (m < n)  BY <1>1 DEF OpToRel
<1>3. QED BY <1>2

\* In a strict order some element of a finite set has none before it: one with the
\* fewest before it.
LEMMA SomeIsFirst ==
  ASSUME NEW S, IsFiniteSet(S), S # {}, NEW R,
         \A i \in S : <<i, i>> \notin R,
         \A i, j, k \in S : <<i, j>> \in R /\ <<j, k>> \in R => <<i, k>> \in R
  PROVE  \E m \in S : \A i \in S : <<i, m>> \notin R
<1> DEFINE Before(i) == {j \in S : <<j, i>> \in R}
           Number(i) == Cardinality(Before(i))
           W == {Number(i) : i \in S}
<1>1. \A i \in S : IsFiniteSet(Before(i)) /\ Cardinality(Before(i)) \in Nat
  BY FS_Subset, FS_CardinalityType
<1>2. PICK n \in W : \A m \in W : n <= m
  <2> HIDE DEF Before
  <2>1. \A i \in S : Number(i) \in Nat  BY <1>1
  <2> HIDE DEF Number
  <2>2. W \in SUBSET Nat /\ W # {}  BY <2>1
  <2> HIDE DEF W
  <2>3. QED BY <2>2, LeastNumber
<1>3. PICK m \in S : n = Number(m) /\ \A i \in S : n <= Number(i)
  <2> HIDE DEF Number
  <2>1. QED BY <1>2
<1>4. ASSUME NEW i \in S, <<i, m>> \in R PROVE FALSE
  <2>1. Before(i) \in SUBSET Before(m)  BY <1>4
  <2>2. i \in Before(m) /\ i \notin Before(i)  BY <1>4
  <2>3. Cardinality(Before(i)) # Cardinality(Before(m))
    BY <1>1, <2>1, <2>2, FS_Subset
  <2>4. Cardinality(Before(i)) <= Cardinality(Before(m))
    BY <1>1, <2>1, FS_Subset
  <2>5. n <= Cardinality(Before(i)) /\ n = Cardinality(Before(m))  BY <1>3
  <2> HIDE DEF Before
  <2>6. QED BY <1>1, <1>3, <2>3, <2>4, <2>5
<1>5. QED BY <1>4

LEMMA DayOfEvent ==
  ASSUME NEW e \in Event
  PROVE  /\ Stamp[e] \in Nat /\ Midnight(e) \in Int
         /\ Midnight(e) <= Stamp[e] /\ Stamp[e] < Midnight(e) + DayLength
<1>1. Stamp[e] \in Nat /\ DayLength \in Nat \ {0}  BY ReplayAssumption
<1>2. (Stamp[e] % DayLength) \in 0..(DayLength - 1)  BY <1>1
<1>3. QED BY <1>1, <1>2 DEF Midnight

LEMMA ReadInOrder ==
  ASSUME stored \in Seq(Event)
  PROVE  /\ \A i \in DOMAIN stored : ~Precedes(i, i)
         /\ \A i, j, k \in DOMAIN stored : Precedes(i, j) /\ Precedes(j, k) => Precedes(i, k)
         /\ \A i, j \in DOMAIN stored : i = j \/ Precedes(i, j) \/ Precedes(j, i)
<1> DEFINE Day(i) == Midnight(stored[i])
<1>1. DOMAIN stored = 1..Len(stored) /\ \A i \in DOMAIN stored : i \in Nat /\ Place[stored[i]] \in Nat
  BY ReplayAssumption
<1>2. \A i \in DOMAIN stored : Day(i) \in Int  BY DayOfEvent
<1>3. \A i, j \in DOMAIN stored :
        Precedes(i, j) <=>
          IF backend = "clickhouse"
          THEN Place[stored[i]] < Place[stored[j]] \/ (Place[stored[i]] = Place[stored[j]] /\ i < j)
          ELSE Day(i) < Day(j) \/ (Day(i) = Day(j) /\ i < j)
  BY DEF Precedes
<1> HIDE DEF Day
<1>4. CASE backend = "clickhouse"  BY <1>1, <1>3, <1>4
<1>5. CASE backend # "clickhouse"
  <2>1. \A i, j \in DOMAIN stored :
          Precedes(i, j) <=> (Day(i) < Day(j) \/ (Day(i) = Day(j) /\ i < j))
    BY <1>3, <1>5
  <2>2. \A i \in DOMAIN stored : i \in Nat  BY <1>1
  <2>3. \A i, j \in DOMAIN stored : i = j \/ Precedes(i, j) \/ Precedes(j, i)
    BY <1>2, <2>1, <2>2
  <2>4. \A i \in DOMAIN stored : ~Precedes(i, i)  BY <1>2, <2>1, <2>2
  <2>5. ASSUME NEW i \in DOMAIN stored, NEW j \in DOMAIN stored, NEW k \in DOMAIN stored,
               Precedes(i, j), Precedes(j, k)
        PROVE  Precedes(i, k)
    <3>1. Day(i) \in Int /\ Day(j) \in Int /\ Day(k) \in Int  BY <1>2
    <3>2. i \in Nat /\ j \in Nat /\ k \in Nat  BY <2>2
    <3>3. /\ Day(i) < Day(j) \/ (Day(i) = Day(j) /\ i < j)
          /\ Day(j) < Day(k) \/ (Day(j) = Day(k) /\ j < k)
      BY <2>1, <2>5
    <3>4. Day(i) < Day(k) \/ (Day(i) = Day(k) /\ i < k)  BY <3>1, <3>2, <3>3
    <3>5. QED BY <2>1, <3>4
  <2>6. QED BY <2>3, <2>4, <2>5
<1>6. QED BY <1>4, <1>5

LEMMA LastIsLast ==
  ASSUME stored \in Seq(Event), NEW page \in SUBSET DOMAIN stored, page # {}
  PROVE  Last(page) \in page /\ \A j \in page : ~Precedes(Last(page), j)
<1> DEFINE R == {x \in page \X page : Precedes(x[2], x[1])}
<1>1. IsFiniteSet(page)
  <2>1. DOMAIN stored = 1..Len(stored) /\ Len(stored) \in Nat  OBVIOUS
  <2>2. IsFiniteSet(DOMAIN stored)  BY <2>1, FS_Interval
  <2>3. QED BY <2>2, FS_Subset
<1>2. /\ \A i \in page : <<i, i>> \notin R
      /\ \A i, j, k \in page : <<i, j>> \in R /\ <<j, k>> \in R => <<i, k>> \in R
      /\ \A i, j \in page : <<i, j>> \in R <=> Precedes(j, i)
  <2>1. /\ \A i \in page : ~Precedes(i, i)
        /\ \A i, j, k \in page : Precedes(i, j) /\ Precedes(j, k) => Precedes(i, k)
    BY ReadInOrder
  <2>2. QED BY <2>1
<1> HIDE DEF R
<1>3. \E m \in page : \A i \in page : <<i, m>> \notin R
  BY <1>1, <1>2, SomeIsFirst
<1>4. \E m \in page : \A i \in page : ~Precedes(m, i)  BY <1>2, <1>3
<1>5. QED BY <1>4 DEF Last

\* The first of some rows are not none when there are any, and the others come after
\* the last of them.
LEMMA FirstComeFirst ==
  ASSUME stored \in Seq(Event), NEW H \in SUBSET DOMAIN stored
  PROVE  /\ FirstOf(H) \subseteq H
         /\ FirstOf(H) = {} => H = {}
         /\ FirstOf(H) # {} =>
              /\ Last(FirstOf(H)) \in FirstOf(H)
              /\ \A k \in H \ FirstOf(H) : Precedes(Last(FirstOf(H)), k)
<1> DEFINE P == FirstOf(H)
           Before(i) == {j \in H : Precedes(j, i)}
<1>1. P = {i \in H : Cardinality(Before(i)) < Limit}
  BY DEF FirstOf
<1>2. /\ \A i \in H : ~Precedes(i, i)
      /\ \A i, j, k \in H : Precedes(i, j) /\ Precedes(j, k) => Precedes(i, k)
      /\ \A i, j \in H : i = j \/ Precedes(i, j) \/ Precedes(j, i)
  BY ReadInOrder
<1>3. IsFiniteSet(H)
  <2>1. DOMAIN stored = 1..Len(stored) /\ Len(stored) \in Nat  OBVIOUS
  <2>2. IsFiniteSet(DOMAIN stored)  BY <2>1, FS_Interval
  <2>3. QED BY <2>2, FS_Subset
<1>4. \A i \in H : IsFiniteSet(Before(i)) /\ Cardinality(Before(i)) \in Nat
  BY <1>3, FS_Subset, FS_CardinalityType
<1>5. P \in SUBSET DOMAIN stored /\ P \subseteq H  BY <1>1
<1> HIDE DEF P
<1>6. ASSUME H # {} PROVE P # {}
  <2> DEFINE R == {x \in H \X H : Precedes(x[1], x[2])}
  <2>1. /\ \A i \in H : <<i, i>> \notin R
        /\ \A i, j, k \in H : <<i, j>> \in R /\ <<j, k>> \in R => <<i, k>> \in R
        /\ \A i, j \in H : <<i, j>> \in R <=> Precedes(i, j)
    BY <1>2
  <2> HIDE DEF R
  <2>2. PICK m \in H : \A i \in H : <<i, m>> \notin R
    BY <1>3, <1>6, <2>1, SomeIsFirst
  <2>3. Before(m) = {}  BY <2>1, <2>2
  <2>4. Cardinality(Before(m)) = 0  BY <2>3, FS_EmptySet
  <2>5. QED BY <1>1, <2>4, ReplayAssumption
<1>7. ASSUME P # {} PROVE Last(P) \in P
  BY <1>5, <1>7, LastIsLast
<1>8. ASSUME P # {}, NEW k \in H \ P PROVE Precedes(Last(P), k)
  <2> DEFINE l == Last(P)
  <2>1. l \in H /\ l \in P /\ l # k /\ Cardinality(Before(l)) < Limit
    BY <1>1, <1>7, <1>8
  <2>2. ~(Cardinality(Before(k)) < Limit)  BY <1>1, <1>8
  <2>3. ASSUME Precedes(k, l) PROVE FALSE
    <3>1. Before(k) \in SUBSET Before(l)  BY <1>2, <1>8, <2>1, <2>3
    <3>2. Cardinality(Before(k)) <= Cardinality(Before(l))
      BY <1>4, <2>1, <3>1, FS_Subset
    <3> HIDE DEF Before, l
    <3>3. QED BY <1>4, <1>8, <2>1, <2>2, <3>2, ReplayAssumption
  <2>4. QED BY <1>2, <1>8, <2>1, <2>3
<1>9. QED BY <1>5, <1>6, <1>7, <1>8 DEF P

\* A page is not empty when there are rows to read, and what it leaves out comes after
\* the last row in it.
LEMMA PageIsFirst ==
  ASSUME stored \in Seq(Event), NEW from
  PROVE  /\ Page(from) \subseteq Rows(from) /\ Rows(from) \subseteq DOMAIN stored
         /\ Page(from) = {} => Rows(from) = {}
         /\ Page(from) # {} =>
              /\ Last(Page(from)) \in Page(from)
              /\ \A k \in Rows(from) \ Page(from) : Precedes(Last(Page(from)), k)
<1>1. Rows(from) \in SUBSET DOMAIN stored  BY DEF Rows
<1>2. QED BY <1>1, FirstComeFirst DEF Page

\* The cursor never passes a row that the page left out, if no millisecond has more
\* rows than a page holds.
LEMMA CursorPassesNone ==
  ASSUME stored \in Seq(Event), FitsPage, InTimeOrder, NEW from \in Nat, Page(from) # {},
         NEW k \in Rows(from) \ Page(from)
  PROVE  NextCursor(from, Stamp[stored[Last(Page(from))]]) <= Stamp[stored[k]]
<1> DEFINE l == Last(Page(from))
           Before == {j \in Rows(from) : Precedes(j, k)}
           Same == {i \in DOMAIN stored : Stamp[stored[i]] = Stamp[stored[k]]}
<1>1. /\ l \in Rows(from) /\ Precedes(l, k)
      /\ l \in DOMAIN stored /\ k \in DOMAIN stored /\ Rows(from) \subseteq DOMAIN stored
  BY PageIsFirst
<1>2. \A i \in DOMAIN stored : stored[i] \in Event /\ Stamp[stored[i]] \in Nat
  BY ReplayAssumption
<1>3. from <= Stamp[stored[l]] /\ Stamp[stored[l]] <= Stamp[stored[k]]
  BY <1>1 DEF InTimeOrder, Rows
<1>4. ASSUME Stamp[stored[k]] <= from PROVE FALSE
  <2>1. ASSUME NEW j \in Before PROVE j \in Same
    <3>1. from <= Stamp[stored[j]] /\ Stamp[stored[j]] <= Stamp[stored[k]] /\ j \in DOMAIN stored
      BY <1>1 DEF InTimeOrder, Rows
    <3>2. from <= Stamp[stored[k]]  BY <1>1, <1>2, <1>3
    <3>3. QED BY <1>1, <1>2, <1>4, <3>1, <3>2
  <2>2. k \in Same /\ k \notin Before
    BY <1>1, ReadInOrder
  <2>3. IsFiniteSet(Same)
    <3>1. IsFiniteSet(DOMAIN stored)
      <4>1. DOMAIN stored = 1..Len(stored) /\ Len(stored) \in Nat  OBVIOUS
      <4>2. QED BY <4>1, FS_Interval
    <3>2. QED BY <3>1, FS_Subset
  <2>4. Before \cup {k} \in SUBSET Same  BY <2>1, <2>2
  <2>5. ~(Cardinality(Before) < Limit)  BY DEF Page, FirstOf
  <2>6. Cardinality(Same) <= Limit  BY <1>1, <1>2 DEF FitsPage
  <2> HIDE DEF Before, Same
  <2>7. IsFiniteSet(Before) /\ Cardinality(Before) \in Nat
    BY <2>3, <2>4, FS_Subset, FS_CardinalityType
  <2>8. Cardinality(Before \cup {k}) = Cardinality(Before) + 1
    BY <2>2, <2>7, FS_AddElement
  <2>9. Cardinality(Before \cup {k}) <= Cardinality(Same) /\ Cardinality(Same) \in Nat
    BY <2>3, <2>4, FS_Subset, FS_CardinalityType
  <2>10. QED BY <2>5, <2>6, <2>7, <2>8, <2>9, ReplayAssumption
<1>5. Stamp[stored[l]] \in Nat /\ Stamp[stored[k]] \in Nat  BY <1>1, <1>2
<1> HIDE DEF l
<1>6. NextCursor(from, Stamp[stored[l]]) <= Stamp[stored[k]]
  BY <1>3, <1>4, <1>5 DEF NextCursor
<1>7. QED BY <1>6 DEF l

-----------------------------------------------------------------------------
(* A replay misses nothing.                                                *)

\* Nothing is stored before there is a backend.
EmptyInv == backend = "none" => stored = <<>>

ReplayTyped ==
  /\ asks \in [Query -> {"no", "flushing", "reading", "over"}]
  /\ cursor \in [Query -> Nat]
  /\ wanted \in [Query -> SUBSET Event]
  /\ cut \in [Query -> BOOLEAN]

\* What a replay still wants is in the journal and in its window; if no read has
\* lost rows it is at or after its cursor or in a file left out, and the replay does
\* not end wanting anything else.
Sought(q) ==
  /\ \A e \in wanted[q] : e \in Range(stored) /\ InWindow(e)
  /\ asks[q] = "no" => cursor[q] = Start
  /\ ~cut[q] /\ FitsPage /\ InTimeOrder =>
       \A e \in wanted[q] : Hidden(e) \/ (cursor[q] <= Stamp[e] /\ asks[q] # "over")

SoughtInv == ReplayTyped /\ EmptyInv /\ \A q \in Query : Sought(q)

\* The journal only grows, on the backend it has.
LEMMA JournalGrows ==
  ASSUME JournalInv, EmptyInv, [Next]_vars
  PROVE  /\ EmptyInv'
         /\ \/ UNCHANGED stored /\ (backend' = backend \/ stored = <<>>)
            \/ backend' = backend /\ \E t \in Seq(Event) : stored' = stored \o t
<1> TypeOK /\ LifeInv /\ BatchesInv  BY DEF JournalInv
<1>1. CASE Initialize
  <2>1. UNCHANGED stored /\ backend = "none" /\ backend' # "none"
    BY <1>1 DEF Initialize, storeVars, LifeInv
  <2>2. QED BY <2>1 DEF EmptyInv
<1>2. CASE UNCHANGED vars \/ StopEmpty \/ Stop
  <2>1. UNCHANGED <<stored, backend>>
    BY <1>2 DEF vars, taskVars, storeVars, StopEmpty, Stop
  <2>2. QED BY <2>1 DEF EmptyInv
<1>3. ASSUME NEW e \in Event, Publish(e) \/ AppendRefused(e) \/ AppendEvent(e)
      PROVE  EmptyInv' /\ UNCHANGED <<stored, backend>>
  <2>1. UNCHANGED <<stored, backend>>
    BY <1>3 DEF Publish, AppendRefused, AppendEvent, storeVars
  <2>2. QED BY <2>1 DEF EmptyInv
<1>4. ASSUME NEW f \in Flusher, Take(f)
      PROVE  EmptyInv' /\ UNCHANGED <<stored, backend>>
  <2>1. UNCHANGED <<stored, backend>>  BY <1>4 DEF Take, taskVars, storeVars
  <2>2. QED BY <2>1 DEF EmptyInv
<1>5. ASSUME NEW f \in Flusher, WriteDone(f) \/ WriteFails(f)
      PROVE  /\ EmptyInv' /\ backend' = backend
             /\ stored' = stored \/ stored' = stored \o batch[f]
  <2>1. backend = "clickhouse"  BY <1>5 DEF WriteDone, WriteFails, BatchesInv
  <2>2. backend' = backend
    BY <1>5 DEF WriteDone, WriteFails, Requeue, taskVars
  <2>3. QED BY <1>5, <2>1, <2>2 DEF WriteDone, WriteFails, EmptyInv
<1>6. ASSUME NEW f \in Flusher, FlushFile(f)
      PROVE  EmptyInv' /\ backend' = backend /\ \E t \in Seq(Event) : stored' = stored \o t
  <2>1. PICK lines \in Remains(pending) : stored' = stored \o lines  BY <1>6 DEF FlushFile
  <2>2. lines \in Seq(Event)  BY <2>1, RemainsKeeps DEF TypeOK
  <2>3. backend = "file" /\ backend' = backend  BY <1>6 DEF FlushFile
  <2>4. QED BY <2>1, <2>2, <2>3 DEF EmptyInv
<1>7. CASE FlusherCancelled
  <2>1. backend' = backend  BY <1>7 DEF FlusherCancelled
  <2>2. "periodic" \in Flusher  BY DEF Flusher
  <2>3. batch["periodic"] \in Seq(Event)  BY <2>2 DEF TypeOK
  <2>4. CASE UNCHANGED stored
    BY <2>1, <2>4 DEF EmptyInv
  <2>5. CASE flush["periodic"] = "writing" /\ stored' = stored \o batch["periodic"]
    <3>1. backend = "clickhouse"  BY <2>2, <2>5 DEF BatchesInv
    <3>2. QED BY <2>1, <2>3, <2>5, <3>1 DEF EmptyInv
  <2>6. QED BY <1>7, <2>4, <2>5 DEF FlusherCancelled
<1>8. ASSUME NEW f \in Flusher PROVE batch[f] \in Seq(Event)  BY DEF TypeOK
<1>9. QED BY <1>1, <1>2, <1>3, <1>4, <1>5, <1>6, <1>7, <1>8, StepsOfJournal

\* Rows that come in time order, and no more than a page of one millisecond, did so
\* when there were fewer of them.
LEMMA RowsWere ==
  ASSUME stored \in Seq(Event), NEW t \in Seq(Event), stored' = stored \o t,
         backend' = backend, FitsPage', InTimeOrder'
  PROVE  FitsPage /\ InTimeOrder
<1>1. /\ DOMAIN stored = 1..Len(stored) /\ Len(stored) \in Nat
      /\ DOMAIN stored' = 1..Len(stored') /\ Len(stored') \in Nat /\ Len(stored) <= Len(stored')
  OBVIOUS
<1>2. DOMAIN stored \subseteq DOMAIN stored' /\ \A i \in DOMAIN stored : stored'[i] = stored[i]
  OBVIOUS
<1>3. InTimeOrder
  <2>1. \A i, j \in DOMAIN stored : Precedes(i, j) <=> Precedes(i, j)'
    BY <1>2 DEF Precedes
  <2>2. QED BY <1>2, <2>1 DEF InTimeOrder
<1>4. ASSUME NEW e \in Event
      PROVE  Cardinality({i \in DOMAIN stored : Stamp[stored[i]] = Stamp[e]}) <= Limit
  <2> DEFINE A == {i \in DOMAIN stored : Stamp[stored[i]] = Stamp[e]}
             B == {i \in DOMAIN stored' : Stamp[stored'[i]] = Stamp[e]}
  <2>1. A \in SUBSET B  BY <1>2
  <2>2. IsFiniteSet(B)
    <3>1. IsFiniteSet(DOMAIN stored')  BY <1>1, FS_Interval
    <3>2. QED BY <3>1, FS_Subset
  <2>3. Cardinality(B) <= Limit  BY DEF FitsPage
  <2> HIDE DEF A, B
  <2>4. IsFiniteSet(A) /\ Cardinality(A) <= Cardinality(B)
    BY <2>1, <2>2, FS_Subset
  <2>5. Cardinality(A) \in Nat /\ Cardinality(B) \in Nat
    BY <2>2, <2>4, FS_CardinalityType
  <2>6. Cardinality(A) <= Limit  BY <2>3, <2>4, <2>5, ReplayAssumption
  <2>7. QED BY <2>6 DEF A
<1>5. QED BY <1>3, <1>4 DEF FitsPage

\* Whatever the journal does, a replay that stays where it is loses nothing.
LEMMA SoughtStays ==
  ASSUME JournalInv, EmptyInv, [Next]_vars, NEW q \in Query, Sought(q),
         UNCHANGED <<cursor, wanted, cut>>,
         asks'[q] = "no" => asks[q] = "no", asks'[q] = "over" => asks[q] = "over"
  PROVE  Sought(q)'
<1>1. stored \in Seq(Event)  BY DEF JournalInv, TypeOK
<1>2. CASE UNCHANGED stored /\ stored = <<>>
  BY <1>2, EmptyHasNone DEF Sought
<1>3. CASE UNCHANGED <<stored, backend>>
  <2>1. (FitsPage' <=> FitsPage) /\ (InTimeOrder' <=> InTimeOrder)
    BY <1>3 DEF FitsPage, InTimeOrder, Precedes
  <2>2. \A e : Hidden(e)' <=> Hidden(e)  BY <1>3 DEF Hidden, Opened
  <2>3. QED BY <1>3, <2>1, <2>2 DEF Sought, InWindow
<1>4. CASE backend' = backend /\ \E t \in Seq(Event) : stored' = stored \o t
  <2>1. PICK t \in Seq(Event) : stored' = stored \o t  BY <1>4
  <2>2. Range(stored) \subseteq Range(stored')  BY <1>1, <2>1, ConcatRange
  <2>3. FitsPage' /\ InTimeOrder' => FitsPage /\ InTimeOrder
    BY <1>1, <1>4, <2>1, RowsWere
  <2>4. \A e : Hidden(e)' <=> Hidden(e)  BY <1>4 DEF Hidden, Opened
  <2>5. QED BY <2>2, <2>3, <2>4 DEF Sought, InWindow
<1>5. QED BY <1>2, <1>3, <1>4, JournalGrows

\* Rows that were read take the cursor forward, and themselves from what is wanted.
LEMMA RowsAreTaken ==
  ASSUME stored \in Seq(Event), ReplayTyped, NEW q \in Query,
         NEW page \in SUBSET Rows(cursor[q]), Yields(q, page)
  PROVE  /\ cursor[q] < cursor'[q] /\ cursor'[q] \in Nat
         /\ cursor'[q] = NextCursor(cursor[q], Stamp[stored[Last(page)]])
         /\ asks'[q] = IF cursor'[q] < End THEN "flushing" ELSE "over"
         /\ wanted'[q] = wanted[q] \ {stored[i] : i \in page}
         /\ asks' \in [Query -> {"no", "flushing", "reading", "over"}]
         /\ cursor' \in [Query -> Nat] /\ wanted' \in [Query -> SUBSET Event]
<1> DEFINE last == Stamp[stored[Last(page)]]
<1>1. page # {} /\ page \in SUBSET DOMAIN stored
  BY DEF Yields, Rows
<1>2. Last(page) \in Rows(cursor[q])  BY <1>1, LastIsLast
<1>3. Last(page) \in DOMAIN stored /\ cursor[q] <= last
  BY <1>2 DEF Rows
<1>4. last \in Nat /\ cursor[q] \in Nat
  BY <1>3, ReplayAssumption DEF ReplayTyped
<1>5. /\ cursor' = [cursor EXCEPT ![q] = NextCursor(cursor[q], last)]
      /\ wanted' = [wanted EXCEPT ![q] = wanted[q] \ {stored[i] : i \in page}]
      /\ asks' = [asks EXCEPT ![q] = IF cursor'[q] < End THEN "flushing" ELSE "over"]
  BY DEF Yields, ReplayTyped
<1> HIDE DEF last
<1>6. NextCursor(cursor[q], last) \in Nat /\ cursor[q] < NextCursor(cursor[q], last)
  BY <1>3, <1>4 DEF NextCursor
<1>7. /\ cursor'[q] = NextCursor(cursor[q], last)
      /\ wanted'[q] = wanted[q] \ {stored[i] : i \in page}
      /\ asks'[q] = IF cursor'[q] < End THEN "flushing" ELSE "over"
  BY <1>5 DEF ReplayTyped
<1>8. /\ asks' \in [Query -> {"no", "flushing", "reading", "over"}]
      /\ cursor' \in [Query -> Nat] /\ wanted' \in [Query -> SUBSET Event]
  BY <1>5, <1>6 DEF ReplayTyped
<1>9. QED BY <1>6, <1>7, <1>8 DEF last

\* A page takes from what is wanted what it holds; the rest is at or after the new
\* cursor or hidden, or there is none.
LEMMA PageIsRead ==
  ASSUME JournalInv, ReplayTyped, NEW q \in Query, Sought(q), PageRead(q)
  PROVE  Sought(q)'
<1> DEFINE page == Page(cursor[q])
           next == NextCursor(cursor[q], Stamp[stored[Last(page)]])
<1>1. /\ UNCHANGED <<stored, backend, cut>> /\ asks[q] = "reading"
  BY DEF PageRead, vars, taskVars, storeVars
<1>2. stored \in Seq(Event) /\ cursor[q] \in Nat /\ wanted[q] \subseteq Event
  BY DEF JournalInv, TypeOK, ReplayTyped
<1>3. /\ (FitsPage' <=> FitsPage) /\ (InTimeOrder' <=> InTimeOrder)
      /\ \A e : Hidden(e)' <=> Hidden(e)
  BY <1>1 DEF FitsPage, InTimeOrder, Precedes, Hidden, Opened
<1>4. ASSUME NEW e \in wanted[q], cursor[q] <= Stamp[e], ~Hidden(e)
      PROVE  \E k \in Rows(cursor[q]) : stored[k] = e
  <2>1. PICK k \in DOMAIN stored : stored[k] = e  BY DEF Sought, Range
  <2>2. Stamp[e] < End  BY DEF Sought, InWindow
  <2>3. e \in Event /\ Stamp[e] \in Nat  BY <1>2, DayOfEvent
  <2>4. FileEnd(e) \in Int  BY <2>3, DayOfEvent, ReplayAssumption DEF FileEnd, FileStart
  <2>5. Opened(e, cursor[q])
    <3>1. backend = "file" => Stamp[e] <= FileEnd(e) /\ FileStart(e) <= End
      BY <1>4 DEF Hidden, Opened
    <3>2. Stamp[e] <= FileEnd(e) => cursor[q] <= FileEnd(e)  BY <1>2, <1>4, <2>3, <2>4
    <3>3. QED BY <3>1, <3>2 DEF Opened
  <2>6. QED BY <1>4, <2>1, <2>2, <2>5 DEF Rows
<1>5. CASE page = {}
  <2>1. asks'[q] = "over" /\ UNCHANGED <<cursor, wanted>>
    BY <1>5 DEF PageRead, Yields, ReplayTyped
  <2>2. Rows(cursor[q]) = {}  BY <1>2, <1>5, PageIsFirst
  <2>3. ~cut[q] /\ FitsPage /\ InTimeOrder => \A e \in wanted[q] : Hidden(e)
    BY <1>4, <2>2 DEF Sought
  <2>4. QED BY <1>1, <1>3, <2>1, <2>3 DEF Sought, InWindow
<1>6. CASE page # {}
  <2>1. /\ cursor'[q] = next /\ next \in Nat
        /\ wanted'[q] = wanted[q] \ {stored[i] : i \in page}
        /\ asks'[q] = IF next < End THEN "flushing" ELSE "over"
    <3>1. Yields(q, page)  BY <1>6 DEF PageRead
    <3>2. page \in SUBSET Rows(cursor[q])  BY <1>2, PageIsFirst
    <3>3. QED BY <1>2, <3>1, <3>2, RowsAreTaken
  <2>2. ASSUME ~cut[q], FitsPage, InTimeOrder, NEW e \in wanted'[q], ~Hidden(e)
        PROVE  next <= Stamp[e] /\ Stamp[e] < End
    <3>1. e \in wanted[q] /\ e \notin {stored[i] : i \in page}  BY <2>1
    <3>2. PICK k \in Rows(cursor[q]) : stored[k] = e
      BY <1>4, <2>2, <3>1 DEF Sought
    <3>3. k \notin page  BY <3>1, <3>2
    <3>4. next <= Stamp[stored[k]]
      BY <1>2, <1>6, <2>2, <3>3, CursorPassesNone
    <3>5. QED BY <3>2, <3>4 DEF Rows
  <2> HIDE DEF next, page
  <2>3. ASSUME ~cut[q], FitsPage, InTimeOrder, NEW e \in wanted'[q], ~Hidden(e)
        PROVE  next < End
    <3>1. Stamp[e] \in Nat
      <4>1. e \in Event  BY <1>2, <2>1
      <4>2. QED BY <4>1, ReplayAssumption
    <3>2. next <= Stamp[e] /\ Stamp[e] < End  BY <2>2, <2>3
    <3>3. QED BY <2>1, <3>1, <3>2, ReplayAssumption
  <2>4. ~cut[q] /\ FitsPage /\ InTimeOrder =>
          \A e \in wanted'[q] : Hidden(e) \/ (cursor'[q] <= Stamp[e] /\ asks'[q] # "over")
    BY <2>1, <2>2, <2>3
  <2>5. QED BY <1>1, <1>3, <2>1, <2>4 DEF Sought, InWindow
<1>7. QED BY <1>5, <1>6

\* The rows of a page that lost some are rows of the window all the same.
LEMMA PartIsRead ==
  ASSUME JournalInv, ReplayTyped, NEW q \in Query, Sought(q), ReadInPart(q)
  PROVE  Sought(q)' /\ ReplayTyped' /\ cursor[q] < cursor'[q]
         /\ (asks'[q] = "flushing" => cursor'[q] < End)
<1>1. stored \in Seq(Event)  BY DEF JournalInv, TypeOK
<1>2. PICK page \in SUBSET Rows(cursor[q]) : Yields(q, page)
  <2>1. PICK parsed \in SUBSET Rows(cursor[q]) : Yields(q, PartOfPage(cursor[q], parsed))
    BY DEF ReadInPart
  <2>2. FirstOf(parsed) \subseteq parsed  BY DEF FirstOf
  <2>3. PartOfPage(cursor[q], parsed) \in SUBSET Rows(cursor[q])
    BY <2>2 DEF PartOfPage
  <2>4. QED BY <2>1, <2>3
<1>3. /\ cursor[q] < cursor'[q]
      /\ asks'[q] = IF cursor'[q] < End THEN "flushing" ELSE "over"
      /\ wanted'[q] \subseteq wanted[q]
      /\ asks' \in [Query -> {"no", "flushing", "reading", "over"}]
      /\ cursor' \in [Query -> Nat] /\ wanted' \in [Query -> SUBSET Event]
  BY <1>1, <1>2, RowsAreTaken
<1>4. cut' = [cut EXCEPT ![q] = TRUE] /\ UNCHANGED stored
  BY DEF ReadInPart, vars, storeVars
<1>5. ReplayTyped' /\ cut'[q] = TRUE  BY <1>3, <1>4 DEF ReplayTyped
<1>6. Sought(q)'  BY <1>3, <1>4, <1>5 DEF Sought, InWindow
<1>7. QED BY <1>3, <1>5, <1>6

LEMMA SoughtStep ==
  JournalInv /\ SoughtInv /\ [ReplayNext]_<<vars, replayVars>> => SoughtInv'
<1> SUFFICES ASSUME JournalInv, SoughtInv, [ReplayNext]_<<vars, replayVars>> PROVE SoughtInv'
  OBVIOUS
<1> ReplayTyped /\ EmptyInv /\ \A q \in Query : Sought(q)  BY DEF SoughtInv
<1>1. CASE UNCHANGED <<vars, replayVars>> \/ (Journals /\ UNCHANGED replayVars)
  <2>1. [Next]_vars /\ UNCHANGED <<asks, cursor, wanted, cut>>
    BY <1>1 DEF Next, replayVars
  <2>2. ReplayTyped'  BY <2>1 DEF ReplayTyped
  <2>3. QED BY <2>1, <2>2, JournalGrows, SoughtStays DEF SoughtInv
<1>2. ASSUME NEW q \in Query, QueryFlushes(q) \/ QueryFlushesNothing(q) PROVE SoughtInv'
  <2>1. /\ [Next]_vars /\ UNCHANGED <<cursor, wanted, cut>>
        /\ \E to \in {"flushing", "reading"} : asks' = [asks EXCEPT ![q] = to]
    BY <1>2 DEF Next, QueryFlushes, QueryFlushesNothing, FlushReturns
  <2>2. ReplayTyped'  BY <2>1 DEF ReplayTyped
  <2>3. \A p \in Query : (asks'[p] = "no" => asks[p] = "no") /\ (asks'[p] = "over" => asks[p] = "over")
    BY <2>1 DEF ReplayTyped
  <2>4. QED BY <2>1, <2>2, <2>3, JournalGrows, SoughtStays DEF SoughtInv
<1>3. ASSUME NEW q \in Query, ReplayBegins(q) \/ PageRead(q) \/ ReadInPart(q) \/ ReadFails(q)
      PROVE  SoughtInv'
  <2>1. UNCHANGED vars
    BY <1>3 DEF ReplayBegins, PageRead, ReadInPart, ReadFails
  <2>2. UNCHANGED <<stored, backend>>
    BY <2>1 DEF vars, taskVars, storeVars
  <2>3. /\ (FitsPage' <=> FitsPage) /\ (InTimeOrder' <=> InTimeOrder) /\ EmptyInv'
        /\ \A e : Hidden(e)' <=> Hidden(e)
    BY <2>2 DEF FitsPage, InTimeOrder, Precedes, EmptyInv, Hidden, Opened
  <2>4. ASSUME NEW p \in Query \ {q} PROVE Sought(p)'
    <3>1. /\ asks'[p] = asks[p] /\ cursor'[p] = cursor[p] /\ wanted'[p] = wanted[p]
          /\ cut'[p] = cut[p]
      BY <1>3 DEF ReplayBegins, PageRead, ReadInPart, ReadFails, Yields, ReplayTyped
    <3>2. QED BY <2>2, <2>3, <3>1 DEF Sought, InWindow
  <2>5. ReplayTyped' /\ Sought(q)'
    <3>1. CASE ReplayBegins(q)
      <4>1. /\ asks' = [asks EXCEPT ![q] = "flushing"] /\ asks[q] = "no"
            /\ wanted' = [wanted EXCEPT ![q] = {e \in Range(stored) : InWindow(e)}]
            /\ UNCHANGED <<cursor, cut>>
        BY <3>1 DEF ReplayBegins
      <4>2. {e \in Range(stored) : InWindow(e)} \subseteq Event
        BY DEF JournalInv, TypeOK, Range
      <4>3. ReplayTyped'  BY <4>1, <4>2 DEF ReplayTyped
      <4>4. /\ wanted'[q] = {e \in Range(stored) : InWindow(e)}
            /\ asks'[q] = "flushing" /\ cursor'[q] = Start
        BY <4>1 DEF ReplayTyped, Sought
      <4>5. QED BY <2>2, <4>3, <4>4 DEF Sought, InWindow
    <3>2. CASE PageRead(q)
      <4>1. Sought(q)'  BY <3>2, PageIsRead
      <4>2. cut' = cut  BY <3>2 DEF PageRead
      <4>3. CASE UNCHANGED <<cursor, wanted>> /\ asks' = [asks EXCEPT ![q] = "over"]
        BY <4>1, <4>2, <4>3 DEF ReplayTyped
      <4>4. CASE Yields(q, Page(cursor[q]))
        <5>1. stored \in Seq(Event)  BY DEF JournalInv, TypeOK
        <5>2. Page(cursor[q]) \in SUBSET Rows(cursor[q])  BY <5>1, PageIsFirst
        <5>3. /\ asks' \in [Query -> {"no", "flushing", "reading", "over"}]
              /\ cursor' \in [Query -> Nat] /\ wanted' \in [Query -> SUBSET Event]
          BY <4>4, <5>1, <5>2, RowsAreTaken
        <5>4. QED BY <4>1, <4>2, <5>3 DEF ReplayTyped
      <4>5. QED BY <3>2, <4>3, <4>4 DEF PageRead
    <3>3. CASE ReadFails(q)
      <4>1. /\ asks' = [asks EXCEPT ![q] = "over"] /\ cut' = [cut EXCEPT ![q] = TRUE]
            /\ UNCHANGED <<cursor, wanted>>
        BY <3>3 DEF ReadFails
      <4>2. ReplayTyped'  BY <4>1 DEF ReplayTyped
      <4>3. asks'[q] = "over" /\ cut'[q] = TRUE
        BY <4>1 DEF ReplayTyped
      <4>4. QED BY <2>2, <2>3, <4>1, <4>2, <4>3 DEF Sought, InWindow
    <3>4. CASE ReadInPart(q)  BY <3>4, PartIsRead
    <3>5. QED BY <1>3, <3>1, <3>2, <3>3, <3>4
  <2>6. QED BY <2>3, <2>4, <2>5 DEF SoughtInv
<1>4. QED BY <1>1, <1>2, <1>3 DEF ReplayNext, Replays

LEMMA SoughtHolds == ReplaySpec => []SoughtInv
<1>1. ReplayInit => SoughtInv
  BY ReplayAssumption DEF ReplayInit, Init, SoughtInv, ReplayTyped, EmptyInv, Sought
<1>2. QED BY <1>1, SoughtStep, JournalHolds, ReplayIsJournal, PTL DEF ReplaySpec

\* A replay that no failure has cut short has read, when it is over, every event of
\* its window that was stored when it began, however the journal grew meanwhile, if
\* the rows come in time order and no millisecond has more of them than a page holds;
\* what it may have missed is in a file whose name, taken for a day of local time,
\* ends before the event or begins after the window.
THEOREM ReplayMissesNothingEver == ReplaySpec => []ReplayMissesNothing
<1>1. SoughtInv => ReplayMissesNothing
  BY DEF SoughtInv, Sought, ReplayMissesNothing
<1>2. QED BY <1>1, SoughtHolds, PTL

\* On a host whose local time is UTC no file hides an event: such a replay has read
\* every event of its window, whatever the backend.
THEOREM ReplayMissesNothingInUTC ==
  ASSUME Offset = 0
  PROVE  ReplaySpec =>
           [](\A q \in Query :
                asks[q] = "over" /\ ~cut[q] /\ FitsPage /\ InTimeOrder => wanted[q] = {})
<1>1. ASSUME NEW q \in Query, SoughtInv, NEW e \in wanted[q] PROVE ~Hidden(e)
  <2>1. e \in Event /\ Stamp[e] < End
    BY <1>1 DEF SoughtInv, ReplayTyped, Sought, InWindow
  <2>2. /\ Stamp[e] \in Nat /\ Midnight(e) \in Int
        /\ Midnight(e) <= Stamp[e] /\ Stamp[e] < Midnight(e) + DayLength
    BY <2>1, DayOfEvent
  <2>3. FileStart(e) = Midnight(e) /\ FileEnd(e) = Midnight(e) + DayLength
    BY <2>2, ReplayAssumption DEF FileStart, FileEnd
  <2>4. Stamp[e] <= FileEnd(e) /\ FileStart(e) <= End
    BY <2>1, <2>2, <2>3, ReplayAssumption
  <2>5. QED BY <2>4 DEF Hidden, Opened
<1>2. SoughtInv => \A q \in Query :
        asks[q] = "over" /\ ~cut[q] /\ FitsPage /\ InTimeOrder => wanted[q] = {}
  BY <1>1 DEF SoughtInv, Sought
<1>3. QED BY <1>2, SoughtHolds, PTL

\* A page after which the replay goes on moves its cursor forward, and not past the
\* end of the window: no replay reads more pages than its window has milliseconds,
\* although a page may begin with rows the page before it held.
THEOREM ReplayAdvances ==
  ReplaySpec => [][\A q \in Query : asks[q] = "reading" /\ asks'[q] = "flushing"
                     => cursor[q] < cursor'[q] /\ cursor'[q] < End]_<<vars, replayVars>>
<1> DEFINE Rule == \A q \in Query : asks[q] = "reading" /\ asks'[q] = "flushing"
                     => cursor[q] < cursor'[q] /\ cursor'[q] < End
<1>1. JournalInv /\ SoughtInv /\ [ReplayNext]_<<vars, replayVars>>
        => [Rule]_<<vars, replayVars>>
  <2> SUFFICES ASSUME JournalInv, SoughtInv, ReplayTyped, ReplayNext, NEW q \in Query,
                      asks[q] = "reading", asks'[q] = "flushing"
               PROVE  cursor[q] < cursor'[q] /\ cursor'[q] < End
    BY DEF SoughtInv
  <2>1. PageRead(q) \/ ReadInPart(q)
    BY DEF ReplayNext, Replays, replayVars, ReplayBegins, QueryFlushesNothing, QueryFlushes,
           FlushReturns, PageRead, ReadInPart, ReadFails, Yields, ReplayTyped
  <2>2. stored \in Seq(Event)  BY DEF JournalInv, TypeOK
  <2>3. CASE PageRead(q)
    <3>1. Yields(q, Page(cursor[q]))
      BY <2>3 DEF PageRead, ReplayTyped
    <3>2. Page(cursor[q]) \in SUBSET Rows(cursor[q])  BY <2>2, PageIsFirst
    <3>3. /\ cursor[q] < cursor'[q]
          /\ asks'[q] = IF cursor'[q] < End THEN "flushing" ELSE "over"
      BY <2>2, <3>1, <3>2, RowsAreTaken
    <3>4. QED BY <3>3
  <2>4. CASE ReadInPart(q)  BY <2>4, PartIsRead DEF SoughtInv
  <2>5. QED BY <2>1, <2>3, <2>4
<1>2. QED BY <1>1, SoughtHolds, JournalHolds, ReplayIsJournal, PTL DEF ReplaySpec
=============================================================================
