------------------------- MODULE OrchestratorProofs -------------------------
(***************************************************************************)
(* Proofs about module Orchestrator for any catalogue, any set of callers  *)
(* and any number of commands.  What is proved does not depend on which    *)
(* types a command works through, nor on their order: only on the type it  *)
(* is busy with, the head of its todo.                                     *)
(***************************************************************************)
EXTENDS Orchestrator, TLAPS

Busy(p, where, r) == pc[p] \in where /\ Head(todo[p]) = r

Stages == {"idle", "start", "opened", "starting", "launched", "stop", "closed", "held",
           "stopping", "halting", "draining", "cancelling", "sleeping", "switched"}

Shape ==
  /\ state \in [Type -> {"ABSENT", "REGISTERED", "STARTING", "RUNNING", "STOPPING",
                         "STOPPED", "FAILED"}]
  /\ live \in [Type -> Nat]
  /\ ended \in [Type -> {"none", "returned", "raised"}]
  /\ attached \in [Type -> BOOLEAN]
  /\ due \in [Type -> {"none", "returned", "raised"}]
  /\ pc \in [Caller -> Stages]
  /\ todo = [p \in Caller |-> todo[p]]

\* A start() task is live only from its launch until the runtime is stopped.
TaskOf(r) ==
  /\ live[r] \in {0, 1}
  /\ live[r] = 1 => state[r] \in {"STARTING", "RUNNING", "STOPPING", "FAILED"}
  /\ state[r] = "RUNNING" /\ due[r] # "none" => live[r] = 0
  /\ state[r] = "RUNNING" /\ attached[r] => live[r] = 1 \/ due[r] # "none"
  /\ r \notin Service => live[r] = 0 /\ due[r] = "none" /\ attached[r] = FALSE

Holds(p, r) == Busy(p, {"launched", "halting", "draining", "cancelling"}, r)

\* Who launches a runtime, or halts it, is alone with it.
AloneWith(r) ==
  /\ \A p \in Caller : Busy(p, {"launched"}, r) =>
       /\ state[r] \in {"STARTING", "FAILED"}
       /\ (ended[r] = "none" => live[r] = 1)
       /\ r \in Service
  /\ \A p \in Caller : Busy(p, {"halting", "draining", "cancelling"}, r) =>
       state[r] = "STOPPING" /\ r \in Service
  /\ \A p, q \in Caller : Holds(p, r) /\ Holds(q, r) => p = q

LifecycleInv == Shape /\ \A r \in Type : TaskOf(r) /\ AloneWith(r)
-----------------------------------------------------------------------------
(* What a step of one command leaves alone.                                *)

\* Command p moves to stage `to', and only its own todo may change.
Moves(p, to) ==
  /\ pc' = [pc EXCEPT ![p] = to]
  /\ todo' = [q \in Caller |-> todo'[q]]
  /\ \A q \in Caller \ {p} : todo'[q] = todo[q]

\* A step that leaves the runtimes alone and takes none of them.
LEMMA Untouched ==
  ASSUME LifecycleInv, NEW p \in Caller,
         NEW to \in Stages \ {"launched", "halting", "draining", "cancelling"}, Moves(p, to),
         UNCHANGED <<state, live, ended, attached, due>>
  PROVE  LifecycleInv'
  <1>1. Shape'
    BY DEF LifecycleInv, Shape, Moves
  <1>2. \A q \in Caller, r \in Type, S \in SUBSET {"launched", "halting", "draining", "cancelling"} :
          Busy(q, S, r)' => Busy(q, S, r)
    BY DEF LifecycleInv, Shape, Moves, Busy
  <1>3. ASSUME NEW r \in Type PROVE TaskOf(r)'
    BY DEF LifecycleInv, TaskOf
  <1>4. ASSUME NEW r \in Type PROVE AloneWith(r)'
    <2>1. AloneWith(r)
      BY DEF LifecycleInv
    <2> QED
      BY <1>2, <2>1 DEF AloneWith, Holds
  <1> QED
    BY <1>1, <1>3, <1>4 DEF LifecycleInv

LEMMA LifecycleInit == Init => LifecycleInv
  BY DEF Init, LifecycleInv, Shape, Stages, TaskOf, AloneWith, Holds, Busy

-----------------------------------------------------------------------------
(* Commands that only go on.                                               *)

LEMMA QuietSteps ==
  ASSUME LifecycleInv, NEW p \in Caller,
         \/ Ask(p) \/ ModeChanged(p) \/ StartRefused(p) \/ StartOpens(p) \/ StartDone(p)
         \/ StopRefused(p) \/ StopCloses(p) \/ StopPlans(p) \/ StopDone(p) \/ Slept(p)
         \/ \E r \in Type : StartVoid(p, r) \/ StartSkips(p, r) \/ StartFails(p, r) \/ StopFails(p, r)
  PROVE  LifecycleInv'
  <1> todo = [q \in Caller |-> todo[q]]
    BY DEF LifecycleInv, Shape
  <1> DEFINE Away == Stages \ {"launched", "halting", "draining", "cancelling"}
  <1>1. (\E to \in Away : Moves(p, to)) /\ UNCHANGED <<state, live, ended, attached, due>>
    <2>1. CASE Ask(p)
      BY <2>1 DEF Ask, AskStart, AskStop, AskMode, Given, GoesOn, Suspends, Moves, Stages,
                  runtimeVars, work
    <2>2. CASE ModeChanged(p) \/ StartRefused(p) \/ StartOpens(p)
      BY <2>2 DEF ModeChanged, StartRefused, StartOpens, GoesOn, Suspends, Moves, Stages,
                  runtimeVars, work
    <2>3. CASE StartDone(p) \/ StopDone(p)
      BY <2>3 DEF StartDone, StopDone, Leaves, Forget, Suspends, Moves, Stages, runtimeVars
    <2>4. CASE StopRefused(p) \/ StopCloses(p) \/ Slept(p)
      BY <2>4 DEF StopRefused, StopCloses, Slept, Leaves, GoesOn, Suspends, Moves, Stages,
                  runtimeVars, work
    <2>5. CASE StopPlans(p)
      BY <2>5 DEF StopPlans, GoesOn, Moves, Stages, runtimeVars
    <2>6. ASSUME NEW r \in Type, StartVoid(p, r) \/ StartSkips(p, r)
          PROVE  (\E to \in Away : Moves(p, to)) /\ UNCHANGED <<state, live, ended, attached, due>>
      BY <2>6 DEF StartVoid, StartSkips, GoesOn, Drop, Moves, Stages, runtimeVars
    <2>7. ASSUME NEW r \in Type, StartFails(p, r) \/ StopFails(p, r)
          PROVE  (\E to \in Away : Moves(p, to)) /\ UNCHANGED <<state, live, ended, attached, due>>
      BY <2>7 DEF StartFails, StopFails, GoesOn, Drop, Moves, Stages
    <2> QED
      BY <2>1, <2>2, <2>3, <2>4, <2>5, <2>6, <2>7
  <1> QED
    BY <1>1, Untouched
-----------------------------------------------------------------------------
(* Steps that change one runtime.                                          *)

\* Only runtime r changes, in a step of the command p that is busy with it.
Touches(p, r, to) ==
  /\ Moves(p, to) /\ Head(todo[p]) = r
  /\ to \in {"launched", "halting", "draining", "cancelling"} => todo'[p] = todo[p]
  /\ \A q \in Type \ {r} :
       /\ state'[q] = state[q] /\ live'[q] = live[q] /\ ended'[q] = ended[q]
       /\ attached'[q] = attached[q] /\ due'[q] = due[q]

LEMMA WhoHolds ==
  ASSUME LifecycleInv, NEW p \in Caller, NEW r \in Type, NEW to \in Stages, Touches(p, r, to)
  PROVE  /\ \A c \in Caller, q \in Type, S \in SUBSET {"launched", "halting", "draining", "cancelling"} :
              c # p \/ q # r => (Busy(c, S, q)' => Busy(c, S, q))
         /\ \A S \in SUBSET {"launched", "halting", "draining", "cancelling"} : Busy(p, S, r)' => to \in S
  <1>1. ASSUME NEW c \in Caller \ {p}, NEW q \in Type,
               NEW S \in SUBSET {"launched", "halting", "draining", "cancelling"}
        PROVE  Busy(c, S, q)' => Busy(c, S, q)
    BY DEF LifecycleInv, Shape, Touches, Moves, Busy
  <1>2. ASSUME NEW S \in SUBSET {"launched", "halting", "draining", "cancelling"}
        PROVE  Busy(p, S, r)' => to \in S
    BY DEF LifecycleInv, Shape, Touches, Moves, Busy
  <1>3. ASSUME NEW q \in Type \ {r}, NEW S \in SUBSET {"launched", "halting", "draining", "cancelling"}
        PROVE  ~Busy(p, S, q)'
    BY DEF LifecycleInv, Shape, Touches, Moves, Busy
  <1> QED
    BY <1>1, <1>2, <1>3

LEMMA OthersKept ==
  ASSUME LifecycleInv, NEW p \in Caller, NEW r \in Type, NEW to \in Stages, Touches(p, r, to),
         Shape', TaskOf(r)', AloneWith(r)'
  PROVE  LifecycleInv'
  <1>1. ASSUME NEW q \in Type \ {r} PROVE TaskOf(q)'
    BY DEF LifecycleInv, TaskOf, Touches
  <1>2. ASSUME NEW q \in Type \ {r} PROVE AloneWith(q)'
    <2>1. AloneWith(q)
      BY DEF LifecycleInv
    <2>2. state'[q] = state[q] /\ live'[q] = live[q] /\ ended'[q] = ended[q]
      BY DEF Touches
    <2>3. \A c \in Caller, S \in SUBSET {"launched", "halting", "draining", "cancelling"} :
            Busy(c, S, q)' => Busy(c, S, q)
      BY WhoHolds
    <2> QED
      BY <2>1, <2>2, <2>3 DEF AloneWith, Holds
  <1> QED
    BY <1>1, <1>2 DEF LifecycleInv

\* A command that finds runtime r free, and takes it or leaves it free.
LEMMA NobodyElse ==
  ASSUME LifecycleInv, NEW p \in Caller, NEW r \in Type, NEW to \in Stages, Touches(p, r, to),
         \/ state[r] \in {"REGISTERED", "STOPPED", "RUNNING"}
         \/ Holds(p, r)
  PROVE  \A c \in Caller \ {p} : ~Holds(c, r) /\ ~Holds(c, r)'
  <1>1. AloneWith(r)
    BY DEF LifecycleInv
  <1>2. ASSUME NEW c \in Caller \ {p} PROVE ~Holds(c, r)
    BY <1>1, <1>2 DEF AloneWith, Holds, Busy
  <1> QED
    BY <1>2, WhoHolds DEF Holds

LEMMA StartsOne ==
  ASSUME LifecycleInv, NEW p \in Caller, NEW r \in Type, Head(todo[p]) = r,
         StartPlain(p, r) \/ StartLaunches(p, r) \/ Launched(p, r)
  PROVE  LifecycleInv'
  <1> todo = [q \in Caller |-> todo[q]] /\ TaskOf(r) /\ AloneWith(r) /\ Shape
    BY DEF LifecycleInv, Shape
  <1>1. CASE StartPlain(p, r)
    <2>1. Touches(p, r, "starting") /\ Shape'
      BY <1>1 DEF StartPlain, GoesOn, Become, Drop, Touches, Moves, Shape, Stages
    <2>2. TaskOf(r)'
      BY <1>1 DEF StartPlain, Become, Shape, TaskOf
    <2>3. \A c \in Caller : ~Holds(c, r)'
      BY <1>1, <2>1, NobodyElse, WhoHolds DEF StartPlain, MayLaunch, Stages, Holds
    <2>4. AloneWith(r)'
      BY <2>3 DEF AloneWith, Holds, Busy
    <2> QED
      BY <2>1, <2>2, <2>4, OthersKept DEF Stages
  <1>2. CASE StartLaunches(p, r)
    <2>1. Touches(p, r, "launched") /\ Shape'
      BY <1>2 DEF StartLaunches, Suspends, Become, work, Touches, Moves, Shape, Stages
    <2>2. state'[r] = "STARTING" /\ live'[r] = 1 /\ attached'[r] = FALSE /\ r \in Service
      BY <1>2 DEF StartLaunches, Become, Shape, TaskOf, MayLaunch
    <2>3. TaskOf(r)'
      BY <2>2 DEF TaskOf
    <2>4. \A c \in Caller \ {p} : ~Holds(c, r)'
      BY <1>2, <2>1, NobodyElse DEF StartLaunches, MayLaunch, Stages
    <2>5. ~Busy(p, {"halting", "draining", "cancelling"}, r)'
      BY <2>1, WhoHolds DEF Stages
    <2>6. AloneWith(r)'
      BY <2>2, <2>4, <2>5 DEF AloneWith, Holds, Busy
    <2> QED
      BY <2>1, <2>3, <2>6, OthersKept DEF Stages
  <1>3. CASE Launched(p, r)
    <2>1. Touches(p, r, "starting") /\ Shape'
      BY <1>3 DEF Launched, GoesOn, Become, Drop, Touches, Moves, Shape, Stages
    <2>2. Busy(p, {"launched"}, r) /\ Holds(p, r)
      BY <1>3 DEF Launched, GoesOn, Busy, Holds
    <2>3. TaskOf(r)'
      <3>1. state[r] \in {"STARTING", "FAILED"} /\ (ended[r] = "none" => live[r] = 1) /\ r \in Service
        BY <2>2 DEF AloneWith
      <3> QED
        BY <1>3, <3>1 DEF Launched, Become, Shape, TaskOf
    <2>4. \A c \in Caller : ~Holds(c, r)'
      BY <2>1, <2>2, NobodyElse, WhoHolds DEF Stages, Holds
    <2>5. AloneWith(r)'
      BY <2>4 DEF AloneWith, Holds, Busy
    <2> QED
      BY <2>1, <2>3, <2>5, OthersKept DEF Stages
  <1> QED
    BY <1>1, <1>2, <1>3

LEMMA StopsOne ==
  ASSUME LifecycleInv, NEW p \in Caller, NEW r \in Type, Head(todo[p]) = r,
         \/ StopPlain(p, r) \/ StopHalts(p, r) \/ Halted(p, r)
         \/ Drained(p, r, "draining") \/ Drained(p, r, "cancelling") \/ DrainTimeout(p, r)
  PROVE  LifecycleInv'
  <1> todo = [q \in Caller |-> todo[q]] /\ TaskOf(r) /\ AloneWith(r) /\ Shape
    BY DEF LifecycleInv, Shape
  <1>1. CASE StopPlain(p, r)
    <2>1. Touches(p, r, "stopping") /\ Shape'
      BY <1>1 DEF StopPlain, GoesOn, Become, Drop, Touches, Moves, Shape, Stages
    <2>2. TaskOf(r)'
      BY <1>1 DEF StopPlain, Become, Shape, TaskOf
    <2>3. \A c \in Caller : ~Holds(c, r)'
      BY <1>1, <2>1, NobodyElse, WhoHolds DEF StopPlain, Stages, Holds
    <2>4. AloneWith(r)'
      BY <2>3 DEF AloneWith, Holds, Busy
    <2> QED
      BY <2>1, <2>2, <2>4, OthersKept DEF Stages
  <1>2. CASE StopHalts(p, r)
    <2>1. Touches(p, r, "halting") /\ Shape'
      BY <1>2 DEF StopHalts, Suspends, Become, work, Touches, Moves, Shape, Stages
    <2>2. state'[r] = "STOPPING" /\ r \in Service
      BY <1>2 DEF StopHalts, Become, Shape
    <2>3. TaskOf(r)'
      BY <1>2, <2>2 DEF StopHalts, TaskOf
    <2>4. \A c \in Caller \ {p} : ~Holds(c, r)'
      BY <1>2, <2>1, NobodyElse DEF StopHalts, Stages
    <2>5. ~Busy(p, {"launched"}, r)'
      BY <2>1, WhoHolds DEF Stages
    <2>6. AloneWith(r)'
      BY <2>2, <2>4, <2>5 DEF AloneWith, Holds, Busy
    <2> QED
      BY <2>1, <2>3, <2>6, OthersKept DEF Stages
  <1>3. ASSUME NEW here \in {"halting", "draining"}, NEW to \in {"draining", "cancelling"},
               Suspends(p, here, to),
               UNCHANGED <<mode, running, journal, runtimeVars, again, work, history>>
        PROVE  LifecycleInv'
    <2>1. Touches(p, r, to) /\ Shape'
      BY <1>3 DEF Suspends, runtimeVars, work, Touches, Moves, Shape, Stages
    <2>2. Busy(p, {"halting", "draining", "cancelling"}, r) /\ Holds(p, r)
      BY <1>3 DEF Suspends, Busy, Holds
    <2>3. TaskOf(r)' /\ state'[r] = "STOPPING" /\ r \in Service
      BY <1>3, <2>2 DEF runtimeVars, TaskOf, AloneWith
    <2>4. \A c \in Caller \ {p} : ~Holds(c, r)'
      BY <2>1, <2>2, NobodyElse DEF Stages
    <2>5. ~Busy(p, {"launched"}, r)'
      BY <2>1, WhoHolds DEF Stages
    <2>6. AloneWith(r)'
      BY <2>3, <2>4, <2>5 DEF AloneWith, Holds, Busy
    <2> QED
      BY <2>1, <2>3, <2>6, OthersKept DEF Stages
  <1>4. ASSUME NEW here \in {"halting", "draining", "cancelling"},
               HaltFailed(p, r, here) \/ (live[r] = 0 /\ HaltDone(p, r, here))
        PROVE  LifecycleInv'
    <2>1. Touches(p, r, "stopping") /\ Shape'
      <3>1. live' \in [Type -> Nat] /\ \A q \in Type \ {r} : live'[q] = live[q]
        BY <1>4 DEF HaltFailed, HaltDone, Shape
      <3>2. state' \in [Type -> {"ABSENT", "REGISTERED", "STARTING", "RUNNING", "STOPPING",
                                 "STOPPED", "FAILED"}]
            /\ \A q \in Type \ {r} : state'[q] = state[q]
        BY <1>4 DEF HaltFailed, HaltDone, Become, Shape
      <3>3. GoesOn(p, here, "stopping") /\ Drop(p)
        BY <1>4 DEF HaltFailed, HaltDone
      <3>4. UNCHANGED <<ended, attached, due>>
        BY <1>4 DEF HaltFailed, HaltDone
      <3> QED
        BY <3>1, <3>2, <3>3, <3>4 DEF GoesOn, Drop, Touches, Moves, Shape, Stages
    <2>2. Busy(p, {"halting", "draining", "cancelling"}, r) /\ Holds(p, r)
      BY <1>4 DEF HaltFailed, HaltDone, GoesOn, Busy, Holds
    <2>3. state[r] = "STOPPING" /\ r \in Service
      BY <2>2 DEF AloneWith
    <2>4. TaskOf(r)'
      <3>1. CASE HaltFailed(p, r, here)
        BY <2>3, <3>1 DEF HaltFailed, Become, Shape, TaskOf
      <3>2. CASE live[r] = 0 /\ HaltDone(p, r, here)
        BY <2>3, <3>2 DEF HaltDone, Become, Shape, TaskOf
      <3> QED
        BY <1>4, <3>1, <3>2
    <2>5. \A c \in Caller : ~Holds(c, r)'
      BY <2>1, <2>2, NobodyElse, WhoHolds DEF Stages, Holds
    <2>6. AloneWith(r)'
      BY <2>5 DEF AloneWith, Holds, Busy
    <2> QED
      BY <2>1, <2>4, <2>6, OthersKept DEF Stages
  <1>5. CASE Halted(p, r)
    BY <1>3, <1>4, <1>5 DEF Halted
  <1>6. ASSUME NEW here \in {"draining", "cancelling"}, Drained(p, r, here)
        PROVE  LifecycleInv'
    BY <1>4, <1>6 DEF Drained
  <1>7. CASE DrainTimeout(p, r)
    BY <1>3, <1>7 DEF DrainTimeout
  <1> QED
    BY <1>1, <1>2, <1>5, <1>6, <1>7

\* start() creates the runtimes it does not find; nobody can hold one of those.
LEMMA PlansAll ==
  ASSUME LifecycleInv, NEW p \in Caller, StartPlans(p)
  PROVE  LifecycleInv'
  <1> todo = [q \in Caller |-> todo[q]] /\ Shape
    BY DEF LifecycleInv, Shape
  <1>1. Moves(p, "starting") /\ Shape'
    <2>1. Moves(p, "starting")
      BY DEF StartPlans, GoesOn, Moves
    <2>2. state' \in [Type -> {"ABSENT", "REGISTERED", "STARTING", "RUNNING", "STOPPING",
                               "STOPPED", "FAILED"}]
      BY DEF StartPlans, Shape
    <2> QED
      BY <2>1, <2>2 DEF StartPlans, GoesOn, Moves, Shape, Stages
  <1>2. UNCHANGED <<live, ended, attached, due>>
    BY DEF StartPlans
  <1>3. ASSUME NEW r \in Type
        PROVE  state'[r] = state[r] \/ (state[r] = "ABSENT" /\ state'[r] = "REGISTERED")
    BY DEF StartPlans, Shape
  <1>4. \A c \in Caller, r \in Type, S \in SUBSET {"launched", "halting", "draining", "cancelling"} :
          Busy(c, S, r)' => Busy(c, S, r)
    BY <1>1 DEF Moves, Shape, Busy
  <1>5. ASSUME NEW r \in Type PROVE TaskOf(r)'
    BY <1>2, <1>3 DEF LifecycleInv, TaskOf
  <1>6. ASSUME NEW r \in Type PROVE AloneWith(r)'
    <2>1. AloneWith(r)
      BY DEF LifecycleInv
    <2> QED
      BY <1>2, <1>3, <1>4, <2>1 DEF AloneWith, Holds
  <1> QED
    BY <1>1, <1>5, <1>6 DEF LifecycleInv

\* The task of a runtime ends, or its callback runs: no command moves.
LEMMA TaskSteps ==
  ASSUME LifecycleInv, NEW r \in Type, TaskEnds(r) \/ OnDone(r)
  PROVE  LifecycleInv'
  <1> TaskOf(r) /\ AloneWith(r) /\ Shape
    BY DEF LifecycleInv
  <1>1. pc' = pc /\ todo' = todo /\ attached' = attached
    BY DEF TaskEnds, OnDone, work
  <1>2. \A c \in Caller, q \in Type, S \in SUBSET {"launched", "halting", "draining", "cancelling"} :
          Busy(c, S, q)' <=> Busy(c, S, q)
    BY <1>1 DEF Busy
  <1>3. ASSUME NEW q \in Type \ {r} PROVE TaskOf(q)' /\ AloneWith(q)'
    <2>1. state'[q] = state[q] /\ live'[q] = live[q] /\ ended'[q] = ended[q] /\ due'[q] = due[q]
      BY DEF TaskEnds, OnDone, Become, Shape
    <2>2. TaskOf(q) /\ AloneWith(q)
      BY DEF LifecycleInv
    <2>3. TaskOf(q)'
      BY <1>1, <2>1, <2>2 DEF TaskOf
    <2>4. AloneWith(q)'
      BY <1>2, <2>1, <2>2 DEF AloneWith, Holds
    <2> QED
      BY <2>3, <2>4
  <1>4. CASE TaskEnds(r)
    <2>1. PICK how \in {"returned", "raised"} :
            /\ ended' = [ended EXCEPT ![r] = how]
            /\ due' = [due EXCEPT ![r] = IF attached[r] THEN how ELSE "none"]
      BY <1>4 DEF TaskEnds
    <2>2. live[r] = 1 /\ live' = [live EXCEPT ![r] = 0] /\ state' = state /\ r \in Service
      <3>1. live[r] = 1
        BY <1>4 DEF TaskEnds, TaskOf
      <3>2. live' = [live EXCEPT ![r] = 0]
        BY <1>4, <3>1 DEF TaskEnds, Shape
      <3>3. r \in Service
        BY <3>1 DEF TaskOf
      <3> QED
        BY <1>4, <3>1, <3>2, <3>3 DEF TaskEnds
    <2>3. Shape'
      BY <1>1, <2>1, <2>2 DEF Shape
    <2>4. live'[r] = 0 /\ state'[r] = state[r] /\ ended'[r] # "none"
          /\ (attached[r] => due'[r] # "none")
      BY <2>1, <2>2 DEF Shape
    <2>5. TaskOf(r)'
      BY <1>1, <2>2, <2>4 DEF TaskOf
    <2>6. AloneWith(r)'
      BY <1>2, <2>4 DEF AloneWith, Holds
    <2> QED
      BY <1>3, <2>3, <2>5, <2>6 DEF LifecycleInv
  <1>5. CASE OnDone(r)
    <2>1. live' = live /\ ended' = ended /\ due' = [due EXCEPT ![r] = "none"] /\ due[r] # "none"
      BY <1>5 DEF OnDone
    <2>2. Shape' /\ due'[r] = "none"
      BY <1>1, <1>5, <2>1 DEF OnDone, Become, Shape
    <2>3. \/ state'[r] = state[r] /\ state[r] # "RUNNING"
          \/ /\ state[r] \notin {"STOPPING", "STOPPED"}
             /\ state'[r] = "FAILED"
          \/ state[r] = "RUNNING" /\ state'[r] = "STOPPED"
      BY <1>5 DEF OnDone, Become, Shape
    <2>4. TaskOf(r)'
      BY <1>1, <2>1, <2>2, <2>3 DEF TaskOf
    <2>5. AloneWith(r)'
      <3>1. /\ state[r] = "STOPPING" => state'[r] = "STOPPING"
            /\ state[r] \in {"STARTING", "FAILED"} => state'[r] \in {"STARTING", "FAILED"}
        BY <2>3
      <3> QED
        BY <1>2, <2>1, <3>1 DEF AloneWith, Holds
    <2> QED
      BY <1>3, <2>2, <2>4, <2>5 DEF LifecycleInv
  <1> QED
    BY <1>4, <1>5

\* A full buffer holds commands that hold no runtime.
LEMMA BufferStep ==
  ASSUME LifecycleInv, BufferFills
  PROVE  LifecycleInv'
  <1>1. UNCHANGED <<state, live, ended, attached, due, todo>>
    BY DEF BufferFills, runtimeVars, work
  <1>2. /\ pc' \in [Caller -> Stages]
        /\ \A p \in Caller : pc'[p] = pc[p] \/ pc'[p] = "held"
    BY DEF BufferFills, LifecycleInv, Shape, Stages
  <1>3. Shape'
    BY <1>1, <1>2 DEF LifecycleInv, Shape
  <1>4. \A p \in Caller, r \in Type,
            S \in SUBSET {"launched", "halting", "draining", "cancelling"} :
          Busy(p, S, r)' => Busy(p, S, r)
    BY <1>1, <1>2 DEF Busy
  <1>5. ASSUME NEW r \in Type PROVE TaskOf(r)' /\ AloneWith(r)'
    <2>1. TaskOf(r) /\ AloneWith(r)
      BY DEF LifecycleInv
    <2>2. TaskOf(r)'
      BY <1>1, <2>1 DEF TaskOf
    <2>3. AloneWith(r)'
      BY <1>1, <1>4, <2>1 DEF AloneWith, Holds
    <2> QED
      BY <2>2, <2>3
  <1> QED
    BY <1>3, <1>5 DEF LifecycleInv
-----------------------------------------------------------------------------
LEMMA LifecycleStep == LifecycleInv /\ [Next]_vars => LifecycleInv'
  <1> SUFFICES ASSUME LifecycleInv, [Next]_vars PROVE LifecycleInv'
    OBVIOUS
  <1>1. ASSUME NEW p \in Caller, Ask(p) \/ Step(p) PROVE LifecycleInv'
    <2>1. CASE Ask(p) \/ ModeChanged(p) \/ StartRefused(p) \/ StartOpens(p) \/ StartDone(p)
               \/ StopRefused(p) \/ StopCloses(p) \/ StopPlans(p) \/ StopDone(p) \/ Slept(p)
      BY <2>1, QuietSteps
    <2>2. CASE StartPlans(p)
      BY <2>2, PlansAll
    <2>3. ASSUME NEW r \in Type, StepOn(p, r) PROVE LifecycleInv'
      <3>1. Head(todo[p]) = r
        BY <2>3 DEF StepOn
      <3>2. CASE StartVoid(p, r) \/ StartSkips(p, r) \/ StartFails(p, r) \/ StopFails(p, r)
        BY <3>2, QuietSteps
      <3>3. CASE StartPlain(p, r) \/ StartLaunches(p, r) \/ Launched(p, r)
        BY <3>1, <3>3, StartsOne
      <3>4. CASE \/ StopPlain(p, r) \/ StopHalts(p, r) \/ Halted(p, r)
                 \/ Drained(p, r, "draining") \/ Drained(p, r, "cancelling")
                 \/ DrainTimeout(p, r)
        BY <3>1, <3>4, StopsOne
      <3> QED
        BY <2>3, <3>2, <3>3, <3>4 DEF StepOn
    <2> QED
      BY <1>1, <2>1, <2>2, <2>3 DEF Step
  <1>2. ASSUME NEW r \in Type, TaskEnds(r) \/ OnDone(r) PROVE LifecycleInv'
    BY <1>2, TaskSteps
  <1>3. CASE UNCHANGED vars
    BY <1>3 DEF vars, runtimeVars, work, LifecycleInv, Shape, TaskOf, AloneWith, Holds, Busy
  <1>4. CASE BufferFills
    BY <1>4, BufferStep
  <1> QED
    BY <1>1, <1>2, <1>3, <1>4 DEF Next, LoopRuns

\* However the commands, the tasks and their callbacks interleave, a runtime
\* has a task only from its launch until it is stopped, and the command that
\* waits for its launch or its stop is alone with it (lifecycle.start, .stop).
THEOREM LifecycleHolds == Spec => []LifecycleInv
  BY LifecycleInit, LifecycleStep, PTL DEF Spec

\* Overlapping start() and stop() never run two start() tasks of one runtime.
THEOREM OneTaskAlways == Spec => []OneTask
  <1>1. LifecycleInv => OneTask
    BY DEF LifecycleInv, TaskOf, OneTask
  <1> QED
    BY <1>1, LifecycleHolds, PTL

\* A runtime that lifecycle.start would launch has no task left from before,
\* though stop() may have timed out, and though tasks end when they like.
THEOREM StoppedRuntimesHaveEnded == Spec => []StoppedMeansEnded
  <1>1. LifecycleInv => StoppedMeansEnded
    BY DEF LifecycleInv, TaskOf, StoppedMeansEnded
  <1> QED
    BY <1>1, LifecycleHolds, PTL

\* The registry does not keep a service RUNNING whose task has ended unless the
\* callback that will say so is due.
THEOREM RunningRuntimesAreLive == Spec => []RunningIsLive
  <1>1. LifecycleInv => RunningIsLive
    BY DEF LifecycleInv, TaskOf, RunningIsLive
  <1> QED
    BY <1>1, LifecycleHolds, PTL
=============================================================================
