---------------------- MODULE OrchestratorCommandProofs ----------------------
(***************************************************************************)
(* Proofs about what the commands of module Orchestrator do to the types   *)
(* they work through, for any catalogue, any set of callers and any number *)
(* of commands: what a start accounts for and what it skips, in which      *)
(* order a stop goes, and what is true between commands that did not       *)
(* overlap.  They rest on the order proved in DependencyGraphProofs.       *)
(***************************************************************************)
EXTENDS OrchestratorProofs, DependencyGraphProofs

(* Orders and what is left of them.                                        *)

LEMMA TailOf ==
  ASSUME NEW s \in Seq(Type), s # <<>>
  PROVE  /\ Len(s) \in Nat /\ Len(s) > 0 /\ DOMAIN s = 1..Len(s)
         /\ Head(s) = s[1] /\ Head(s) \in Type
         /\ Tail(s) \in Seq(Type) /\ DOMAIN Tail(s) = 1..(Len(s) - 1)
         /\ \A i \in 1..(Len(s) - 1) : Tail(s)[i] = s[i + 1]
  OBVIOUS

LEMMA TailRange ==
  ASSUME NEW s \in Seq(Type), s # <<>>
  PROVE  Range(s) = {Head(s)} \cup Range(Tail(s))
  <1>1. ASSUME NEW i \in DOMAIN s PROVE s[i] \in {Head(s)} \cup Range(Tail(s))
    <2>1. CASE i = 1
      BY <2>1, TailOf
    <2>2. CASE i # 1
      <3>1. i - 1 \in DOMAIN Tail(s) /\ Tail(s)[i - 1] = s[i]
        BY <2>2, TailOf
      <3> QED
        BY <3>1 DEF Range
    <2> QED
      BY <2>1, <2>2
  <1>2. ASSUME NEW i \in DOMAIN Tail(s) PROVE Tail(s)[i] \in Range(s)
    <2>1. i + 1 \in DOMAIN s /\ Tail(s)[i] = s[i + 1]
      BY TailOf
    <2> QED
      BY <2>1 DEF Range
  <1>3. Head(s) \in Range(s)
    BY TailOf DEF Range
  <1> QED
    BY <1>1, <1>2, <1>3 DEF Range

\* What start() goes through.
LEMMA StartupPlan ==
  ASSUME NEW S \in SUBSET Type
  PROVE  /\ StartupOrder(S) \in Seq(Type)
         /\ Range(StartupOrder(S)) = Targets(S)
         /\ \A i, j \in DOMAIN StartupOrder(S) :
              StartupOrder(S)[i] = StartupOrder(S)[j] => i = j
         /\ \A i \in DOMAIN StartupOrder(S) :
              \A q \in Dependencies[StartupOrder(S)[i]] \cap S :
                \E j \in 1..(i - 1) : StartupOrder(S)[j] = q
  <1> DEFINE s == StartupOrder(S)
  <1>1. Sorted(s, Targets(S), {})
    BY StartupOrderSorts
  <1> HIDE DEF s
  <1>2. Targets(S) \in SUBSET Type /\ S \subseteq Targets(S)
    BY DEF Targets
  <1>3. s \in Seq(Targets(S)) /\ s \in Seq(Type) /\ DOMAIN s = 1..Len(s)
    <2>1. s \in Seq(Targets(S))
      BY <1>1 DEF Sorted
    <2> QED
      BY <1>2, <2>1, SeqMonotonic
  <1>4. Range(s) = Targets(S)
    <2>1. \A i \in DOMAIN s : s[i] \in Targets(S)
      BY <1>3
    <2>2. \A r \in Targets(S) : \E i \in DOMAIN s : s[i] = r
      BY <1>1, <1>3 DEF Sorted
    <2> QED
      BY <2>1, <2>2 DEF Range
  <1>5. \A i, j \in DOMAIN s : s[i] = s[j] => i = j
    BY <1>1, <1>3 DEF Sorted
  <1>6. \A i \in DOMAIN s : \A q \in Dependencies[s[i]] \cap S : \E j \in 1..(i - 1) : s[j] = q
    BY <1>1, <1>2, <1>3 DEF Sorted
  <1> QED
    BY <1>3, <1>4, <1>5, <1>6 DEF s

\* What stop() goes through.
LEMMA ShutdownPlan ==
  ASSUME NEW S \in SUBSET Type
  PROVE  /\ ShutdownOrder(S) \in Seq(Type)
         /\ Range(ShutdownOrder(S)) = Targets(S)
         /\ \A i, j \in DOMAIN ShutdownOrder(S) :
              ShutdownOrder(S)[i] \in Dependencies[ShutdownOrder(S)[j]] => j < i
  <1> DEFINE z == ShutdownOrder(S)
  <1>1. /\ z \in Seq(Targets(S))
        /\ \A r \in Targets(S) : \E i \in 1..Len(z) : z[i] = r
        /\ \A i, j \in 1..Len(z) : z[i] \in Dependencies[z[j]] => j < i
    BY ShutdownOrderReverses
  <1> HIDE DEF z
  <1>2. z \in Seq(Type) /\ DOMAIN z = 1..Len(z)
    BY <1>1, SeqMonotonic DEF Targets
  <1>3. Range(z) = Targets(S)
    <2>1. \A i \in DOMAIN z : z[i] \in Targets(S)
      BY <1>1, <1>2
    <2> QED
      BY <1>1, <1>2, <2>1 DEF Range
  <1> QED
    BY <1>1, <1>2, <1>3 DEF z
-----------------------------------------------------------------------------
(* Types.                                                                  *)

ResultsTyped ==
  /\ todo \in [Caller -> Seq(Type)]
  /\ targets \in [Caller -> SUBSET Type]
  /\ started \in [Caller -> SUBSET Type]
  /\ failed \in [Caller -> SUBSET Type]
  /\ skipped \in [Caller -> SUBSET Type]

RuntimesTyped ==
  /\ state \in [Type -> {"ABSENT", "REGISTERED", "STARTING", "RUNNING", "STOPPING",
                         "STOPPED", "FAILED"}]
  /\ tracked \in [Type -> {"NONE", "STARTING", "RUNNING", "STOPPING", "STOPPED", "FAILED"}]
  /\ live \in [Type -> Nat]
  /\ ended \in [Type -> {"none", "returned", "raised"}]
  /\ attached \in [Type -> BOOLEAN]
  /\ due \in [Type -> {"none", "returned", "raised"}]

ControlTyped ==
  /\ mode \in Mode /\ running \in BOOLEAN /\ journal \in {"none", "open", "frozen"}
  /\ loop \in Caller \cup {Free}
  /\ pc \in [Caller -> Stages]
  /\ again \in [Caller -> BOOLEAN]
  /\ commands \in 0..MaxCommands
  /\ overlapped \in BOOLEAN /\ left \subseteq Type /\ unhalted \subseteq Type

LEMMA TypesSplit == TypeOK <=> ControlTyped /\ RuntimesTyped /\ ResultsTyped
  BY DEF TypeOK, ControlTyped, RuntimesTyped, ResultsTyped, Stages

LEMMA DropTyped ==
  ASSUME ResultsTyped, NEW p \in Caller, todo[p] # <<>>, Drop(p)
  PROVE  todo' \in [Caller -> Seq(Type)]
  <1>1. Tail(todo[p]) \in Seq(Type)
    BY TailOf DEF ResultsTyped
  <1> QED
    BY <1>1 DEF Drop, ResultsTyped

\* The steps of one command, outside the loops over the types.
LEMMA CommandTyped ==
  ASSUME TypeOK, NEW p \in Caller,
         \/ Ask(p) \/ ModeChanged(p) \/ StartRefused(p) \/ StartOpens(p) \/ StartPlans(p)
         \/ StartDone(p) \/ StopRefused(p) \/ StopCloses(p) \/ StopPlans(p) \/ StopDone(p)
         \/ Slept(p)
  PROVE  TypeOK'
  <1> ControlTyped /\ RuntimesTyped /\ ResultsTyped
    BY TypesSplit
  <1>1. CASE Ask(p)
    <2>1. ResultsTyped' /\ RuntimesTyped'
      BY <1>1 DEF Ask, AskStart, AskStop, AskMode, Given, runtimeVars, work, outcomes,
                  ResultsTyped, RuntimesTyped
    <2>2. pc' \in [Caller -> Stages] /\ loop' \in Caller \cup {Free}
      BY <1>1 DEF Ask, AskStart, AskStop, AskMode, GoesOn, Suspends, ControlTyped, Stages
    <2>3. commands' \in 0..MaxCommands /\ overlapped' \in BOOLEAN
      <3>1. commands' = commands + 1 /\ commands < MaxCommands
            /\ overlapped' = (overlapped \/ \E q \in Caller : pc[q] # "idle")
        BY <1>1 DEF Ask, AskStart, AskStop, AskMode, Given
      <3>2. overlapped' \in BOOLEAN
        BY <3>1
      <3>3. commands' \in 0..MaxCommands
        BY <3>1, OrchestratorAssumption DEF ControlTyped
      <3> QED
        BY <3>2, <3>3
    <2>4. mode' \in Mode /\ left' \subseteq Type
      BY <1>1 DEF Ask, AskStart, AskStop, AskMode, ControlTyped
    <2>5. UNCHANGED <<running, journal, again, unhalted>>
      BY <1>1 DEF Ask, AskStart, AskStop, AskMode, Given
    <2> QED
      BY <2>1, <2>2, <2>3, <2>4, <2>5, TypesSplit DEF ControlTyped, TypeOK, ResultsTyped, RuntimesTyped, Stages
  <1>2. CASE ModeChanged(p) \/ StartRefused(p) \/ StartOpens(p) \/ StopRefused(p) \/ StopCloses(p)
             \/ Slept(p)
    <2>1. ResultsTyped' /\ RuntimesTyped'
      BY <1>2 DEF ModeChanged, StartRefused, StartOpens, StopRefused, StopCloses, Slept,
                  runtimeVars, work, outcomes, ResultsTyped, RuntimesTyped
    <2>2. pc' \in [Caller -> Stages] /\ loop' \in Caller \cup {Free}
      BY <1>2 DEF ModeChanged, StartRefused, StartOpens, StopRefused, StopCloses, Slept, Leaves,
                  GoesOn, Suspends, ControlTyped, Stages
    <2>3. journal' \in {"none", "open", "frozen"} /\ again' \in [Caller -> BOOLEAN]
      BY <1>2 DEF ModeChanged, StartRefused, StartOpens, StopRefused, StopCloses, Slept,
                  ControlTyped
    <2>4. UNCHANGED <<mode, running, history>>
      BY <1>2 DEF ModeChanged, StartRefused, StartOpens, StopRefused, StopCloses, Slept
    <2> QED
      BY <2>1, <2>2, <2>3, <2>4 DEF ControlTyped, TypeOK, ResultsTyped, RuntimesTyped, Stages, history
  <1>3. CASE StartPlans(p)
    <2>1. Known \in SUBSET Type /\ StartupOrder(Known) \in Seq(Type)
      <3>1. Known \in SUBSET Type
        BY OrchestratorAssumption DEF Known, ControlTyped
      <3> QED
        BY <3>1, StartupPlan
    <2>2. ResultsTyped'
      BY <1>3, <2>1 DEF StartPlans, ResultsTyped, outcomes
    <2>3. RuntimesTyped'
      BY <1>3 DEF StartPlans, RuntimesTyped
    <2>4. ControlTyped'
      BY <1>3 DEF StartPlans, GoesOn, ControlTyped, history, Stages
    <2> QED
      BY <2>2, <2>3, <2>4 DEF ControlTyped, TypeOK, ResultsTyped, RuntimesTyped, Stages
  <1>4. CASE StopPlans(p)
    <2> DEFINE known == {r \in ModeTypes[mode] : state[r] # "ABSENT"}
    <2>1. known \in SUBSET Type /\ ShutdownOrder(known) \in Seq(Type)
      <3>1. known \in SUBSET Type
        BY OrchestratorAssumption DEF ControlTyped
      <3> QED
        BY <3>1, ShutdownPlan
    <2>2. ResultsTyped'
      BY <1>4, <2>1 DEF StopPlans, ResultsTyped, outcomes
    <2>3. RuntimesTyped'
      BY <1>4 DEF StopPlans, RuntimesTyped, runtimeVars
    <2>4. ControlTyped'
      BY <1>4 DEF StopPlans, GoesOn, ControlTyped, history, Stages
    <2> QED
      BY <2>2, <2>3, <2>4 DEF ControlTyped, TypeOK, ResultsTyped, RuntimesTyped, Stages
  <1>5. CASE StartDone(p) \/ StopDone(p)
    <2>1. ResultsTyped'
      BY <1>5 DEF StartDone, StopDone, Forget, ResultsTyped
    <2>2. RuntimesTyped'
      BY <1>5 DEF StartDone, StopDone, RuntimesTyped, runtimeVars
    <2>3. ControlTyped'
      <3>1. pc' \in [Caller -> Stages] /\ loop' \in Caller \cup {Free}
        BY <1>5 DEF StartDone, StopDone, Leaves, Suspends, ControlTyped, Stages
      <3> QED
        BY <1>5, <3>1 DEF StartDone, StopDone, ControlTyped, history
    <2> QED
      BY <2>1, <2>2, <2>3 DEF ControlTyped, TypeOK, ResultsTyped, RuntimesTyped, Stages
  <1> QED
    BY <1>1, <1>2, <1>3, <1>4, <1>5

\* A step in one of the loops, or of a task.
LEMMA LoopTyped ==
  ASSUME TypeOK, NEW p \in Caller, NEW r \in Type, StepOn(p, r)
  PROVE  TypeOK'
  <1> ControlTyped /\ RuntimesTyped /\ ResultsTyped /\ todo[p] # <<>>
    BY TypesSplit DEF StepOn
  <1> DEFINE Plain == \/ StartVoid(p, r) \/ StartSkips(p, r) \/ StartFails(p, r)
                      \/ StartPlain(p, r) \/ Launched(p, r)
                      \/ StopFails(p, r) \/ StopPlain(p, r)
             Ends == \E here \in {"halting", "draining", "cancelling"} :
                       HaltFailed(p, r, here) \/ HaltDone(p, r, here)
             Waits == \/ StartLaunches(p, r) \/ StopHalts(p, r)
                      \/ /\ \E here, to \in {"halting", "draining", "cancelling"} : Suspends(p, here, to)
                         /\ UNCHANGED <<mode, running, journal, runtimeVars, again, work, history>>
  <1>1. Plain \/ Ends \/ Waits
    BY DEF StepOn, Halted, Drained, DrainTimeout
  <1>2. ControlTyped'
    <2>1. pc' \in [Caller -> Stages] /\ loop' \in Caller \cup {Free}
      <3>1. CASE Plain
        BY <3>1 DEF StartVoid, StartSkips, StartFails, StartPlain, Launched, StopFails, StopPlain,
                    GoesOn, ControlTyped, Stages
      <3>2. CASE Ends
        BY <3>2 DEF HaltFailed, HaltDone, GoesOn, ControlTyped, Stages
      <3>3. CASE Waits
        BY <3>3 DEF StartLaunches, StopHalts, Suspends, ControlTyped, Stages
      <3> QED
        BY <1>1, <3>1, <3>2, <3>3
    <2>2. /\ UNCHANGED <<mode, running, journal, again, commands, overlapped, left>>
          /\ unhalted' = unhalted \/ unhalted' = unhalted \cup {r}
      <3>1. CASE Plain
        BY <3>1 DEF StartVoid, StartSkips, StartFails, StartPlain, Launched, StopFails, StopPlain,
                    history
      <3>2. CASE Ends
        BY <3>2 DEF HaltFailed, HaltDone, history
      <3>3. CASE Waits
        BY <3>3 DEF StartLaunches, StopHalts, history
      <3> QED
        BY <1>1, <3>1, <3>2, <3>3
    <2> QED
      BY <2>1, <2>2 DEF ControlTyped, history
  <1>3. ResultsTyped'
    <2>1. Drop(p) \/ UNCHANGED todo
      BY <1>1 DEF StartVoid, StartSkips, StartFails, StartPlain, Launched, StopFails, StopPlain,
                  HaltFailed, HaltDone, StartLaunches, StopHalts, work
    <2>2. todo' \in [Caller -> Seq(Type)]
      BY <2>1, DropTyped DEF ResultsTyped
    <2>3. /\ UNCHANGED started \/ Note(started, p, r)
          /\ UNCHANGED failed \/ Note(failed, p, r)
          /\ UNCHANGED skipped \/ Note(skipped, p, r)
          /\ UNCHANGED targets
      <3>1. CASE Plain
        BY <3>1 DEF StartVoid, StartSkips, StartFails, StartPlain, Launched, StopFails, StopPlain,
                    runtimeVars, outcomes
      <3>2. CASE Ends
        BY <3>2 DEF HaltFailed, HaltDone, outcomes
      <3>3. CASE Waits
        BY <3>3 DEF StartLaunches, StopHalts, outcomes, work
      <3> QED
        BY <1>1, <3>1, <3>2, <3>3
    <2>4. started' \in [Caller -> SUBSET Type]
      <3>1. CASE Note(started, p, r)
        <4>1. started' = [started EXCEPT ![p] = started[p] \cup {r}] /\ started \in [Caller -> SUBSET Type]
          BY <3>1 DEF Note, ResultsTyped
        <4>2. started[p] \cup {r} \in SUBSET Type
          BY <4>1
        <4> QED
          BY <4>1, <4>2
      <3> QED
        BY <2>3, <3>1 DEF ResultsTyped
    <2>5. failed' \in [Caller -> SUBSET Type]
      <3>1. CASE Note(failed, p, r)
        <4>1. failed' = [failed EXCEPT ![p] = failed[p] \cup {r}] /\ failed \in [Caller -> SUBSET Type]
          BY <3>1 DEF Note, ResultsTyped
        <4>2. failed[p] \cup {r} \in SUBSET Type
          BY <4>1
        <4> QED
          BY <4>1, <4>2
      <3> QED
        BY <2>3, <3>1 DEF ResultsTyped
    <2>6. skipped' \in [Caller -> SUBSET Type]
      <3>1. CASE Note(skipped, p, r)
        <4>1. skipped' = [skipped EXCEPT ![p] = skipped[p] \cup {r}] /\ skipped \in [Caller -> SUBSET Type]
          BY <3>1 DEF Note, ResultsTyped
        <4>2. skipped[p] \cup {r} \in SUBSET Type
          BY <4>1
        <4> QED
          BY <4>1, <4>2
      <3> QED
        BY <2>3, <3>1 DEF ResultsTyped
    <2> QED
      BY <2>2, <2>3, <2>4, <2>5, <2>6 DEF ResultsTyped
  <1>4. RuntimesTyped'
    <2>1. CASE StartVoid(p, r) \/ StartSkips(p, r) \/ StartFails(p, r) \/ StopFails(p, r)
      BY <2>1 DEF StartVoid, StartSkips, StartFails, StopFails, Retrack, Track, Transition,
                  runtimeVars, RuntimesTyped
    <2>2. CASE StartPlain(p, r) \/ StopPlain(p, r)
      BY <2>2 DEF StartPlain, StopPlain, Become, Retrack, Transition, RuntimesTyped
    <2>3. CASE Launched(p, r)
      BY <2>3 DEF Launched, Become, Track, Transition, RuntimesTyped
    <2>4. CASE Ends
      <3>1. state' \in [Type -> {"ABSENT", "REGISTERED", "STARTING", "RUNNING", "STOPPING",
                                 "STOPPED", "FAILED"}]
        BY <2>4 DEF HaltFailed, HaltDone, Become, RuntimesTyped
      <3>2. tracked' = tracked \/ Track(r, "STOPPED")
        BY <2>4 DEF HaltFailed, HaltDone
      <3>3. tracked' \in [Type -> {"NONE", "STARTING", "RUNNING", "STOPPING", "STOPPED", "FAILED"}]
        BY <3>2 DEF Track, Transition, RuntimesTyped
      <3>4. live' \in [Type -> Nat]
        BY <2>4 DEF HaltFailed, HaltDone, RuntimesTyped
      <3>5. UNCHANGED <<ended, attached, due>>
        BY <2>4 DEF HaltFailed, HaltDone
      <3> QED
        BY <3>1, <3>3, <3>4, <3>5 DEF RuntimesTyped
    <2>5. CASE StartLaunches(p, r)
      BY <2>5 DEF StartLaunches, Become, Retrack, RuntimesTyped
    <2>6. CASE StopHalts(p, r)
      BY <2>6 DEF StopHalts, Become, Track, Transition, RuntimesTyped
    <2>7. CASE UNCHANGED runtimeVars
      BY <2>7 DEF runtimeVars, RuntimesTyped
    <2> QED
      BY <1>1, <2>1, <2>2, <2>3, <2>4, <2>5, <2>6, <2>7
  <1> QED
    BY <1>2, <1>3, <1>4 DEF ControlTyped, TypeOK, ResultsTyped, RuntimesTyped, Stages

LEMMA TaskTyped ==
  ASSUME TypeOK, NEW r \in Type, TaskEnds(r) \/ OnDone(r)
  PROVE  TypeOK'
  <1>1. CASE TaskEnds(r)
    BY <1>1 DEF TaskEnds, TypeOK, work, outcomes, history
  <1>2. CASE OnDone(r)
    BY <1>2 DEF OnDone, Become, TypeOK, work, outcomes, history
  <1> QED
    BY <1>1, <1>2

\* Every variable keeps its type; that start() and stop() go through a sequence of
\* types rests on what get_startup_order computes.
THEOREM TypesHold == Spec => []TypeOK
  <1>1. Init => TypeOK
    <2> SUFFICES ASSUME Init PROVE TypeOK
      OBVIOUS
    <2>1. ControlTyped
      <3>1. commands \in 0..MaxCommands /\ mode \in Mode
        BY OrchestratorAssumption DEF Init
      <3>2. pc \in [Caller -> Stages] /\ again \in [Caller -> BOOLEAN]
        BY DEF Init, Stages
      <3> QED
        BY <3>1, <3>2 DEF Init, ControlTyped
    <2>2. RuntimesTyped
      BY DEF Init, RuntimesTyped
    <2>3. ResultsTyped
      BY DEF Init, ResultsTyped
    <2> QED
      BY <2>1, <2>2, <2>3, TypesSplit
  <1>2. TypeOK /\ [Next]_vars => TypeOK'
    <2> SUFFICES ASSUME TypeOK, [Next]_vars PROVE TypeOK'
      OBVIOUS
    <2>1. ASSUME NEW p \in Caller, Ask(p) \/ Step(p) PROVE TypeOK'
      BY <2>1, CommandTyped, LoopTyped DEF Step
    <2>2. ASSUME NEW r \in Type, TaskEnds(r) \/ OnDone(r) PROVE TypeOK'
      BY <2>2, TaskTyped
    <2>3. CASE UNCHANGED vars
      BY <2>3 DEF vars, runtimeVars, work, outcomes, history, TypeOK
    <2>4. CASE BufferFills
      BY <2>4 DEF BufferFills, runtimeVars, work, outcomes, history, TypeOK
    <2> QED
      BY <2>1, <2>2, <2>3, <2>4 DEF Next, LoopRuns
  <1> QED
    BY <1>1, <1>2, PTL DEF Spec
-----------------------------------------------------------------------------
(* What a step of one command leaves alone.                                *)

\* Nothing that command q has changes, but the stage it is in.
SameWork(q) ==
  /\ todo'[q] = todo[q] /\ targets'[q] = targets[q]
  /\ started'[q] = started[q] /\ failed'[q] = failed[q] /\ skipped'[q] = skipped[q]

\* Nothing of the other commands, and no runtime is taken from the registry.
Alone(p) ==
  /\ \A q \in Caller \ {p} : pc'[q] = pc[q] /\ SameWork(q)
  /\ \A r \in Type : state[r] # "ABSENT" => state'[r] # "ABSENT"

LEMMA LoopAlone ==
  ASSUME TypeOK, NEW p \in Caller, NEW r \in Type, StepOn(p, r)
  PROVE  Alone(p)
  <1> ControlTyped /\ RuntimesTyped /\ ResultsTyped
    BY TypesSplit
  <1> DEFINE Plain == \/ StartVoid(p, r) \/ StartSkips(p, r) \/ StartFails(p, r)
                      \/ StartPlain(p, r) \/ Launched(p, r)
                      \/ StopFails(p, r) \/ StopPlain(p, r)
             Ends == \E here \in {"halting", "draining", "cancelling"} :
                       HaltFailed(p, r, here) \/ HaltDone(p, r, here)
             Waits == \/ StartLaunches(p, r) \/ StopHalts(p, r)
                      \/ /\ \E here, to \in {"halting", "draining", "cancelling"} : Suspends(p, here, to)
                         /\ UNCHANGED <<mode, running, journal, runtimeVars, again, work, history>>
  <1>1. Plain \/ Ends \/ Waits
    BY DEF StepOn, Halted, Drained, DrainTimeout
  <1>2. ASSUME NEW q \in Caller \ {p} PROVE pc'[q] = pc[q]
    <2>1. CASE Plain
      BY <2>1 DEF StartVoid, StartSkips, StartFails, StartPlain, Launched, StopFails, StopPlain,
                  GoesOn, ControlTyped
    <2>2. CASE Ends
      BY <2>2 DEF HaltFailed, HaltDone, GoesOn, ControlTyped
    <2>3. CASE Waits
      BY <2>3 DEF StartLaunches, StopHalts, Suspends, ControlTyped
    <2> QED
      BY <1>1, <2>1, <2>2, <2>3
  <1>3. /\ Drop(p) \/ UNCHANGED todo
        /\ UNCHANGED started \/ Note(started, p, r)
        /\ UNCHANGED failed \/ Note(failed, p, r)
        /\ UNCHANGED skipped \/ Note(skipped, p, r)
        /\ UNCHANGED targets
    <2>1. CASE Plain
      BY <2>1 DEF StartVoid, StartSkips, StartFails, StartPlain, Launched, StopFails, StopPlain,
                  runtimeVars, outcomes
    <2>2. CASE Ends
      BY <2>2 DEF HaltFailed, HaltDone, outcomes
    <2>3. CASE Waits
      BY <2>3 DEF StartLaunches, StopHalts, outcomes, work
    <2> QED
      BY <1>1, <2>1, <2>2, <2>3
  <1>4. ASSUME NEW q \in Caller \ {p} PROVE SameWork(q)
    <2>1. todo'[q] = todo[q]
      BY <1>3 DEF Drop, ResultsTyped
    <2>2. started'[q] = started[q]
      BY <1>3 DEF Note, ResultsTyped
    <2>3. failed'[q] = failed[q]
      BY <1>3 DEF Note, ResultsTyped
    <2>4. skipped'[q] = skipped[q]
      BY <1>3 DEF Note, ResultsTyped
    <2> QED
      BY <1>3, <2>1, <2>2, <2>3, <2>4 DEF SameWork
  <1>5. state' = state \/ \E s \in {"STARTING", "RUNNING", "STOPPING", "STOPPED", "FAILED"} : Become(r, s)
    <2>1. CASE Plain
      BY <2>1 DEF StartVoid, StartSkips, StartFails, StartPlain, Launched, StopFails, StopPlain,
                  runtimeVars
    <2>2. CASE Ends
      BY <2>2 DEF HaltFailed, HaltDone
    <2>3. CASE Waits
      BY <2>3 DEF StartLaunches, StopHalts, runtimeVars
    <2> QED
      BY <1>1, <2>1, <2>2, <2>3
  <1>6. \A q \in Type : state[q] # "ABSENT" => state'[q] # "ABSENT"
    BY <1>5 DEF Become, RuntimesTyped
  <1> QED
    BY <1>2, <1>4, <1>6 DEF Alone

LEMMA CommandAlone ==
  ASSUME TypeOK, NEW p \in Caller, Ask(p) \/ Step(p)
  PROVE  Alone(p)
  <1> ControlTyped /\ RuntimesTyped /\ ResultsTyped
    BY TypesSplit
  <1>1. CASE Ask(p)
    <2>1. UNCHANGED <<runtimeVars, work>> /\ \E to \in Stages : pc' = [pc EXCEPT ![p] = to]
      BY <1>1 DEF Ask, AskStart, AskStop, AskMode, Given, GoesOn, Suspends, Stages
    <2> QED
      BY <2>1 DEF Alone, SameWork, runtimeVars, work, outcomes, ControlTyped
  <1>2. CASE ModeChanged(p) \/ StartRefused(p) \/ StartOpens(p) \/ StopRefused(p) \/ StopCloses(p)
             \/ Slept(p)
    <2>1. UNCHANGED <<runtimeVars, work>> /\ \E to \in Stages : pc' = [pc EXCEPT ![p] = to]
      BY <1>2 DEF ModeChanged, StartRefused, StartOpens, StopRefused, StopCloses, Slept, Leaves,
                  GoesOn, Suspends, Stages
    <2> QED
      BY <2>1 DEF Alone, SameWork, runtimeVars, work, outcomes, ControlTyped
  <1>3. CASE StartPlans(p)
    <2>1. \A r \in Type : state[r] # "ABSENT" => state'[r] # "ABSENT"
      BY <1>3 DEF StartPlans
    <2> QED
      BY <1>3, <2>1 DEF StartPlans, GoesOn, Alone, SameWork, outcomes, ControlTyped, ResultsTyped
  <1>4. CASE StopPlans(p)
    <2>1. \A q \in Caller \ {p} : pc'[q] = pc[q] /\ todo'[q] = todo[q] /\ targets'[q] = targets[q]
      BY <1>4 DEF StopPlans, GoesOn, ControlTyped, ResultsTyped
    <2> QED
      BY <1>4, <2>1 DEF StopPlans, Alone, SameWork, outcomes, runtimeVars
  <1>5. CASE StartDone(p) \/ StopDone(p)
    <2>1. \A q \in Caller \ {p} : pc'[q] = pc[q] /\ SameWork(q)
      <3>1. Forget(p) /\ \E to \in Stages : pc' = [pc EXCEPT ![p] = to]
        BY <1>5 DEF StartDone, StopDone, Leaves, Suspends, Stages
      <3> QED
        BY <3>1 DEF Forget, SameWork, ControlTyped, ResultsTyped
    <2>2. UNCHANGED state
      BY <1>5 DEF StartDone, StopDone, runtimeVars
    <2> QED
      BY <2>1, <2>2 DEF Alone
  <1> QED
    BY <1>1, <1>2, <1>3, <1>4, <1>5, LoopAlone DEF Step
-----------------------------------------------------------------------------
(* What a start goes through, and what it skips.                           *)

Starting == {"starting", "launched"}
Stopping == {"stopping", "halting", "draining", "cancelling"}
Halting == {"halting", "draining", "cancelling"}
Holding == {"launched", "halting", "draining", "cancelling"}

\* A stop waits for the task of a runtime, and waits on when it has cancelled it.
Awaits(p) ==
  /\ Suspends(p, "halting", "draining") \/ Suspends(p, "draining", "cancelling")
  /\ UNCHANGED <<mode, running, journal, runtimeVars, again, work, history>>

LEMMA StepCases ==
  ASSUME NEW p \in Caller, NEW r \in Type, StepOn(p, r)
  PROVE  \/ StartVoid(p, r) \/ StartSkips(p, r) \/ StartFails(p, r) \/ StartPlain(p, r)
         \/ StartLaunches(p, r) \/ Launched(p, r)
         \/ StopFails(p, r) \/ StopPlain(p, r) \/ StopHalts(p, r)
         \/ \E here \in Halting : HaltFailed(p, r, here) \/ HaltDone(p, r, here)
         \/ Awaits(p)
  BY DEF StepOn, Halted, Drained, DrainTimeout, Awaits, Halting

\* A buffer that fills holds commands that were about to plan their stop, and that
\* is all it does.
LEMMA BufferHolds ==
  ASSUME TypeOK, BufferFills
  PROVE  /\ loop = Free
         /\ UNCHANGED <<mode, running, runtimeVars, loop, again, work, history>>
         /\ \A p \in Caller : pc'[p] = pc[p] \/ (pc[p] = "closed" /\ pc'[p] = "held")
  BY DEF BufferFills

Outcome(p) == started[p] \cup failed[p] \cup skipped[p]

\* A start accounts for its targets, all of which are registered; the dependencies
\* of a type to come are dealt with, or come before it.
StartPlan(p) ==
  /\ targets[p] \subseteq Range(todo[p]) \cup Outcome(p)
  /\ \A i \in DOMAIN todo[p] : \A q \in Dependencies[todo[p][i]] \cap targets[p] :
       q \in Outcome(p) \/ \E j \in 1..(i - 1) : todo[p][j] = q
  /\ \A r \in targets[p] : state[r] # "ABSENT"

PlanOf(p) ==
  /\ pc[p] \in Starting => StartPlan(p)
  /\ pc[p] \notin Starting => skipped[p] = {}
  /\ \A r \in skipped[p] : Required(r, targets[p]) \cap (failed[p] \cup skipped[p]) # {}

PlanInv == \A p \in Caller : PlanOf(p)

LEMMA PlanUntouched ==
  ASSUME NEW q \in Caller, PlanOf(q), SameWork(q), pc'[q] \in Starting <=> pc[q] \in Starting,
         \A r \in Type : state[r] # "ABSENT" => state'[r] # "ABSENT",
         targets[q] \in SUBSET Type
  PROVE  PlanOf(q)'
  <1>1. StartPlan(q) => StartPlan(q)'
    BY DEF StartPlan, Outcome, SameWork
  <1> QED
    BY <1>1 DEF PlanOf, SameWork

\* The type at the head has been dealt with: the others stay as they were planned.
LEMMA PlanGoesOn ==
  ASSUME TypeOK, NEW p \in Caller, PlanOf(p), pc[p] \in Starting, todo[p] # <<>>, Drop(p),
         pc'[p] \in Starting, targets'[p] = targets[p], Outcome(p) \subseteq Outcome(p)',
         Head(todo[p]) \in targets[p] => Head(todo[p]) \in Outcome(p)',
         \A r \in Type : state[r] # "ABSENT" => state'[r] # "ABSENT",
         \A r \in skipped'[p] : Required(r, targets[p]) \cap (failed'[p] \cup skipped'[p]) # {}
  PROVE  PlanOf(p)'
  <1> DEFINE s == todo[p]
             t == todo'[p]
  <1>1. /\ s \in Seq(Type) /\ s # <<>> /\ t = Tail(s)
        /\ targets[p] \in SUBSET Type
    BY TypesSplit DEF ResultsTyped, Drop
  <1>2. StartPlan(p)
    BY DEF PlanOf
  <1>3. targets'[p] \subseteq Range(t) \cup Outcome(p)'
    <2>1. Range(s) = {Head(s)} \cup Range(t)
      BY <1>1, TailRange
    <2> QED
      BY <1>2, <2>1 DEF StartPlan
  <1>4. ASSUME NEW i \in DOMAIN t, NEW q \in Dependencies[t[i]] \cap targets[p]
        PROVE  q \in Outcome(p)' \/ \E j \in 1..(i - 1) : t[j] = q
    <2>1. i \in 1..(Len(s) - 1) /\ Len(s) \in Nat /\ i + 1 \in DOMAIN s /\ t[i] = s[i + 1]
      BY <1>1, TailOf
    <2>2. q \in Outcome(p) \/ \E j \in 1..i : s[j] = q
      BY <1>2, <2>1 DEF StartPlan
    <2>3. ASSUME NEW j \in 1..i, s[j] = q
          PROVE  q \in Outcome(p)' \/ \E k \in 1..(i - 1) : t[k] = q
      <3>1. CASE j = 1
        BY <1>1, <2>3, <3>1, TailOf
      <3>2. CASE j # 1
        <4>1. j - 1 \in 1..(Len(s) - 1) /\ j - 1 \in 1..(i - 1)
          BY <2>1, <3>2
        <4>2. t[j - 1] = q
          BY <1>1, <2>3, <4>1, TailOf
        <4> QED
          BY <4>1, <4>2
      <3> QED
        BY <3>1, <3>2
    <2> QED
      BY <2>2, <2>3
  <1>5. \A r \in targets[p] : state'[r] # "ABSENT"
    BY <1>1, <1>2 DEF StartPlan
  <1> QED
    BY <1>3, <1>4, <1>5 DEF PlanOf, StartPlan

\* One step of start(): nothing is skipped without a cause, because whatever a type
\* requires has come before it.
LEMMA StartsPlan ==
  ASSUME TypeOK, NEW p \in Caller, PlanOf(p), NEW r \in Type, todo[p] # <<>>, r = Head(todo[p]),
         \/ StartVoid(p, r) \/ StartSkips(p, r) \/ StartFails(p, r) \/ StartPlain(p, r)
         \/ Launched(p, r),
         \A q \in Type : state[q] # "ABSENT" => state'[q] # "ABSENT"
  PROVE  PlanOf(p)'
  <1> ControlTyped /\ ResultsTyped
    BY TypesSplit
  <1>1. pc[p] \in Starting /\ pc'[p] \in Starting /\ Drop(p) /\ targets' = targets
    BY DEF StartVoid, StartSkips, StartFails, StartPlain, Launched, GoesOn, ControlTyped, Starting
  <1>2. StartPlan(p) /\ targets[p] \in SUBSET Type
    BY <1>1 DEF PlanOf, ResultsTyped
  <1>3. CASE StartVoid(p, r)
    <2>1. UNCHANGED outcomes /\ r \notin targets[p]
      BY <1>2, <1>3 DEF StartVoid, StartPlan
    <2>2. \A x \in skipped'[p] : Required(x, targets[p]) \cap (failed'[p] \cup skipped'[p]) # {}
      BY <2>1 DEF outcomes, PlanOf
    <2>3. Outcome(p)' = Outcome(p)
      BY <2>1 DEF outcomes, Outcome
    <2> QED
      BY <1>1, <2>1, <2>2, <2>3, PlanGoesOn
  <1>4. CASE StartSkips(p, r)
    <2>1. started' = started /\ failed' = failed /\ skipped'[p] = skipped[p] \cup {r}
      BY <1>4 DEF StartSkips, Note, ResultsTyped
    <2>2. PICK d \in Required(r, targets[p]) : d \notin started[p]
      BY <1>4 DEF StartSkips, CanStart
    <2>3. d \in Outcome(p)
      <3>1. 1 \in DOMAIN todo[p] /\ todo[p][1] = r
        BY TailOf DEF ResultsTyped
      <3>2. d \in Dependencies[todo[p][1]] \cap targets[p]
        BY <2>2, <3>1 DEF Required
      <3>3. d \in Outcome(p) \/ \E j \in 1..(1 - 1) : todo[p][j] = d
        BY <1>2, <3>1, <3>2 DEF StartPlan
      <3> QED
        BY <3>3
    <2>4. d \in failed'[p] \cup skipped'[p]
      BY <2>1, <2>2, <2>3 DEF Outcome
    <2>5. \A x \in skipped'[p] : Required(x, targets[p]) \cap (failed'[p] \cup skipped'[p]) # {}
      BY <2>1, <2>2, <2>4 DEF PlanOf
    <2>6. Outcome(p)' = Outcome(p) \cup {r}
      BY <2>1 DEF Outcome
    <2> QED
      BY <1>1, <2>5, <2>6, PlanGoesOn
  <1>5. CASE StartFails(p, r) \/ StartPlain(p, r) \/ Launched(p, r)
    <2>1. /\ skipped' = skipped
          /\ \/ started' = started /\ failed'[p] = failed[p] \cup {r}
             \/ failed' = failed /\ started'[p] = started[p] \cup {r}
      BY <1>5 DEF StartFails, StartPlain, Launched, Note, ResultsTyped
    <2>2. \A x \in skipped'[p] : Required(x, targets[p]) \cap (failed'[p] \cup skipped'[p]) # {}
      BY <2>1 DEF PlanOf
    <2>3. Outcome(p)' = Outcome(p) \cup {r}
      BY <2>1 DEF Outcome
    <2> QED
      BY <1>1, <2>2, <2>3, PlanGoesOn
  <1> QED
    BY <1>3, <1>4, <1>5

\* One step of stop(): it skips nothing.
LEMMA StopsPlan ==
  ASSUME TypeOK, NEW p \in Caller, PlanOf(p), NEW r \in Type,
         \/ StopFails(p, r) \/ StopPlain(p, r)
         \/ \E here \in Halting : HaltFailed(p, r, here) \/ HaltDone(p, r, here)
  PROVE  PlanOf(p)'
  <1> ControlTyped /\ ResultsTyped
    BY TypesSplit
  <1>1. pc[p] \notin Starting /\ pc'[p] \notin Starting /\ skipped' = skipped
    BY DEF StopFails, StopPlain, HaltFailed, HaltDone, GoesOn, ControlTyped, Starting, outcomes, Halting
  <1> QED
    BY <1>1 DEF PlanOf

LEMMA PlanStep == TypeOK /\ PlanInv /\ [Next]_vars => PlanInv'
  <1> SUFFICES ASSUME TypeOK, PlanInv, [Next]_vars PROVE PlanInv'
    OBVIOUS
  <1> ControlTyped /\ RuntimesTyped /\ ResultsTyped
    BY TypesSplit
  <1>1. ASSUME NEW p \in Caller, Ask(p) \/ Step(p) PROVE PlanInv'
    <2>1. Alone(p)
      BY <1>1, CommandAlone
    <2>2. \A q \in Type : state[q] # "ABSENT" => state'[q] # "ABSENT"
      BY <2>1 DEF Alone
    <2>3. PlanOf(p)
      BY DEF PlanInv
    <2>4. ASSUME SameWork(p), pc'[p] \in Starting <=> pc[p] \in Starting PROVE PlanOf(p)'
      BY <2>2, <2>3, <2>4, PlanUntouched DEF ResultsTyped
    <2>5. PlanOf(p)'
      <3>1. CASE Ask(p)
        <4>1. SameWork(p) /\ pc[p] \notin Starting /\ pc'[p] \notin Starting
          BY <3>1 DEF Ask, AskStart, AskStop, AskMode, Given, GoesOn, Suspends, SameWork, work,
                      outcomes, ControlTyped, Starting
        <4> QED
          BY <2>4, <4>1
      <3>2. CASE ModeChanged(p) \/ StartRefused(p) \/ StartOpens(p) \/ StopRefused(p)
                 \/ StopCloses(p) \/ Slept(p)
        <4>1. SameWork(p) /\ pc[p] \notin Starting /\ pc'[p] \notin Starting
          BY <3>2 DEF ModeChanged, StartRefused, StartOpens, StopRefused, StopCloses, Slept, Leaves,
                      GoesOn, Suspends, SameWork, work, outcomes, ControlTyped, Starting
        <4> QED
          BY <2>4, <4>1
      <3>3. CASE StartPlans(p)
        <4>1. Known \in SUBSET Type
          BY OrchestratorAssumption DEF Known, ControlTyped
        <4>2. todo'[p] = StartupOrder(Known) /\ targets'[p] = Known /\ skipped'[p] = {}
          <5>1. skipped[p] = {}
            BY <2>3, <3>3 DEF StartPlans, GoesOn, PlanOf, Starting
          <5> QED
            BY <3>3, <5>1 DEF StartPlans, outcomes, ResultsTyped
        <4>3. /\ Range(StartupOrder(Known)) = Targets(Known)
              /\ \A i \in DOMAIN StartupOrder(Known) :
                   \A q \in Dependencies[StartupOrder(Known)[i]] \cap Known :
                     \E j \in 1..(i - 1) : StartupOrder(Known)[j] = q
          BY <4>1, StartupPlan
        <4>4. Known \subseteq Targets(Known)
          BY DEF Targets
        <4>5. \A q \in Known : state'[q] # "ABSENT"
          BY <3>3, <4>1 DEF StartPlans
        <4>6. StartPlan(p)'
          <5> HIDE DEF Known
          <5> QED
            BY <4>2, <4>3, <4>4, <4>5 DEF StartPlan
        <4>7. pc'[p] \in Starting
          BY <3>3 DEF StartPlans, GoesOn, ControlTyped, Starting
        <4> QED
          BY <4>2, <4>6, <4>7 DEF PlanOf
      <3>4. CASE StopPlans(p)
        <4>1. pc[p] \notin Starting /\ pc'[p] \notin Starting /\ skipped' = skipped
          BY <3>4 DEF StopPlans, GoesOn, outcomes, ControlTyped, Starting
        <4> QED
          BY <2>3, <4>1 DEF PlanOf
      <3>5. CASE StartDone(p) \/ StopDone(p)
        <4>1. pc'[p] \notin Starting /\ skipped'[p] = {}
          BY <3>5 DEF StartDone, StopDone, Leaves, Suspends, Forget, ControlTyped, ResultsTyped,
                      Starting
        <4> QED
          BY <4>1 DEF PlanOf
      <3>6. ASSUME NEW r \in Type, StepOn(p, r) PROVE PlanOf(p)'
        <4>1. todo[p] # <<>> /\ r = Head(todo[p])
          BY <3>6 DEF StepOn
        <4>2. CASE \/ StartVoid(p, r) \/ StartSkips(p, r) \/ StartFails(p, r) \/ StartPlain(p, r)
                   \/ Launched(p, r)
          BY <2>2, <2>3, <4>1, <4>2, StartsPlan
        <4>3. CASE \/ StopFails(p, r) \/ StopPlain(p, r)
                   \/ \E here \in Halting :
                        HaltFailed(p, r, here) \/ HaltDone(p, r, here)
          BY <2>3, <4>3, StopsPlan
        <4>4. CASE StartLaunches(p, r)
          <5>1. SameWork(p) /\ pc[p] \in Starting /\ pc'[p] \in Starting
            BY <4>4 DEF StartLaunches, Suspends, SameWork, work, outcomes, ControlTyped, Starting
          <5> QED
            BY <2>4, <5>1
        <4>5. CASE \/ StopHalts(p, r)
                   \/ Awaits(p)
          <5>1. SameWork(p) /\ pc[p] \notin Starting /\ pc'[p] \notin Starting
            BY <4>5 DEF StopHalts, Awaits, Suspends, SameWork, work, outcomes, ControlTyped, Starting
          <5> QED
            BY <2>4, <5>1
        <4> QED
          BY <3>6, <4>2, <4>3, <4>4, <4>5, StepCases
      <3> QED
        BY <1>1, <3>1, <3>2, <3>3, <3>4, <3>5, <3>6 DEF Step
    <2>6. ASSUME NEW q \in Caller \ {p} PROVE PlanOf(q)'
      <3>1. SameWork(q) /\ pc'[q] = pc[q] /\ PlanOf(q) /\ targets[q] \in SUBSET Type
        BY <2>1 DEF Alone, PlanInv, ResultsTyped
      <3> QED
        BY <2>2, <3>1, PlanUntouched
    <2> QED
      BY <2>5, <2>6 DEF PlanInv
  <1>2. ASSUME NEW r \in Type, TaskEnds(r) \/ OnDone(r) PROVE PlanInv'
    <2>1. UNCHANGED <<pc, work>> /\ \A q \in Type : state[q] # "ABSENT" => state'[q] # "ABSENT"
      BY <1>2 DEF TaskEnds, OnDone, Become, RuntimesTyped
    <2>2. ASSUME NEW q \in Caller PROVE PlanOf(q)'
      BY <2>1, PlanUntouched DEF PlanInv, SameWork, work, outcomes, ResultsTyped
    <2> QED
      BY <2>2 DEF PlanInv
  <1>3. CASE BufferFills
    <2>1. ASSUME NEW q \in Caller PROVE PlanOf(q)'
      <3>1. SameWork(q) /\ UNCHANGED state
        BY <1>3, BufferHolds DEF SameWork, work, outcomes, runtimeVars
      <3>2. pc'[q] \in Starting <=> pc[q] \in Starting
        BY <1>3, BufferHolds DEF Starting
      <3> QED
        BY <3>1, <3>2, PlanUntouched DEF PlanInv, ResultsTyped
    <2> QED
      BY <2>1 DEF PlanInv
  <1>4. CASE UNCHANGED vars
    BY <1>4 DEF vars, runtimeVars, work, outcomes, PlanInv, PlanOf, StartPlan, Outcome
  <1> QED
    BY <1>1, <1>2, <1>3, <1>4 DEF Next, LoopRuns

\* However commands overlap, a start under way has its targets, each after its
\* dependencies, before it or dealt with.
THEOREM PlansHold == Spec => []PlanInv
  <1>1. Init => PlanInv
    BY DEF Init, PlanInv, PlanOf, Starting
  <1> QED
    BY <1>1, PlanStep, TypesHold, PTL DEF Spec

\* start() skips a runtime only for a dependency that has failed or was skipped:
\* never because of the order in which get_startup_order puts them.
THEOREM SkippedForCauseAlways == Spec => []SkippedForCause
  <1>1. PlanInv => SkippedForCause
    BY DEF PlanInv, PlanOf, SkippedForCause
  <1> QED
    BY <1>1, PlansHold, PTL

\* A start in which no runtime fails skips none: the skipped ones would each wait for
\* another of them, and the dependencies have no cycle.
THEOREM OnlyFailuresSkip == Spec => [](\A p \in Caller : failed[p] = {} => skipped[p] = {})
  <1>1. TypeOK /\ PlanInv => \A p \in Caller : failed[p] = {} => skipped[p] = {}
    <2> SUFFICES ASSUME TypeOK, PlanInv, NEW p \in Caller, failed[p] = {}, skipped[p] # {}
                 PROVE  FALSE
      OBVIOUS
    <2>1. skipped[p] \in SUBSET Type
      BY TypesSplit DEF ResultsTyped
    <2>2. PICK r \in skipped[p] : Dependencies[r] \cap skipped[p] = {}
      BY <2>1, GraphAssumption
    <2>3. Required(r, targets[p]) \cap skipped[p] # {}
      BY DEF PlanInv, PlanOf
    <2> QED
      BY <2>2, <2>3 DEF Required
  <1> QED
    BY <1>1, TypesHold, PlansHold, PTL

\* start() never loses a runtime of its mode: it is to come, started, failed or
\* skipped.
THEOREM StartAccountsForAllAlways == Spec => []StartAccountsForAll
  <1>1. PlanInv => StartAccountsForAll
    BY DEF PlanInv, PlanOf, StartPlan, Outcome, Starting, StartAccountsForAll
  <1> QED
    BY <1>1, PlansHold, PTL
-----------------------------------------------------------------------------
(* Whose turn it is, and what a stop has before it.                        *)

\* A command that is about to start or to stop its next type has not suspended.
TurnInv == \A p \in Caller : pc[p] \in {"starting", "stopping"} => loop = p

\* Of the types still to stop, none comes before one that depends on it.
StopPlan(p) ==
  pc[p] \in Stopping =>
    \A i, j \in DOMAIN todo[p] : todo[p][i] \in Dependencies[todo[p][j]] => j < i

StopPlanInv == \A p \in Caller : StopPlan(p)

\* Only the command that runs, or one that finds the event loop free, moves; it then
\* runs, or is suspended with no type at hand.
Turns(p) ==
  /\ loop \in {p, Free}
  /\ \E to \in Stages :
       /\ pc' = [pc EXCEPT ![p] = to]
       /\ loop' = p \/ (loop' = Free /\ to \notin {"starting", "stopping"})

LEMMA CommandTurns ==
  ASSUME NEW p \in Caller, Ask(p) \/ Step(p)
  PROVE  Turns(p)
  <1>1. CASE Ask(p)
    BY <1>1 DEF Ask, AskStart, AskStop, AskMode, Given, GoesOn, Suspends, Turns, Stages
  <1>2. CASE ModeChanged(p) \/ StartRefused(p) \/ StartOpens(p) \/ StartPlans(p) \/ StartDone(p)
    BY <1>2 DEF ModeChanged, StartRefused, StartOpens, StartPlans, StartDone, GoesOn, Suspends,
                Turns, Stages
  <1>3. CASE StopRefused(p) \/ StopCloses(p) \/ StopPlans(p) \/ StopDone(p) \/ Slept(p)
    BY <1>3 DEF StopRefused, StopCloses, StopPlans, StopDone, Slept, Leaves, GoesOn, Suspends,
                Turns, Stages
  <1>4. ASSUME NEW r \in Type, StepOn(p, r) PROVE Turns(p)
    <2>1. CASE StartVoid(p, r) \/ StartSkips(p, r) \/ StartFails(p, r) \/ StartPlain(p, r)
               \/ StartLaunches(p, r) \/ Launched(p, r)
      BY <2>1 DEF StartVoid, StartSkips, StartFails, StartPlain, StartLaunches, Launched, GoesOn,
                  Suspends, Turns, Stages
    <2>2. CASE StopFails(p, r) \/ StopPlain(p, r) \/ StopHalts(p, r)
      BY <2>2 DEF StopFails, StopPlain, StopHalts, GoesOn, Suspends, Turns, Stages
    <2>3. CASE \E here \in Halting : HaltFailed(p, r, here) \/ HaltDone(p, r, here)
      BY <2>3 DEF HaltFailed, HaltDone, GoesOn, Turns, Stages, Halting
    <2>4. CASE Awaits(p)
      BY <2>4 DEF Awaits, Suspends, Turns, Stages
    <2> QED
      BY <1>4, <2>1, <2>2, <2>3, <2>4, StepCases
  <1> QED
    BY <1>1, <1>2, <1>3, <1>4 DEF Step

LEMMA TurnStep == TypeOK /\ TurnInv /\ [Next]_vars => TurnInv'
  <1> SUFFICES ASSUME TypeOK, TurnInv, [Next]_vars PROVE TurnInv'
    OBVIOUS
  <1> ControlTyped
    BY TypesSplit
  <1>1. ASSUME NEW p \in Caller, Turns(p) PROVE TurnInv'
    <2>1. ASSUME NEW q \in Caller \ {p}, pc'[q] \in {"starting", "stopping"} PROVE FALSE
      <3>1. pc[q] = pc'[q] /\ loop = q
        BY <1>1, <2>1 DEF Turns, ControlTyped, TurnInv
      <3> QED
        BY <1>1, <3>1, OrchestratorAssumption DEF Turns
    <2>2. pc'[p] \in {"starting", "stopping"} => loop' = p
      BY <1>1 DEF Turns, ControlTyped
    <2> QED
      BY <2>1, <2>2 DEF TurnInv
  <1>2. ASSUME NEW r \in Type, TaskEnds(r) \/ OnDone(r) PROVE TurnInv'
    BY <1>2 DEF TaskEnds, OnDone, TurnInv
  <1>3. CASE BufferFills
    BY <1>3, BufferHolds DEF TurnInv
  <1>4. CASE UNCHANGED vars
    BY <1>4 DEF vars, TurnInv
  <1> QED
    BY <1>1, <1>2, <1>3, <1>4, CommandTurns DEF Next, LoopRuns

LEMMA StopPlanGoesOn ==
  ASSUME TypeOK, NEW p \in Caller, StopPlan(p), pc[p] \in Stopping, todo[p] # <<>>, Drop(p)
  PROVE  StopPlan(p)'
  <1> ResultsTyped
    BY TypesSplit
  <1>1. todo'[p] = Tail(todo[p]) /\ todo[p] \in Seq(Type)
    BY DEF Drop, ResultsTyped
  <1>2. ASSUME NEW i \in DOMAIN todo'[p], NEW j \in DOMAIN todo'[p],
               todo'[p][i] \in Dependencies[todo'[p][j]]
        PROVE  j < i
    <2>1. /\ i + 1 \in DOMAIN todo[p] /\ todo'[p][i] = todo[p][i + 1] /\ i \in Nat
          /\ j + 1 \in DOMAIN todo[p] /\ todo'[p][j] = todo[p][j + 1] /\ j \in Nat
      BY <1>1, TailOf
    <2>2. j + 1 < i + 1
      BY <1>2, <2>1 DEF StopPlan
    <2> QED
      BY <2>1, <2>2
  <1> QED
    BY <1>2 DEF StopPlan

LEMMA StopPlanStep == TypeOK /\ StopPlanInv /\ [Next]_vars => StopPlanInv'
  <1> SUFFICES ASSUME TypeOK, StopPlanInv, [Next]_vars PROVE StopPlanInv'
    OBVIOUS
  <1> ControlTyped /\ RuntimesTyped /\ ResultsTyped
    BY TypesSplit
  <1>1. ASSUME NEW p \in Caller, Ask(p) \/ Step(p) PROVE StopPlanInv'
    <2>1. ASSUME NEW q \in Caller \ {p} PROVE StopPlan(q)'
      <3>1. Alone(p)
        BY <1>1, CommandAlone
      <3>2. pc'[q] = pc[q] /\ todo'[q] = todo[q] /\ StopPlan(q)
        BY <3>1 DEF Alone, SameWork, StopPlanInv
      <3> QED
        BY <3>2 DEF StopPlan
    <2>2. StopPlan(p)
      BY DEF StopPlanInv
    <2>3. StopPlan(p)'
      <3>1. CASE StopPlans(p)
        <4> DEFINE known == {r \in ModeTypes[mode] : state[r] # "ABSENT"}
        <4>1. known \in SUBSET Type
          BY OrchestratorAssumption DEF ControlTyped
        <4>2. todo'[p] = ShutdownOrder(known)
          BY <3>1 DEF StopPlans, ResultsTyped
        <4> HIDE DEF known
        <4> QED
          BY <4>1, <4>2, ShutdownPlan DEF StopPlan
      <3>2. CASE \/ Ask(p) \/ ModeChanged(p) \/ StartRefused(p) \/ StartOpens(p) \/ StartPlans(p)
                 \/ StartDone(p) \/ StopRefused(p) \/ StopCloses(p) \/ StopDone(p) \/ Slept(p)
        <4>1. pc'[p] \notin Stopping
          <5>1. CASE Ask(p)
            BY <5>1 DEF Ask, AskStart, AskStop, AskMode, GoesOn, Suspends, ControlTyped, Stopping
          <5>2. CASE ModeChanged(p) \/ StartRefused(p) \/ StartOpens(p) \/ StartPlans(p)
                     \/ StartDone(p)
            BY <5>2 DEF ModeChanged, StartRefused, StartOpens, StartPlans, StartDone, GoesOn,
                        Suspends, ControlTyped, Stopping
          <5>3. CASE StopRefused(p) \/ StopCloses(p) \/ StopDone(p) \/ Slept(p)
            BY <5>3 DEF StopRefused, StopCloses, StopDone, Slept, Leaves, GoesOn, Suspends,
                        ControlTyped, Stopping
          <5> QED
            BY <3>2, <5>1, <5>2, <5>3
        <4> QED
          BY <4>1 DEF StopPlan
      <3>3. ASSUME NEW r \in Type, StepOn(p, r) PROVE StopPlan(p)'
        <4>1. todo[p] # <<>>
          BY <3>3 DEF StepOn
        <4>2. CASE \/ StartVoid(p, r) \/ StartSkips(p, r) \/ StartFails(p, r) \/ StartPlain(p, r)
                   \/ StartLaunches(p, r) \/ Launched(p, r)
          <5>1. pc'[p] \notin Stopping
            BY <4>2 DEF StartVoid, StartSkips, StartFails, StartPlain, StartLaunches, Launched,
                        GoesOn, Suspends, ControlTyped, Stopping
          <5> QED
            BY <5>1 DEF StopPlan
        <4>3. CASE \/ StopFails(p, r) \/ StopPlain(p, r)
                   \/ \E here \in Halting :
                        HaltFailed(p, r, here) \/ HaltDone(p, r, here)
          <5>1. pc[p] \in Stopping /\ Drop(p)
            BY <4>3 DEF StopFails, StopPlain, HaltFailed, HaltDone, GoesOn, Stopping, Halting
          <5> QED
            BY <2>2, <4>1, <5>1, StopPlanGoesOn
        <4>4. CASE \/ StopHalts(p, r)
                   \/ Awaits(p)
          <5>1. pc[p] \in Stopping /\ todo' = todo
            BY <4>4 DEF StopHalts, Awaits, Suspends, work, Stopping
          <5> QED
            BY <2>2, <5>1 DEF StopPlan
        <4> QED
          BY <3>3, <4>2, <4>3, <4>4, StepCases
      <3> QED
        BY <1>1, <3>1, <3>2, <3>3 DEF Step
    <2> QED
      BY <2>1, <2>3 DEF StopPlanInv
  <1>2. ASSUME NEW r \in Type, TaskEnds(r) \/ OnDone(r) PROVE StopPlanInv'
    BY <1>2 DEF TaskEnds, OnDone, work, StopPlanInv, StopPlan
  <1>3. CASE BufferFills
    BY <1>3, BufferHolds DEF work, StopPlanInv, StopPlan, Stopping
  <1>4. CASE UNCHANGED vars
    BY <1>4 DEF vars, work, StopPlanInv, StopPlan
  <1> QED
    BY <1>1, <1>2, <1>3, <1>4 DEF Next, LoopRuns
-----------------------------------------------------------------------------
(* Runtimes on their way up or down, and what has been registered.         *)

HeldInv ==
  \A r \in Type :
    /\ state[r] = "STARTING" => \E p \in Caller : Busy(p, {"launched"}, r)
    /\ state[r] = "STOPPING" => \E p \in Caller : Busy(p, Halting, r)

\* The task of a runtime that has failed is live only when its instance.stop() raised,
\* or when a command is about to look at its launch.
HaltOf(r) ==
  /\ ended[r] # "none" => live[r] = 0
  /\ state[r] = "FAILED" /\ live[r] > 0 =>
       r \in unhalted \/ \E p \in Caller : Busy(p, {"launched"}, r)

HaltInv == \A r \in Type : HaltOf(r)

BuiltInv == \A r \in Type : state[r] # "ABSENT" \/ due[r] # "none" => r \in Buildable

\* A runtime that was STARTING or STOPPING, and is, has the same command to wait for
\* it if that is not the one that takes the step.
LEMMA OthersHold ==
  ASSUME TypeOK, HeldInv, NEW p \in Caller, Alone(p), NEW r \in Type, state'[r] = state[r],
         ~Busy(p, Holding, r)
  PROVE  /\ state'[r] = "STARTING" => \E c \in Caller : Busy(c, {"launched"}, r)'
         /\ state'[r] = "STOPPING" => \E c \in Caller : Busy(c, Halting, r)'
  <1>1. \A c \in Caller \ {p} : pc'[c] = pc[c] /\ todo'[c] = todo[c]
    BY DEF Alone, SameWork
  <1>2. CASE state'[r] = "STARTING"
    <2>1. PICK c \in Caller : Busy(c, {"launched"}, r)
      BY <1>2 DEF HeldInv
    <2>2. c # p
      BY <2>1 DEF Busy, Holding
    <2> QED
      BY <1>1, <1>2, <2>1, <2>2 DEF Busy
  <1>3. CASE state'[r] = "STOPPING"
    <2>1. PICK c \in Caller : Busy(c, Halting, r)
      BY <1>3 DEF HeldInv
    <2>2. c # p
      BY <2>1 DEF Busy, Halting, Holding
    <2> QED
      BY <1>1, <1>3, <2>1, <2>2 DEF Busy
  <1> QED
    BY <1>2, <1>3

LEMMA CommandHeld ==
  ASSUME TypeOK, HeldInv, NEW p \in Caller, Ask(p) \/ Step(p)
  PROVE  HeldInv'
  <1> ControlTyped /\ RuntimesTyped /\ ResultsTyped
    BY TypesSplit
  <1> DEFINE Way == {"STARTING", "STOPPING"}
  <1>1. Alone(p)
    BY CommandAlone
  <1>2. ASSUME pc[p] \notin Holding,
               \A r \in Type : state'[r] \in Way => state'[r] = state[r]
        PROVE  HeldInv'
    BY <1>1, <1>2, OthersHold DEF HeldInv, Busy
  <1>3. CASE \/ Ask(p) \/ ModeChanged(p) \/ StartRefused(p) \/ StartOpens(p) \/ StartDone(p)
             \/ StopRefused(p) \/ StopCloses(p) \/ StopPlans(p) \/ StopDone(p) \/ Slept(p)
    <2>1. pc[p] \notin Holding /\ UNCHANGED state
      <3>1. CASE Ask(p)
        BY <3>1 DEF Ask, AskStart, AskStop, AskMode, Given, GoesOn, Suspends, runtimeVars, Holding
      <3>2. CASE ModeChanged(p) \/ StartRefused(p) \/ StartOpens(p) \/ StartDone(p)
        BY <3>2 DEF ModeChanged, StartRefused, StartOpens, StartDone, GoesOn, Suspends, runtimeVars,
                    Holding
      <3>3. CASE StopRefused(p) \/ StopCloses(p) \/ StopPlans(p) \/ StopDone(p) \/ Slept(p)
        BY <3>3 DEF StopRefused, StopCloses, StopPlans, StopDone, Slept, Leaves, GoesOn, Suspends,
                    runtimeVars, Holding
      <3> QED
        BY <1>3, <3>1, <3>2, <3>3
    <2> QED
      BY <1>2, <2>1
  <1>4. CASE StartPlans(p)
    <2>1. pc[p] \notin Holding
      BY <1>4 DEF StartPlans, GoesOn, Holding
    <2>2. \A r \in Type : state'[r] \in Way => state'[r] = state[r]
      BY <1>4 DEF StartPlans
    <2> QED
      BY <1>2, <2>1, <2>2
  <1>5. ASSUME NEW r \in Type, StepOn(p, r) PROVE HeldInv'
    <2>1. r = Head(todo[p])
      BY <1>5 DEF StepOn
    <2>2. CASE StartVoid(p, r) \/ StartSkips(p, r) \/ StartFails(p, r) \/ StopFails(p, r)
      <3>1. pc[p] \notin Holding /\ UNCHANGED state
        BY <2>2 DEF StartVoid, StartSkips, StartFails, StopFails, GoesOn, runtimeVars, Holding
      <3> QED
        BY <1>2, <3>1
    <2>3. CASE StartPlain(p, r) \/ StopPlain(p, r)
      <3>1. pc[p] \notin Holding
        BY <2>3 DEF StartPlain, StopPlain, GoesOn, Holding
      <3>2. \A q \in Type : state'[q] \in Way => state'[q] = state[q]
        BY <2>3 DEF StartPlain, StopPlain, Become, RuntimesTyped
      <3> QED
        BY <1>2, <3>1, <3>2
    <2>4. CASE StartLaunches(p, r)
      <3>1. Busy(p, {"launched"}, r)' /\ state'[r] = "STARTING"
            /\ \A q \in Type \ {r} : state'[q] = state[q]
        BY <2>1, <2>4 DEF StartLaunches, Suspends, Become, Busy, work, ControlTyped, RuntimesTyped
      <3>2. pc[p] \notin Holding
        BY <2>4 DEF StartLaunches, Suspends, Holding
      <3>3. \A q \in Type : ~Busy(p, Holding, q)
        BY <3>2 DEF Busy
      <3> QED
        BY <1>1, <3>1, <3>3, OthersHold DEF HeldInv
    <2>5. CASE StopHalts(p, r)
      <3>1. Busy(p, Halting, r)' /\ state'[r] = "STOPPING"
            /\ \A q \in Type \ {r} : state'[q] = state[q]
        BY <2>1, <2>5 DEF StopHalts, Suspends, Become, Busy, work, ControlTyped, RuntimesTyped,
                           Halting
      <3>2. pc[p] \notin Holding
        BY <2>5 DEF StopHalts, Suspends, Holding
      <3>3. \A q \in Type : ~Busy(p, Holding, q)
        BY <3>2 DEF Busy
      <3> QED
        BY <1>1, <3>1, <3>3, OthersHold DEF HeldInv
    <2>6. CASE \/ Launched(p, r)
               \/ \E here \in Halting :
                    HaltFailed(p, r, here) \/ HaltDone(p, r, here)
      <3>1. state'[r] \notin Way
        BY <2>6 DEF Launched, HaltFailed, HaltDone, Become, RuntimesTyped
      <3>2. \A q \in Type \ {r} : state'[q] = state[q]
        BY <2>6 DEF Launched, HaltFailed, HaltDone, Become, RuntimesTyped
      <3>3. \A q \in Type \ {r} : ~Busy(p, Holding, q)
        BY <2>1 DEF Busy
      <3> QED
        BY <1>1, <3>1, <3>2, <3>3, OthersHold DEF HeldInv
    <2>7. CASE Awaits(p)
      <3>1. UNCHANGED <<state, todo>> /\ pc[p] # "launched" /\ pc'[p] \in Halting
        BY <2>7 DEF Awaits, Suspends, runtimeVars, work, ControlTyped, Halting
      <3>2. \A q \in Type \ {r} : ~Busy(p, Holding, q)
        BY <2>1 DEF Busy
      <3>3. Busy(p, Halting, r)'
        BY <2>1, <3>1 DEF Busy
      <3>4. state[r] # "STARTING" \/ \E c \in Caller \ {p} : Busy(c, {"launched"}, r)
        BY <3>1 DEF HeldInv, Busy
      <3>5. state'[r] = "STARTING" => \E c \in Caller : Busy(c, {"launched"}, r)'
        BY <1>1, <3>1, <3>4 DEF Alone, SameWork, Busy
      <3> QED
        BY <1>1, <3>1, <3>2, <3>3, <3>5, OthersHold DEF HeldInv
    <2> QED
      BY <1>5, <2>2, <2>3, <2>4, <2>5, <2>6, <2>7, StepCases
  <1> QED
    BY <1>3, <1>4, <1>5 DEF Step

LEMMA HeldStep == TypeOK /\ HeldInv /\ [Next]_vars => HeldInv'
  <1> SUFFICES ASSUME TypeOK, HeldInv, [Next]_vars PROVE HeldInv'
    OBVIOUS
  <1>1. ASSUME NEW r \in Type, TaskEnds(r) \/ OnDone(r) PROVE HeldInv'
    <2>1. UNCHANGED <<pc, todo>>
      BY <1>1 DEF TaskEnds, OnDone, work
    <2>2. \A q \in Type : state'[q] \in {"STARTING", "STOPPING"} => state'[q] = state[q]
      BY <1>1 DEF TaskEnds, OnDone, Become, TypeOK
    <2> QED
      BY <2>1, <2>2 DEF HeldInv, Busy
  <1>2. CASE BufferFills
    BY <1>2, BufferHolds DEF runtimeVars, work, HeldInv, Busy, Halting
  <1>3. CASE UNCHANGED vars
    BY <1>3 DEF vars, runtimeVars, work, HeldInv, Busy
  <1> QED
    BY <1>1, <1>2, <1>3, CommandHeld DEF Next, LoopRuns

\* A runtime that does not fail now, in a step of a command that did not launch it.
LEMMA HaltKept ==
  ASSUME HaltInv, NEW p \in Caller, Alone(p), NEW r \in Type, ~Busy(p, {"launched"}, r),
         state'[r] = "FAILED" => state[r] = "FAILED", live'[r] = live[r], ended'[r] = ended[r],
         unhalted \subseteq unhalted'
  PROVE  HaltOf(r)'
  <1>1. ASSUME NEW c \in Caller, Busy(c, {"launched"}, r) PROVE Busy(c, {"launched"}, r)'
    BY <1>1 DEF Alone, SameWork, Busy
  <1> QED
    BY <1>1 DEF HaltInv, HaltOf

LEMMA CommandHalts ==
  ASSUME TypeOK, HaltInv, NEW p \in Caller, Ask(p) \/ Step(p)
  PROVE  HaltInv'
  <1> RuntimesTyped
    BY TypesSplit
  <1>1. Alone(p)
    BY CommandAlone
  <1>2. ASSUME pc[p] # "launched", UNCHANGED <<live, ended, unhalted>>,
               \A r \in Type : state'[r] = "FAILED" => state[r] = "FAILED"
        PROVE  HaltInv'
    BY <1>1, <1>2, HaltKept DEF HaltInv, Busy
  <1>3. CASE Ask(p)
    <2>1. pc[p] # "launched" /\ UNCHANGED <<state, live, ended, unhalted>>
      BY <1>3 DEF Ask, AskStart, AskStop, AskMode, Given, runtimeVars
    <2> QED
      BY <1>2, <2>1
  <1>4. CASE \/ ModeChanged(p) \/ StartRefused(p) \/ StartOpens(p) \/ StartPlans(p)
             \/ StartDone(p)
    <2>1. pc[p] # "launched" /\ UNCHANGED <<live, ended, unhalted>>
      BY <1>4 DEF ModeChanged, StartRefused, StartOpens, StartPlans, StartDone, GoesOn, Suspends,
                  runtimeVars, history
    <2>2. \A r \in Type : state'[r] = "FAILED" => state[r] = "FAILED"
      BY <1>4 DEF ModeChanged, StartRefused, StartOpens, StartPlans, StartDone, runtimeVars
    <2> QED
      BY <1>2, <2>1, <2>2
  <1>5. CASE StopRefused(p) \/ StopCloses(p) \/ StopPlans(p) \/ StopDone(p) \/ Slept(p)
    <2>1. pc[p] # "launched" /\ UNCHANGED <<state, live, ended, unhalted>>
      BY <1>5 DEF StopRefused, StopCloses, StopPlans, StopDone, Slept, Leaves, GoesOn, Suspends,
                  runtimeVars, history
    <2> QED
      BY <1>2, <2>1
  <1>6. ASSUME NEW r \in Type, StepOn(p, r) PROVE HaltInv'
    <2>1. \A q \in Type \ {r} : ~Busy(p, {"launched"}, q)
      BY <1>6 DEF StepOn, Busy
    <2>2. ASSUME HaltOf(r)', unhalted \subseteq unhalted',
                 \A q \in Type \ {r} : /\ state'[q] = state[q]
                                      /\ live'[q] = live[q] /\ ended'[q] = ended[q]
          PROVE  HaltInv'
      BY <1>1, <2>1, <2>2, HaltKept DEF HaltInv
    <2>3. CASE StartVoid(p, r) \/ StartSkips(p, r) \/ StartFails(p, r) \/ StopFails(p, r)
               \/ Awaits(p)
      <3>1. pc[p] # "launched" /\ UNCHANGED <<state, live, ended, unhalted>>
        BY <2>3 DEF StartVoid, StartSkips, StartFails, StopFails, Awaits, GoesOn, Suspends,
                    runtimeVars, history
      <3> QED
        BY <1>2, <3>1
    <2>4. CASE StartPlain(p, r) \/ StopPlain(p, r) \/ StopHalts(p, r)
               \/ \E here \in Halting : HaltDone(p, r, here)
      <3>1. pc[p] # "launched" /\ UNCHANGED <<live, ended, unhalted>>
        BY <2>4 DEF StartPlain, StopPlain, StopHalts, HaltDone, GoesOn, Suspends, history, Halting
      <3>2. \A q \in Type : state'[q] = "FAILED" => state[q] = "FAILED"
        BY <2>4 DEF StartPlain, StopPlain, StopHalts, HaltDone, Become, RuntimesTyped
      <3> QED
        BY <1>2, <3>1, <3>2
    <2>5. CASE StartLaunches(p, r)
      <3>1. /\ \A q \in Type \ {r} : /\ state'[q] = state[q]
                                     /\ live'[q] = live[q] /\ ended'[q] = ended[q]
            /\ state'[r] = "STARTING" /\ ended'[r] = "none" /\ UNCHANGED unhalted
        BY <2>5 DEF StartLaunches, Become, history, RuntimesTyped
      <3> QED
        BY <2>2, <3>1 DEF HaltOf
    <2>6. CASE Launched(p, r)
      <3>1. /\ \A q \in Type \ {r} : state'[q] = state[q]
            /\ UNCHANGED <<live, ended, unhalted>>
            /\ state'[r] = "FAILED" => ended[r] = "raised"
        BY <2>6 DEF Launched, Become, history, RuntimesTyped
      <3>2. ended[r] # "none" => live[r] = 0
        BY DEF HaltInv, HaltOf
      <3>3. HaltOf(r)'
        BY <3>1, <3>2 DEF HaltOf, RuntimesTyped
      <3> QED
        BY <2>2, <3>1, <3>3
    <2>7. ASSUME NEW here, HaltFailed(p, r, here), here = "halting" \/ live[r] = 0
          PROVE  HaltInv'
      <3>1. /\ \A q \in Type \ {r} : state'[q] = state[q]
            /\ UNCHANGED <<live, ended>> /\ unhalted \subseteq unhalted'
            /\ r \in unhalted' \/ live[r] = 0
        BY <2>7 DEF HaltFailed, Become, RuntimesTyped
      <3>2. ended[r] # "none" => live[r] = 0
        BY DEF HaltInv, HaltOf
      <3>3. HaltOf(r)'
        BY <3>1, <3>2 DEF HaltOf, RuntimesTyped
      <3> QED
        BY <2>2, <3>1, <3>3
    <2> QED
      BY <1>6, <2>3, <2>4, <2>5, <2>6, <2>7 DEF StepOn, Halted, Drained, DrainTimeout, Awaits, Halting
  <1> QED
    BY <1>3, <1>4, <1>5, <1>6 DEF Step

LEMMA HaltStep == TypeOK /\ LifecycleInv /\ HeldInv /\ HaltInv /\ [Next]_vars => HaltInv'
  <1> SUFFICES ASSUME TypeOK, LifecycleInv, HeldInv, HaltInv, [Next]_vars PROVE HaltInv'
    OBVIOUS
  <1> RuntimesTyped
    BY TypesSplit
  <1>1. ASSUME NEW r \in Type, TaskEnds(r) PROVE HaltInv'
    <2>1. UNCHANGED <<state, pc, todo, unhalted>>
      BY <1>1 DEF TaskEnds, work, history
    <2>2. live'[r] = 0
      BY <1>1 DEF TaskEnds, LifecycleInv, TaskOf, RuntimesTyped
    <2>3. \A q \in Type \ {r} : live'[q] = live[q] /\ ended'[q] = ended[q]
      BY <1>1 DEF TaskEnds, RuntimesTyped
    <2> QED
      BY <2>1, <2>2, <2>3 DEF HaltInv, HaltOf, Busy
  <1>2. ASSUME NEW r \in Type, OnDone(r) PROVE HaltInv'
    <2>1. UNCHANGED <<live, ended, pc, todo, unhalted>>
      BY <1>2 DEF OnDone, work, history
    <2>2. \A q \in Type \ {r} : state'[q] = state[q]
      BY <1>2 DEF OnDone, Become, RuntimesTyped
    <2>3. state'[r] = "FAILED" /\ live[r] > 0 => state[r] \in {"FAILED", "STARTING"}
      <3>1. due[r] # "none" /\ (state'[r] = "FAILED" => state[r] \notin {"STOPPING", "STOPPED"})
        BY <1>2 DEF OnDone, RuntimesTyped
      <3>2. live[r] > 0 => state[r] \in {"STARTING", "STOPPING", "FAILED"}
        BY <3>1 DEF LifecycleInv, TaskOf
      <3> QED
        BY <3>1, <3>2
    <2>4. HaltOf(r)'
      BY <2>1, <2>3 DEF HaltInv, HaltOf, HeldInv, Busy
    <2> QED
      BY <2>1, <2>2, <2>4 DEF HaltInv, HaltOf, Busy
  <1>3. CASE BufferFills
    BY <1>3, BufferHolds DEF runtimeVars, work, history, HaltInv, HaltOf, Busy
  <1>4. CASE UNCHANGED vars
    BY <1>4 DEF vars, runtimeVars, work, history, HaltInv, HaltOf, Busy
  <1> QED
    BY <1>1, <1>2, <1>3, <1>4, CommandHalts DEF Next, LoopRuns

LEMMA BuiltStep == TypeOK /\ LifecycleInv /\ BuiltInv /\ [Next]_vars => BuiltInv'
  <1> SUFFICES ASSUME TypeOK, LifecycleInv, BuiltInv, [Next]_vars PROVE BuiltInv'
    OBVIOUS
  <1> RuntimesTyped
    BY TypesSplit
  <1>1. ASSUME NEW p \in Caller, Ask(p) \/ Step(p), NEW q \in Type, state'[q] # "ABSENT"
        PROVE  state[q] # "ABSENT" \/ q \in Buildable
    <2>1. CASE \/ Ask(p) \/ ModeChanged(p) \/ StartRefused(p) \/ StartOpens(p) \/ StartDone(p)
               \/ StopRefused(p) \/ StopCloses(p) \/ StopPlans(p) \/ StopDone(p) \/ Slept(p)
      BY <1>1, <2>1 DEF Ask, AskStart, AskStop, AskMode, Given, ModeChanged, StartRefused,
                        StartOpens, StartDone, StopRefused, StopCloses, StopPlans, StopDone, Slept,
                        runtimeVars
    <2>2. CASE StartPlans(p)
      BY <1>1, <2>2 DEF StartPlans, Known
    <2>3. ASSUME NEW r \in Type, StepOn(p, r) PROVE state[q] # "ABSENT" \/ q \in Buildable
      <3>1. CASE \/ StartVoid(p, r) \/ StartSkips(p, r) \/ StartFails(p, r) \/ StopFails(p, r)
                 \/ UNCHANGED runtimeVars
        BY <1>1, <3>1 DEF StartVoid, StartSkips, StartFails, StopFails, runtimeVars
      <3>2. CASE StartPlain(p, r) \/ StartLaunches(p, r)
        BY <1>1, <3>2 DEF StartPlain, StartLaunches, Become, RuntimesTyped
      <3>3. CASE StopPlain(p, r) \/ StopHalts(p, r)
        BY <1>1, <3>3 DEF StopPlain, StopHalts, Become, RuntimesTyped
      <3>4. CASE \/ Launched(p, r)
                 \/ \E here \in Halting : HaltFailed(p, r, here) \/ HaltDone(p, r, here)
        <4>1. Busy(p, {"launched"}, r) \/ Busy(p, Halting, r)
          BY <2>3, <3>4 DEF StepOn, Launched, HaltFailed, HaltDone, GoesOn, Busy
        <4>2. state[r] # "ABSENT"
          BY <4>1 DEF LifecycleInv, AloneWith, Halting
        <4> QED
          BY <1>1, <3>4, <4>2 DEF Launched, HaltFailed, HaltDone, Become, RuntimesTyped
      <3> QED
        BY <2>3, <3>1, <3>2, <3>3, <3>4, StepCases DEF Awaits
    <2> QED
      BY <1>1, <2>1, <2>2, <2>3 DEF Step
  <1>2. ASSUME NEW p \in Caller, Ask(p) \/ Step(p) PROVE UNCHANGED due
    <2>1. CASE \/ Ask(p) \/ ModeChanged(p) \/ StartRefused(p) \/ StartOpens(p) \/ StartPlans(p)
               \/ StartDone(p) \/ StopRefused(p) \/ StopCloses(p) \/ StopPlans(p) \/ StopDone(p)
               \/ Slept(p)
      BY <2>1 DEF Ask, AskStart, AskStop, AskMode, Given, ModeChanged, StartRefused, StartOpens,
                  StartPlans, StartDone, StopRefused, StopCloses, StopPlans, StopDone, Slept,
                  runtimeVars
    <2>2. ASSUME NEW r \in Type, StepOn(p, r) PROVE UNCHANGED due
      BY <2>2, StepCases
              DEF StartVoid, StartSkips, StartFails, StartPlain, StartLaunches, Launched,
                  StopFails, StopPlain, StopHalts, Awaits, HaltFailed, HaltDone, runtimeVars
    <2> QED
      BY <1>2, <2>1, <2>2 DEF Step
  <1>3. ASSUME NEW r \in Type, TaskEnds(r) \/ OnDone(r) PROVE BuiltInv'
    <2>1. state[r] # "ABSENT" \/ due[r] # "none"
      BY <1>3 DEF TaskEnds, OnDone, LifecycleInv, TaskOf
    <2>2. \A q \in Type \ {r} : state'[q] = state[q] /\ due'[q] = due[q]
      BY <1>3 DEF TaskEnds, OnDone, Become, RuntimesTyped
    <2> QED
      BY <2>1, <2>2 DEF BuiltInv
  <1>4. CASE UNCHANGED vars \/ BufferFills
    BY <1>4, BufferHolds DEF vars, runtimeVars, BuiltInv
  <1> QED
    BY <1>1, <1>2, <1>3, <1>4 DEF Next, LoopRuns, BuiltInv
-----------------------------------------------------------------------------
(* Commands that did not overlap.                                          *)

\* A type a start of this mode may start: one of the mode's, or any at all when no
\* runtime of the mode can be built, for no target stands for every type.
Wanted(r) == r \in ModeTypes[mode] \/ ModeTypes[mode] \cap Buildable = {}

SerialStart(p) ==
  /\ running
  /\ \A i, j \in DOMAIN todo[p] : todo[p][i] = todo[p][j] => i = j
  /\ \A r \in Range(todo[p]) : Wanted(r) /\ (r \notin left => state[r] # "RUNNING")
  /\ pc[p] = "launched" => tracked[Head(todo[p])] = "STARTING"

SerialStop(p) ==
  \A r \in Type : state[r] = "RUNNING" /\ (r \notin left \/ r \in targets[p]) => r \in Range(todo[p])

SerialOf(p) ==
  /\ pc[p] = "opened" => ~running
  /\ pc[p] \in Starting => SerialStart(p)
  /\ pc[p] \in Stopping => SerialStop(p)

RunningKnown ==
  \A r \in Type \ left : state[r] = "RUNNING" => running /\ tracked[r] = "RUNNING" /\ Wanted(r)

OneAtATime == \A p, q \in Caller : pc[p] # "idle" /\ pc[q] # "idle" => p = q

SerialInv == ~overlapped => OneAtATime /\ RunningKnown /\ \A p \in Caller : SerialOf(p)

\* It is enough to look at the command that takes the step.
LEMMA SerialFromOne ==
  ASSUME TypeOK, SerialInv, ~overlapped, NEW p \in Caller, pc[p] # "idle", Alone(p),
         RunningKnown', SerialOf(p)'
  PROVE  SerialInv'
  <1>1. \A q \in Caller \ {p} : pc'[q] = "idle"
    BY DEF SerialInv, OneAtATime, Alone
  <1>2. OneAtATime'
    BY <1>1 DEF OneAtATime
  <1>3. \A q \in Caller \ {p} : SerialOf(q)'
    BY <1>1 DEF SerialOf, Starting, Stopping
  <1> QED
    BY <1>2, <1>3 DEF SerialInv

\* Nothing comes to run, and what goes on running is still tracked.
LEMMA FewerRunning ==
  ASSUME RunningKnown, UNCHANGED <<mode, running, left>>,
         \A r \in Type : state'[r] = "RUNNING" => state[r] = "RUNNING" /\ tracked'[r] = tracked[r]
  PROVE  RunningKnown'
  BY DEF RunningKnown, Wanted

LEMMA StartGoesOn ==
  ASSUME TypeOK, NEW p \in Caller, SerialStart(p), todo[p] # <<>>, Drop(p), pc'[p] = "starting",
         UNCHANGED <<mode, running, left>>,
         \A r \in Type \ {Head(todo[p])} : state'[r] = "RUNNING" => state[r] = "RUNNING"
  PROVE  SerialStart(p)'
  <1> DEFINE s == todo[p]
             t == todo'[p]
  <1>1. s \in Seq(Type) /\ t = Tail(s)
    BY TypesSplit DEF ResultsTyped, Drop
  <1>2. ASSUME NEW i \in DOMAIN t, NEW j \in DOMAIN t, t[i] = t[j] PROVE i = j
    <2>1. /\ i + 1 \in DOMAIN s /\ t[i] = s[i + 1] /\ i \in Nat
          /\ j + 1 \in DOMAIN s /\ t[j] = s[j + 1] /\ j \in Nat
      BY <1>1, TailOf
    <2>2. i + 1 = j + 1
      BY <1>2, <2>1 DEF SerialStart
    <2> QED
      BY <2>1, <2>2
  <1>3. ASSUME NEW r \in Range(t) PROVE r \in Range(s) /\ r # Head(s) /\ r \in Type
    <2>1. PICK i \in DOMAIN t : t[i] = r
      BY DEF Range
    <2>2. i + 1 \in DOMAIN s /\ s[i + 1] = r /\ 1 \in DOMAIN s /\ s[1] = Head(s) /\ i + 1 # 1
      BY <1>1, <2>1, TailOf
    <2>3. s[i + 1] # s[1]
      BY <2>2 DEF SerialStart
    <2>4. r \in Type
      BY <1>1, <2>2
    <2> QED
      BY <2>2, <2>3, <2>4 DEF Range
  <1>4. \A r \in Range(t) : Wanted(r)' /\ (r \notin left' => state'[r] # "RUNNING")
    BY <1>3 DEF SerialStart, Wanted
  <1> QED
    BY <1>2, <1>4 DEF SerialStart

LEMMA StopGoesOn ==
  ASSUME TypeOK, NEW p \in Caller, SerialStop(p), todo[p] # <<>>, Drop(p),
         UNCHANGED left, targets'[p] = targets[p], state'[Head(todo[p])] # "RUNNING",
         \A r \in Type : state'[r] = "RUNNING" => state[r] = "RUNNING"
  PROVE  SerialStop(p)'
  <1>1. todo[p] \in Seq(Type) /\ todo'[p] = Tail(todo[p])
    BY TypesSplit DEF ResultsTyped, Drop
  <1>2. Range(todo[p]) = {Head(todo[p])} \cup Range(todo'[p])
    BY <1>1, TailRange
  <1> QED
    BY <1>2 DEF SerialStop

\* A step of start().
LEMMA StartsSerial ==
  ASSUME TypeOK, SerialInv, ~overlapped, NEW p \in Caller, NEW r \in Type, StepOn(p, r),
         \/ StartVoid(p, r) \/ StartSkips(p, r) \/ StartFails(p, r) \/ StartPlain(p, r)
         \/ StartLaunches(p, r) \/ Launched(p, r)
  PROVE  SerialInv'
  <1> ControlTyped /\ RuntimesTyped /\ ResultsTyped /\ todo[p] # <<>> /\ r = Head(todo[p])
    BY TypesSplit DEF StepOn
  <1>1. pc[p] \in Starting /\ UNCHANGED <<mode, running, left>>
    BY DEF StartVoid, StartSkips, StartFails, StartPlain, StartLaunches, Launched, GoesOn, Suspends,
           history, Starting
  <1>2. SerialStart(p) /\ RunningKnown /\ pc[p] # "idle"
    BY <1>1 DEF SerialInv, SerialOf, Starting
  <1>3. r \in Range(todo[p])
    BY TailRange DEF ResultsTyped
  <1>4. running /\ Wanted(r) /\ (r \notin left => state[r] # "RUNNING")
    BY <1>2, <1>3 DEF SerialStart
  <1>5. ASSUME SerialStart(p)', pc'[p] \in Starting, RunningKnown' PROVE SerialInv'
    <2>1. SerialOf(p)'
      BY <1>5 DEF SerialOf, Starting, Stopping
    <2>2. Alone(p)
      BY LoopAlone
    <2> QED
      BY <1>2, <1>5, <2>1, <2>2, SerialFromOne
  <1>6. CASE StartVoid(p, r) \/ StartSkips(p, r) \/ StartFails(p, r)
    <2>1. Drop(p) /\ pc'[p] = "starting" /\ UNCHANGED state
      BY <1>6 DEF StartVoid, StartSkips, StartFails, GoesOn, runtimeVars, ControlTyped
    <2>2. SerialStart(p)'
      BY <1>1, <1>2, <2>1, StartGoesOn
    <2>3. \A q \in Type : q # r => tracked'[q] = tracked[q]
      BY <1>6 DEF StartVoid, StartSkips, StartFails, Retrack, runtimeVars, RuntimesTyped
    <2>4. RunningKnown'
      BY <1>1, <1>2, <1>4, <2>1, <2>3 DEF RunningKnown, Wanted
    <2> QED
      BY <1>5, <2>1, <2>2, <2>4 DEF Starting
  <1>7. CASE StartPlain(p, r) \/ Launched(p, r)
    <2>1. Drop(p) /\ pc'[p] = "starting"
      BY <1>7 DEF StartPlain, Launched, GoesOn, ControlTyped
    <2>2. \A q \in Type \ {r} : state'[q] = state[q] /\ tracked'[q] = tracked[q]
      BY <1>7 DEF StartPlain, Launched, Become, Retrack, Track, RuntimesTyped
    <2>3. SerialStart(p)'
      BY <1>1, <1>2, <2>1, <2>2, StartGoesOn
    <2>4. state'[r] = "RUNNING" => tracked'[r] = "RUNNING"
      <3>1. CASE StartPlain(p, r)
        BY <3>1 DEF StartPlain, Retrack, RuntimesTyped
      <3>2. CASE Launched(p, r)
        <4>1. tracked[r] = "STARTING"
          BY <1>2, <3>2 DEF Launched, GoesOn, SerialStart
        <4> QED
          BY <3>2, <4>1 DEF Launched, Become, Track, Transition, LegalFrom, RuntimesTyped
      <3> QED
        BY <1>7, <3>1, <3>2
    <2>5. RunningKnown'
      BY <1>1, <1>2, <1>4, <2>2, <2>4 DEF RunningKnown, Wanted
    <2> QED
      BY <1>5, <2>1, <2>3, <2>5 DEF Starting
  <1>8. CASE StartLaunches(p, r)
    <2>1. /\ UNCHANGED todo /\ pc'[p] = "launched" /\ state'[r] = "STARTING" /\ tracked'[r] = "STARTING"
          /\ \A q \in Type \ {r} : state'[q] = state[q] /\ tracked'[q] = tracked[q]
      BY <1>8 DEF StartLaunches, Suspends, Become, Retrack, work, ControlTyped, RuntimesTyped
    <2>2. Range(todo[p]) \in SUBSET Type
      BY DEF ResultsTyped, Range
    <2>3. \A q \in Range(todo[p]) : Wanted(q)' /\ (q \notin left' => state'[q] # "RUNNING")
      BY <1>1, <1>2, <2>1, <2>2 DEF SerialStart, Wanted
    <2>4. SerialStart(p)'
      BY <1>1, <1>2, <2>1, <2>3 DEF SerialStart
    <2>5. RunningKnown'
      BY <1>1, <1>2, <2>1 DEF RunningKnown, Wanted
    <2> QED
      BY <1>5, <2>1, <2>4, <2>5 DEF Starting
  <1> QED
    BY <1>6, <1>7, <1>8

\* A step of stop().
LEMMA StopsSerial ==
  ASSUME TypeOK, SerialInv, ~overlapped, NEW p \in Caller, NEW r \in Type, StepOn(p, r),
         \/ StopFails(p, r) \/ StopPlain(p, r) \/ StopHalts(p, r)
         \/ \E here \in Halting : HaltFailed(p, r, here) \/ HaltDone(p, r, here)
         \/ Awaits(p)
  PROVE  SerialInv'
  <1> ControlTyped /\ RuntimesTyped /\ ResultsTyped /\ todo[p] # <<>> /\ r = Head(todo[p])
    BY TypesSplit DEF StepOn
  <1>1. /\ pc[p] \in Stopping /\ pc'[p] \in Stopping
        /\ UNCHANGED <<mode, running, left>> /\ targets' = targets
    BY DEF StopFails, StopPlain, StopHalts, HaltFailed, HaltDone, Awaits, GoesOn, Suspends,
           history, Stopping, Halting, ControlTyped, work
  <1>2. SerialStop(p) /\ RunningKnown /\ pc[p] # "idle"
    BY <1>1 DEF SerialInv, SerialOf, Stopping
  <1>3. ASSUME SerialStop(p)', RunningKnown' PROVE SerialInv'
    <2>1. SerialOf(p)'
      BY <1>1, <1>3 DEF SerialOf, Starting, Stopping
    <2>2. Alone(p)
      BY LoopAlone
    <2> QED
      BY <1>2, <1>3, <2>1, <2>2, SerialFromOne
  <1>4. CASE \/ StopFails(p, r) \/ StopPlain(p, r)
             \/ \E here \in Halting : HaltFailed(p, r, here) \/ HaltDone(p, r, here)
    <2>1. Drop(p)
      BY <1>4 DEF StopFails, StopPlain, HaltFailed, HaltDone
    <2>2. /\ state'[r] # "RUNNING"
          /\ \A q \in Type \ {r} : state'[q] = state[q] /\ tracked'[q] = tracked[q]
      <3>1. CASE StopFails(p, r)
        BY <3>1 DEF StopFails, Track, RuntimesTyped
      <3>2. CASE StopPlain(p, r)
        BY <3>2 DEF StopPlain, Become, RuntimesTyped
      <3>3. ASSUME NEW here, HaltFailed(p, r, here) PROVE <2>2!:
        BY <3>3 DEF HaltFailed, Become, RuntimesTyped
      <3>4. ASSUME NEW here, HaltDone(p, r, here) PROVE <2>2!:
        BY <3>4 DEF HaltDone, Become, Track, RuntimesTyped
      <3> QED
        BY <1>4, <3>1, <3>2, <3>3, <3>4
    <2>3. \A q \in Type : state'[q] = "RUNNING" => state[q] = "RUNNING" /\ tracked'[q] = tracked[q]
      BY <2>2
    <2> QED
      BY <1>1, <1>2, <1>3, <2>1, <2>2, <2>3, FewerRunning, StopGoesOn
  <1>5. CASE StopHalts(p, r)
    <2>1. UNCHANGED todo /\ state'[r] # "RUNNING"
          /\ \A q \in Type \ {r} : state'[q] = state[q] /\ tracked'[q] = tracked[q]
      BY <1>5 DEF StopHalts, Become, Track, work, RuntimesTyped
    <2>2. \A q \in Type : state'[q] = "RUNNING" => state[q] = "RUNNING" /\ tracked'[q] = tracked[q]
      BY <2>1
    <2>3. SerialStop(p)'
      BY <1>1, <1>2, <2>1, <2>2 DEF SerialStop
    <2> QED
      BY <1>1, <1>2, <1>3, <2>2, <2>3, FewerRunning
  <1>6. CASE Awaits(p)
    <2>1. UNCHANGED <<state, tracked, todo>>
      BY <1>6 DEF Awaits, runtimeVars, work
    <2>2. SerialStop(p)'
      BY <1>1, <1>2, <2>1 DEF SerialStop
    <2> QED
      BY <1>1, <1>2, <1>3, <2>1, <2>2, FewerRunning
  <1> QED
    BY <1>4, <1>5, <1>6

\* A step of a command that plans, starts or stops nothing.
LEMMA QuietSerial ==
  ASSUME TypeOK, SerialInv, ~overlapped, NEW p \in Caller,
         \/ ModeChanged(p) \/ StartRefused(p) \/ StartOpens(p) \/ StartDone(p)
         \/ StopRefused(p) \/ StopCloses(p) \/ Slept(p)
  PROVE  SerialInv'
  <1> ControlTyped /\ RunningKnown /\ OneAtATime
    BY TypesSplit DEF SerialInv
  <1>1. UNCHANGED <<mode, running, left, state, tracked>>
    BY DEF ModeChanged, StartRefused, StartOpens, StartDone, StopRefused, StopCloses, Slept,
           runtimeVars, history
  <1>2. pc[p] # "idle" /\ pc'[p] \notin Starting \cup Stopping /\ (pc'[p] = "opened" => ~running)
    <2>1. CASE ModeChanged(p) \/ StartRefused(p) \/ StartDone(p) \/ Slept(p)
      BY <2>1 DEF ModeChanged, StartRefused, StartDone, Slept, GoesOn, Suspends, ControlTyped,
                  Starting, Stopping
    <2>2. CASE StartOpens(p) \/ StopRefused(p) \/ StopCloses(p)
      BY <2>2 DEF StartOpens, StopRefused, StopCloses, Leaves, GoesOn, Suspends, ControlTyped,
                  Starting, Stopping
    <2> QED
      BY <2>1, <2>2
  <1>3. RunningKnown'
    BY <1>1 DEF RunningKnown, Wanted
  <1>4. SerialOf(p)'
    BY <1>1, <1>2 DEF SerialOf
  <1>5. Alone(p)
    BY CommandAlone DEF Step
  <1> QED
    BY <1>2, <1>3, <1>4, <1>5, SerialFromOne

\* start() finds nothing running, and plans what it wants.
LEMMA StartPlansSerial ==
  ASSUME TypeOK, SerialInv, ~overlapped, NEW p \in Caller, StartPlans(p)
  PROVE  SerialInv'
  <1> ControlTyped /\ RuntimesTyped /\ ResultsTyped /\ RunningKnown
    BY TypesSplit DEF SerialInv
  <1>1. /\ pc[p] = "opened" /\ pc'[p] = "starting" /\ running' = TRUE
        /\ UNCHANGED <<mode, left, tracked>>
        /\ todo'[p] = StartupOrder(Known)
        /\ \A r \in Type : state'[r] = "RUNNING" => state[r] = "RUNNING"
    BY DEF StartPlans, GoesOn, history, ControlTyped, ResultsTyped
  <1>2. ~running
    BY <1>1 DEF SerialInv, SerialOf
  <1>3. \A r \in Type \ left : state'[r] # "RUNNING"
    BY <1>1, <1>2 DEF RunningKnown
  <1>4. Known \in SUBSET Type
    BY OrchestratorAssumption DEF Known, ControlTyped
  <1>5. /\ Range(todo'[p]) = Targets(Known)
        /\ \A i, j \in DOMAIN todo'[p] : todo'[p][i] = todo'[p][j] => i = j
    BY <1>1, <1>4, StartupPlan
  <1>6. \A r \in Targets(Known) : r \in Type /\ Wanted(r)
    <2>1. CASE Known = {}
      <3>1. ModeTypes[mode] \cap Buildable = {}
        BY <2>1 DEF Known
      <3> QED
        BY <2>1, <3>1 DEF Targets, Wanted
    <2>2. CASE Known # {}
      BY <2>2, <1>4 DEF Targets, Known, Wanted
    <2> QED
      BY <2>1, <2>2
  <1>7. SerialStart(p)'
    <2>1. \A r \in Range(todo'[p]) : Wanted(r)' /\ (r \notin left' => state'[r] # "RUNNING")
      BY <1>1, <1>3, <1>5, <1>6 DEF Wanted
    <2> QED
      BY <1>1, <1>5, <2>1 DEF SerialStart
  <1>8. SerialOf(p)'
    BY <1>1, <1>7 DEF SerialOf, Starting, Stopping
  <1>9. RunningKnown'
    BY <1>1, <1>3 DEF RunningKnown
  <1>10. Alone(p)
    BY CommandAlone DEF Step
  <1> QED
    BY <1>1, <1>8, <1>9, <1>10, SerialFromOne

\* stop() plans all that runs and was not left running; when it is done with them,
\* nothing of that runs.
LEMMA StopEndsSerial ==
  ASSUME TypeOK, BuiltInv, SerialInv, ~overlapped, NEW p \in Caller, StopPlans(p) \/ StopDone(p)
  PROVE  SerialInv'
  <1> ControlTyped /\ RuntimesTyped /\ ResultsTyped /\ RunningKnown
    BY TypesSplit DEF SerialInv
  <1>1. UNCHANGED <<mode, state, tracked>> /\ pc[p] # "idle" /\ Alone(p)
    BY CommandAlone DEF StopPlans, StopDone, Leaves, GoesOn, Suspends, runtimeVars, Step
  <1>2. CASE StopPlans(p)
    <2> DEFINE known == {r \in ModeTypes[mode] : state[r] # "ABSENT"}
    <2>1. /\ pc'[p] = "stopping" /\ UNCHANGED <<running, left>>
          /\ targets'[p] = known /\ todo'[p] = ShutdownOrder(known)
      BY <1>2 DEF StopPlans, GoesOn, history, ControlTyped, ResultsTyped
    <2>2. known \in SUBSET Type
      BY OrchestratorAssumption DEF ControlTyped
    <2>3. ASSUME NEW r \in Type, state[r] = "RUNNING", r \notin left \/ r \in known
          PROVE  r \in Targets(known)
      <3>1. CASE r \in known
        BY <3>1 DEF Targets
      <3>2. CASE r \notin left /\ r \notin known
        <4>1. Wanted(r) /\ r \notin ModeTypes[mode]
          BY <2>3, <3>2 DEF RunningKnown
        <4>2. \A q \in ModeTypes[mode] : q \in Type
          BY OrchestratorAssumption DEF ControlTyped
        <4>3. known = {}
          BY <4>1, <4>2 DEF Wanted, BuiltInv
        <4> QED
          BY <4>3 DEF Targets
      <3> QED
        BY <2>3, <3>1, <3>2
    <2> HIDE DEF known
    <2>4. Range(todo'[p]) = Targets(known)
      BY <2>1, <2>2, ShutdownPlan
    <2>5. SerialStop(p)'
      BY <1>1, <2>1, <2>3, <2>4 DEF SerialStop
    <2>6. SerialOf(p)'
      BY <2>1, <2>5 DEF SerialOf, Starting, Stopping
    <2>7. RunningKnown'
      BY <1>1, <2>1 DEF RunningKnown, Wanted
    <2> QED
      BY <1>1, <2>6, <2>7, SerialFromOne
  <1>3. CASE StopDone(p)
    <2>1. /\ pc[p] = "stopping" /\ todo[p] = <<>>
          /\ pc'[p] \in {"idle", "sleeping"} /\ running' = FALSE /\ left' = left \ targets[p]
      BY <1>3 DEF StopDone, Leaves, Suspends, ControlTyped
    <2>2. Range(todo[p]) = {}
      BY <2>1 DEF Range
    <2>3. SerialStop(p)
      BY <2>1 DEF SerialInv, SerialOf, Stopping
    <2>4. \A r \in Type \ left' : state[r] # "RUNNING"
      BY <2>1, <2>2, <2>3 DEF SerialStop
    <2>5. RunningKnown'
      BY <1>1, <2>4 DEF RunningKnown
    <2>6. SerialOf(p)'
      BY <2>1 DEF SerialOf, Starting, Stopping
    <2> QED
      BY <1>1, <2>5, <2>6, SerialFromOne
  <1> QED
    BY <1>2, <1>3

\* A command given while all are idle; a change of mode notes what it leaves running.
LEMMA AskSerial ==
  ASSUME TypeOK, SerialInv, NEW p \in Caller, Ask(p)
  PROVE  SerialInv'
  <1> SUFFICES ASSUME ~overlapped' PROVE OneAtATime' /\ RunningKnown' /\ \A q \in Caller : SerialOf(q)'
    BY DEF SerialInv
  <1> ControlTyped /\ RuntimesTyped
    BY TypesSplit
  <1>1. ~overlapped /\ \A q \in Caller : pc[q] = "idle"
    BY DEF Ask, AskStart, AskStop, AskMode, Given
  <1>2. pc'[p] \in {"start", "stop", "switched"} /\ \A q \in Caller \ {p} : pc'[q] = "idle"
    BY <1>1 DEF Ask, AskStart, AskStop, AskMode, GoesOn, Suspends, ControlTyped
  <1>3. RunningKnown /\ UNCHANGED <<running, state, tracked>>
    BY <1>1 DEF SerialInv, Ask, AskStart, AskStop, AskMode, Given, runtimeVars
  <1>4. RunningKnown'
    <2>1. CASE UNCHANGED <<mode, left>>
      BY <1>3, <2>1 DEF RunningKnown, Wanted
    <2>2. CASE \E m \in Mode : AskMode(p, m)
      <3>1. /\ left \subseteq left'
            /\ \A r \in Type \ left' : state[r] = "RUNNING" => r \in ModeTypes[mode']
        BY <2>2 DEF AskMode
      <3> QED
        BY <1>3, <3>1 DEF RunningKnown, Wanted
    <2> QED
      BY <2>1, <2>2 DEF Ask, AskStart, AskStop
  <1>5. OneAtATime' /\ \A q \in Caller : SerialOf(q)'
    BY <1>2 DEF OneAtATime, SerialOf, Starting, Stopping
  <1> QED
    BY <1>4, <1>5

\* The start() task of a service ends: a runtime may go down, and none comes up.
LEMMA TaskSerial ==
  ASSUME TypeOK, SerialInv, ~overlapped, NEW r \in Type, TaskEnds(r) \/ OnDone(r)
  PROVE  SerialInv'
  <1> RuntimesTyped /\ RunningKnown /\ OneAtATime
    BY TypesSplit DEF SerialInv
  <1>1. UNCHANGED <<mode, running, left, tracked, pc, todo, targets>>
    BY DEF TaskEnds, OnDone, work, history
  <1>2. \A q \in Type : state'[q] = "RUNNING" => state[q] = "RUNNING"
    BY DEF TaskEnds, OnDone, Become, RuntimesTyped
  <1>3. RunningKnown'
    BY <1>1, <1>2, FewerRunning
  <1>4. ASSUME NEW p \in Caller PROVE SerialOf(p)'
    <2>1. SerialOf(p) /\ todo[p] \in Seq(Type)
      BY TypesSplit DEF SerialInv, ResultsTyped
    <2>2. Range(todo[p]) \subseteq Type
      BY <2>1 DEF Range
    <2>3. SerialStart(p) => SerialStart(p)'
      BY <1>1, <1>2, <2>2 DEF SerialStart, Wanted
    <2>4. SerialStop(p) => SerialStop(p)'
      BY <1>1, <1>2 DEF SerialStop
    <2> QED
      BY <1>1, <2>1, <2>3, <2>4 DEF SerialOf
  <1> QED
    BY <1>1, <1>3, <1>4 DEF SerialInv, OneAtATime

LEMMA SerialStep == TypeOK /\ BuiltInv /\ SerialInv /\ [Next]_vars => SerialInv'
  <1> SUFFICES ASSUME TypeOK, BuiltInv, SerialInv, [Next]_vars PROVE SerialInv'
    OBVIOUS
  <1>1. ASSUME NEW p \in Caller, Ask(p) PROVE SerialInv'
    BY <1>1, AskSerial
  <1>2. ASSUME NEW p \in Caller, Step(p) PROVE SerialInv'
    <2>1. UNCHANGED overlapped
      <3>1. CASE \/ ModeChanged(p) \/ StartRefused(p) \/ StartOpens(p) \/ StartPlans(p)
                 \/ StartDone(p) \/ StopRefused(p) \/ StopCloses(p) \/ StopPlans(p) \/ StopDone(p)
                 \/ Slept(p)
        BY <3>1 DEF ModeChanged, StartRefused, StartOpens, StartPlans, StartDone, StopRefused,
                    StopCloses, StopPlans, StopDone, Slept, history
      <3>2. ASSUME NEW r \in Type, StepOn(p, r) PROVE UNCHANGED overlapped
        BY <3>2, StepCases
                DEF StartVoid, StartSkips, StartFails, StartPlain, StartLaunches, Launched,
                    StopFails, StopPlain, StopHalts, Awaits, HaltFailed, HaltDone, history
      <3> QED
        BY <1>2, <3>1, <3>2 DEF Step
    <2>2. CASE overlapped
      BY <2>1, <2>2 DEF SerialInv
    <2>3. CASE ~overlapped
      <3>1. ASSUME NEW r \in Type, StepOn(p, r) PROVE SerialInv'
        BY <2>3, <3>1, StartsSerial, StopsSerial, StepCases
      <3> QED
        BY <1>2, <2>3, <3>1, QuietSerial, StartPlansSerial, StopEndsSerial DEF Step
    <2> QED
      BY <2>2, <2>3
  <1>3. ASSUME NEW r \in Type, TaskEnds(r) \/ OnDone(r) PROVE SerialInv'
    <2>1. UNCHANGED overlapped
      BY <1>3 DEF TaskEnds, OnDone, history
    <2> QED
      BY <1>3, <2>1, TaskSerial DEF SerialInv
  <1>4. CASE UNCHANGED vars
    <2>1. UNCHANGED <<mode, running, state, tracked, pc, todo, targets, overlapped, left>>
      BY <1>4 DEF vars, runtimeVars, work, history
    <2> QED
      BY <2>1 DEF SerialInv, OneAtATime, RunningKnown, SerialOf, SerialStart, SerialStop, Wanted
  <1>5. CASE BufferFills
    <2>1. UNCHANGED <<mode, running, state, tracked, todo, targets, overlapped, left>>
      BY <1>5, BufferHolds DEF runtimeVars, work, history
    <2>2. /\ OneAtATime => OneAtATime'
          /\ \A p \in Caller : SerialOf(p) => SerialOf(p)'
      BY <1>5, <2>1, BufferHolds DEF OneAtATime, SerialOf, SerialStart, SerialStop, Wanted,
                                     Starting, Stopping
    <2>3. RunningKnown => RunningKnown'
      BY <2>1 DEF RunningKnown, Wanted
    <2> QED
      BY <2>1, <2>2, <2>3 DEF SerialInv
  <1> QED
    BY <1>1, <1>2, <1>3, <1>4, <1>5 DEF Next, LoopRuns
-----------------------------------------------------------------------------
(* What follows from them.                                                 *)

CommandInv == TurnInv /\ StopPlanInv /\ HeldInv /\ HaltInv /\ BuiltInv /\ SerialInv

\* Whoever starts or stops a type runs; no stop meets a type before one that depends
\* on it; a runtime on its way up or down has a command that waits for it; one that has
\* failed has a live task only if its instance.stop() raised or its launch is being
\* looked at; and as long as no two commands overlap, a stop has before it all that
\* runs, and what runs is known to run.
THEOREM CommandsHold == Spec => []CommandInv
  <1>1. Init => CommandInv
    <2>1. Init => TurnInv /\ StopPlanInv
      BY DEF Init, TurnInv, StopPlanInv, StopPlan, Stopping
    <2>2. Init => HeldInv /\ HaltInv /\ BuiltInv
      BY DEF Init, HeldInv, HaltInv, HaltOf, BuiltInv
    <2>3. Init => SerialInv
      BY DEF Init, SerialInv, OneAtATime, RunningKnown, SerialOf, Starting, Stopping
    <2> QED
      BY <2>1, <2>2, <2>3 DEF CommandInv
  <1>2. TypeOK /\ LifecycleInv /\ CommandInv /\ [Next]_vars => CommandInv'
    BY TurnStep, StopPlanStep, HeldStep, HaltStep, BuiltStep, SerialStep DEF CommandInv
  <1> QED
    BY <1>1, <1>2, TypesHold, LifecycleHolds, PTL DEF Spec

\* When all commands are done, none having overlapped another, and the last stop is
\* not followed by a start, no runtime but those a change of mode left running is up,
\* nor on its way up or down, and no start() task of one is live unless its
\* instance.stop() raised (lifecycle.stop then leaves it, FAILED).
THEOREM StopIsCompleteAlways == Spec => []StopIsComplete
  <1>1. TypeOK /\ LifecycleInv /\ CommandInv => StopIsComplete
    <2> SUFFICES ASSUME TypeOK, LifecycleInv, CommandInv, ~overlapped, Idle, ~running,
                        NEW r \in Type \ left
                 PROVE  /\ state[r] \notin {"STARTING", "RUNNING", "STOPPING"}
                        /\ live[r] > 0 => r \in unhalted
      BY DEF StopIsComplete
    <2>1. state[r] \notin {"STARTING", "STOPPING"}
      BY DEF CommandInv, HeldInv, Busy, Idle, Halting
    <2>2. state[r] # "RUNNING"
      BY DEF CommandInv, SerialInv, RunningKnown
    <2>3. live[r] > 0 => state[r] = "FAILED"
      BY <2>1, <2>2 DEF LifecycleInv, TaskOf
    <2>4. state[r] = "FAILED" /\ live[r] > 0 => r \in unhalted
      BY DEF CommandInv, HaltInv, HaltOf, Busy, Idle
    <2> QED
      BY <2>1, <2>2, <2>3, <2>4
  <1> QED
    BY <1>1, TypesHold, LifecycleHolds, CommandsHold, PTL

\* Between commands that did not overlap the state machine has as RUNNING what the
\* registry has, but for what a change of mode left running.
THEOREM TrackersAgreeAlways == Spec => []TrackersAgree
  <1>1. CommandInv => TrackersAgree
    BY DEF CommandInv, SerialInv, RunningKnown, TrackersAgree
  <1> QED
    BY <1>1, CommandsHold, PTL

\* A stop that no command overlaps takes a runtime down only when those of its targets
\* that depend on it are down.
THEOREM DependentsStopFirstAlways == Spec => DependentsStopFirst
  <1> DEFINE Rule == \A p \in Caller, r \in Type :
               pc[p] = "stopping" /\ state[r] = "RUNNING" /\ state'[r] # "RUNNING" /\ ~overlapped'
                 => \A q \in targets[p] : r \in Dependencies[q] => state[q] # "RUNNING"
  <1>1. TypeOK /\ CommandInv /\ [Next]_vars => [Rule]_vars
    <2> SUFFICES ASSUME TypeOK, CommandInv, Next,
                        NEW p \in Caller, NEW r \in Type,
                        pc[p] = "stopping", state[r] = "RUNNING", state'[r] # "RUNNING", ~overlapped',
                        NEW q \in targets[p], r \in Dependencies[q], state[q] = "RUNNING"
                 PROVE  FALSE
      OBVIOUS
    <2> ControlTyped /\ RuntimesTyped /\ ResultsTyped
      BY TypesSplit
    <2>1. loop = p /\ loop # Free
      BY OrchestratorAssumption DEF CommandInv, TurnInv
    <2>2. Step(p)
      <3>1. ASSUME NEW c \in Caller, Ask(c) \/ Step(c) PROVE c = p
        BY <2>1, <3>1, CommandTurns DEF Turns
      <3>2. ~BufferFills /\ \A x \in Type : ~TaskEnds(x) /\ ~OnDone(x)
        BY <2>1 DEF BufferFills, TaskEnds, OnDone
      <3>3. ~Ask(p)
        BY DEF Ask, AskStart, AskStop, AskMode, Given
      <3> QED
        BY <3>1, <3>2, <3>3 DEF Next, LoopRuns
    <2>3. PICK x \in Type : StepOn(p, x) /\ (StopFails(p, x) \/ StopPlain(p, x) \/ StopHalts(p, x))
      <3>1. UNCHANGED state \/ \E x \in Type : StepOn(p, x)
        BY <2>2 DEF Step, ModeChanged, StartRefused, StartOpens, StartPlans, GoesOn, StartDone,
                    StopRefused, StopCloses, StopPlans, StopDone, Slept, runtimeVars
      <3>2. PICK x \in Type : StepOn(p, x)
        BY <3>1
      <3>3. StopFails(p, x) \/ StopPlain(p, x) \/ StopHalts(p, x)
        BY <3>2, StepCases
                DEF StartVoid, StartSkips, StartFails, StartPlain, StartLaunches, Launched,
                    Awaits, HaltFailed, HaltDone, GoesOn, Suspends, Halting
      <3> QED
        BY <3>2, <3>3
    <2>4. x = r /\ ~overlapped
      BY <2>3 DEF StopFails, StopPlain, StopHalts, Become, RuntimesTyped, history
    <2>5. todo[p] \in Seq(Type) /\ todo[p] # <<>> /\ Head(todo[p]) = r
      BY <2>3, <2>4 DEF StepOn, ResultsTyped
    <2>6. q \in Range(todo[p])
      <3>1. SerialStop(p) /\ q \in Type
        BY <2>4 DEF CommandInv, SerialInv, SerialOf, Stopping, ResultsTyped
      <3> QED
        BY <3>1 DEF SerialStop
    <2>7. PICK j \in DOMAIN todo[p] : todo[p][j] = q
      BY <2>6 DEF Range
    <2>8. 1 \in DOMAIN todo[p] /\ todo[p][1] = r /\ j \in Nat \ {0}
      BY <2>5, <2>7, TailOf
    <2>9. j < 1
      BY <2>7, <2>8 DEF CommandInv, StopPlanInv, StopPlan, Stopping
    <2> QED
      BY <2>8, <2>9
  <1> QED
    BY <1>1, TypesHold, CommandsHold, PTL DEF Spec, DependentsStopFirst
-----------------------------------------------------------------------------
(* No command goes round.                                                  *)

\* How far a command is from its end, and from the end of the type at hand.
Phase == [switched |-> 9, stop |-> 8, closed |-> 7, held |-> 6,
          stopping |-> 5, halting |-> 5, draining |-> 5, cancelling |-> 5,
          sleeping |-> 4, start |-> 3, opened |-> 2, starting |-> 1, launched |-> 1, idle |-> 0]
Moment == [starting |-> 1, launched |-> 0, stopping |-> 3, halting |-> 2, draining |-> 1,
           cancelling |-> 0]

Nearer(p) ==
  \/ Phase[pc'[p]] < Phase[pc[p]]
  \/ /\ pc[p] \in Starting \/ pc[p] \in Stopping
     /\ Phase[pc'[p]] = Phase[pc[p]]
     /\ \/ Len(todo'[p]) < Len(todo[p])
        \/ todo'[p] = todo[p] /\ Moment[pc'[p]] < Moment[pc[p]]

LEMMA StepIsNearer ==
  ASSUME TypeOK, NEW p \in Caller, Step(p)
  PROVE  Nearer(p)
  <1> ControlTyped /\ ResultsTyped
    BY TypesSplit
  <1>1. CASE ModeChanged(p) \/ StartRefused(p) \/ StartOpens(p) \/ StartPlans(p) \/ StartDone(p)
    BY <1>1 DEF ModeChanged, StartRefused, StartOpens, StartPlans, StartDone, GoesOn, Suspends,
                ControlTyped, Nearer, Phase
  <1>2. CASE StopRefused(p) \/ StopCloses(p) \/ StopPlans(p) \/ StopDone(p) \/ Slept(p)
    BY <1>2 DEF StopRefused, StopCloses, StopPlans, StopDone, Slept, Leaves, GoesOn, Suspends,
                ControlTyped, Nearer, Phase
  <1>3. ASSUME NEW r \in Type, StepOn(p, r) PROVE Nearer(p)
    <2>1. ASSUME Drop(p) PROVE Len(todo'[p]) < Len(todo[p])
      <3>1. todo[p] \in Seq(Type) /\ todo[p] # <<>> /\ todo'[p] = Tail(todo[p])
        BY <1>3, <2>1 DEF StepOn, Drop, ResultsTyped
      <3> QED
        BY <3>1
    <2>2. CASE StartVoid(p, r) \/ StartSkips(p, r) \/ StartFails(p, r) \/ StartPlain(p, r)
               \/ Launched(p, r)
      <3>1. Drop(p) /\ pc[p] \in Starting /\ pc'[p] = "starting"
        BY <2>2 DEF StartVoid, StartSkips, StartFails, StartPlain, Launched, GoesOn, ControlTyped,
                    Starting
      <3> QED
        BY <2>1, <3>1 DEF Nearer, Phase, Starting
    <2>3. CASE \/ StopFails(p, r) \/ StopPlain(p, r)
               \/ \E here \in Halting : HaltFailed(p, r, here) \/ HaltDone(p, r, here)
      <3>1. Drop(p) /\ pc[p] \in Stopping /\ pc'[p] = "stopping"
        BY <2>3 DEF StopFails, StopPlain, HaltFailed, HaltDone, GoesOn, ControlTyped, Stopping, Halting
      <3> QED
        BY <2>1, <3>1 DEF Nearer, Phase, Stopping
    <2>4. CASE StartLaunches(p, r)
      BY <2>4 DEF StartLaunches, Suspends, work, ControlTyped, Nearer, Phase, Moment, Starting
    <2>5. CASE StopHalts(p, r)
      BY <2>5 DEF StopHalts, Suspends, work, ControlTyped, Nearer, Phase, Moment, Stopping
    <2>6. CASE Awaits(p)
      BY <2>6 DEF Awaits, Suspends, work, ControlTyped, Nearer, Phase, Moment, Stopping
    <2> QED
      BY <1>3, <2>2, <2>3, <2>4, <2>5, <2>6, StepCases
  <1> QED
    BY <1>1, <1>2, <1>3 DEF Step

\* Whatever overlaps it, a command under way never goes back to a type it has dealt
\* with nor to a phase it has left: each of its steps brings it nearer to its end, and
\* no step of another command or of a task moves it, but a buffer that fills may hold
\* a stop() that waits for its last flush.
THEOREM CommandsAdvance ==
  Spec => [][\A p \in Caller :
               pc[p] # "idle" => (pc'[p] = pc[p] /\ todo'[p] = todo[p]) \/ Nearer(p)]_vars
  <1> DEFINE Rule == \A p \in Caller :
               pc[p] # "idle" => (pc'[p] = pc[p] /\ todo'[p] = todo[p]) \/ Nearer(p)
  <1>1. TypeOK /\ [Next]_vars => [Rule]_vars
    <2> SUFFICES ASSUME TypeOK, Next, NEW p \in Caller, pc[p] # "idle"
                 PROVE  (pc'[p] = pc[p] /\ todo'[p] = todo[p]) \/ Nearer(p)
      OBVIOUS
    <2>1. ASSUME NEW q \in Caller, Ask(q) \/ Step(q)
          PROVE  (pc'[p] = pc[p] /\ todo'[p] = todo[p]) \/ Nearer(p)
      <3>1. CASE q # p
        <4>1. Alone(q)
          BY <2>1, CommandAlone
        <4> QED
          BY <3>1, <4>1 DEF Alone, SameWork
      <3>2. CASE q = p
        <4>1. ~Ask(p)
          BY DEF Ask, AskStart, AskStop, AskMode, Given
        <4> QED
          BY <2>1, <3>2, <4>1, StepIsNearer
      <3> QED
        BY <3>1, <3>2
    <2>2. ASSUME NEW r \in Type, TaskEnds(r) \/ OnDone(r)
          PROVE  pc'[p] = pc[p] /\ todo'[p] = todo[p]
      BY <2>2 DEF TaskEnds, OnDone, work
    <2>3. ASSUME BufferFills
          PROVE  (pc'[p] = pc[p] /\ todo'[p] = todo[p]) \/ Nearer(p)
      BY <2>3, BufferHolds DEF work, Nearer, Phase
    <2> QED
      BY <2>1, <2>2, <2>3 DEF Next, LoopRuns
  <1> QED
    BY <1>1, TypesHold, PTL DEF Spec
=============================================================================
