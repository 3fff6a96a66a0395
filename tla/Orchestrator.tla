---------------------------- MODULE Orchestrator ----------------------------
(***************************************************************************)
(* RuntimeOrchestrator (manager.py) with RuntimeLifecycle (lifecycle.py),  *)
(* the registry and RuntimeStateMachine: starting and stopping the         *)
(* runtimes of a trading mode, and what a change of mode does to them.     *)
(*                                                                         *)
(* Every command is a task of one event loop.  `loop' names the command    *)
(* that runs; it is Free whenever that command suspends, so that what      *)
(* happens between two awaits is never interleaved.  A type has at most    *)
(* one runtime, which the type names here.  A Service is a runtime whose   *)
(* instance has start() and stop(); lifecycle.start runs its start() as a  *)
(* task of its own.  Other runtimes have neither.                          *)
(*                                                                         *)
(* restart, pause, resume and recover, which nothing in the repository     *)
(* calls, the health checks, the statistics and the event handlers are     *)
(* left out.  The mode manager is module TradingMode; here a mode simply   *)
(* changes.                                                                *)
(***************************************************************************)
EXTENDS DependencyGraph, Functions

CONSTANTS
  Caller,       \* tasks that give commands
  Free,         \* no command holds the event loop
  Mode,         \* TradingMode
  ModeTypes,    \* get_mode_runtime_types
  InitialMode,
  Buildable,    \* types whose factory does not raise, or already registered
  Service,      \* types whose instance has start() and stop()
  MaxCommands   \* bound: commands given in one behaviour

ASSUME OrchestratorAssumption ==
  /\ Free \notin Caller
  /\ ModeTypes \in [Mode -> SUBSET Type]
  /\ InitialMode \in Mode
  /\ MaxCommands \in Nat

VARIABLES
  mode,      \* TradingModeManager.mode
  running,   \* _is_running
  journal,   \* the module's _journal: none, open or frozen (FullBufferIsFrozen)
  state,     \* RuntimeInfo.state; ABSENT: not registered
  tracked,   \* RuntimeStateMachine._states
  live,      \* how many start() tasks of the runtime have not ended
  ended,     \* how the last of them ended: none, returned or raised
  attached,  \* _on_done is attached to the last of them
  due        \* how the task ended whose _on_done is about to run
VARIABLES
  loop,      \* the command that runs, or Free
  pc,        \* where each command is
  again,     \* a start follows this stop: the mode has changed
  todo,      \* types the command has still to start or stop, the current one first
  targets,   \* runtime_types
  started,   \* started_types
  failed,    \* results["failed"]
  skipped    \* results["skipped"]
VARIABLES
  commands,    \* how many commands were given
  overlapped,  \* history: a command was given while another was under way
  left,        \* history: types that ran when a mode without them came and that no
               \* stop() has dealt with since
  unhalted     \* history: types whose instance.stop() raised

runtimeVars == <<state, tracked, live, ended, attached, due>>
outcomes == <<started, failed, skipped>>
work == <<todo, targets, outcomes>>
history == <<commands, overlapped, left, unhalted>>
vars == <<mode, running, journal, runtimeVars, loop, pc, again, work, history>>

Init ==
  /\ mode = InitialMode /\ running = FALSE /\ journal = "none"
  /\ state = [r \in Type |-> "ABSENT"]
  /\ tracked = [r \in Type |-> "NONE"]
  /\ live = [r \in Type |-> 0]
  /\ ended = [r \in Type |-> "none"]
  /\ attached = [r \in Type |-> FALSE]
  /\ due = [r \in Type |-> "none"]
  /\ loop = Free
  /\ pc = [p \in Caller |-> "idle"]
  /\ again = [p \in Caller |-> FALSE]
  /\ todo = [p \in Caller |-> <<>>]
  /\ targets = [p \in Caller |-> {}]
  /\ started = [p \in Caller |-> {}]
  /\ failed = [p \in Caller |-> {}]
  /\ skipped = [p \in Caller |-> {}]
  /\ commands = 0 /\ overlapped = FALSE /\ left = {} /\ unhalted = {}

-----------------------------------------------------------------------------
(* Steps of a command.                                                     *)

\* The command at `here' goes on to `there', suspended or not.
Suspends(p, here, there) ==
  /\ pc[p] = here /\ loop \in {p, Free}
  /\ pc' = [pc EXCEPT ![p] = there] /\ loop' = Free
GoesOn(p, here, there) ==
  /\ pc[p] = here /\ loop \in {p, Free}
  /\ pc' = [pc EXCEPT ![p] = there] /\ loop' = p

Drop(p) == todo' = [todo EXCEPT ![p] = Tail(@)]
Note(results, p, r) == results' = [results EXCEPT ![p] = @ \cup {r}]
Forget(p) ==
  /\ todo' = [todo EXCEPT ![p] = <<>>] /\ targets' = [targets EXCEPT ![p] = {}]
  /\ started' = [started EXCEPT ![p] = {}]
  /\ failed' = [failed EXCEPT ![p] = {}]
  /\ skipped' = [skipped EXCEPT ![p] = {}]

\* RuntimeStateMachine.transition: an illegal one is refused, and the caller
\* does not look.
LegalFrom == [STARTING |-> {"CREATED", "STOPPED"}, RUNNING |-> {"STARTING"},
              STOPPING |-> {"RUNNING", "FAILED"}, STOPPED |-> {"STARTING", "STOPPING"},
              FAILED |-> {"STARTING", "RUNNING", "STOPPING"}]
Transition(s, to) == IF s \in LegalFrom[to] THEN to ELSE s
Track(r, to) == tracked' = [tracked EXCEPT ![r] = Transition(@, to)]

\* Mutants of Retrack: register() keeps the state it finds; only register() is
\* called.
RetrackKept(r, to) == Track(r, to)
RetrackCreated(r, to) == tracked' = [tracked EXCEPT ![r] = "CREATED"]

\* register() puts it back to CREATED, and the transitions to `to' are legal.
Retrack(r, to) == tracked' = [tracked EXCEPT ![r] = to]

Become(r, s) == state' = [state EXCEPT ![r] = s]
-----------------------------------------------------------------------------
(* What is asked: start() by START_ALL and at startup, stop() by STOP_ALL  *)
(* and at shutdown, and a change of mode.                                  *)

Given(p) ==
  /\ pc[p] = "idle" /\ loop = Free /\ commands < MaxCommands
  /\ commands' = commands + 1
  /\ overlapped' = (overlapped \/ \E q \in Caller : pc[q] # "idle")
  /\ UNCHANGED <<running, journal, runtimeVars, work, unhalted>>

AskStart(p) ==
  /\ Given(p) /\ GoesOn(p, "idle", "start")
  /\ UNCHANGED <<mode, again, left>>
AskStop(p) ==
  /\ Given(p) /\ GoesOn(p, "idle", "stop")
  /\ UNCHANGED <<mode, again, left>>

\* The mode has changed; the manager connects the adapter, then calls back.
AskMode(p, m) ==
  /\ Given(p) /\ Suspends(p, "idle", "switched")
  /\ m # mode /\ mode' = m
  /\ left' = left \cup {r \in Type \ ModeTypes[m] : state[r] = "RUNNING"}
  /\ UNCHANGED again

\* _on_mode_changed, which the manager does not call when the adapter cannot be
\* made or connected.
ModeChanged(p) ==
  /\ \/ running /\ GoesOn(p, "switched", "stop") /\ again' = [again EXCEPT ![p] = TRUE]
     \/ Suspends(p, "switched", "idle") /\ UNCHANGED again
  /\ UNCHANGED <<mode, running, journal, runtimeVars, work, history>>
-----------------------------------------------------------------------------
(* start().                                                                *)

StartRefused(p) ==
  /\ running /\ Suspends(p, "start", "idle")
  /\ UNCHANGED <<mode, running, journal, runtimeVars, again, work, history>>

\* get_event_journal: only the first caller waits for initialize(), if it waits.
\* The journal is there even if that fails; nothing then needs to be closed.
StartOpens(p) ==
  /\ ~running /\ journal' = IF journal = "none" THEN "open" ELSE journal
  /\ \/ GoesOn(p, "start", "opened")
     \/ journal = "none" /\ Suspends(p, "start", "opened")
  /\ UNCHANGED <<mode, running, runtimeVars, again, work, history>>

Known == {r \in ModeTypes[mode] : state[r] # "ABSENT" \/ r \in Buildable}

StartPlans(p) ==
  /\ GoesOn(p, "opened", "starting")
  /\ running' = TRUE
  /\ state' = [r \in Type |-> IF r \in Known /\ state[r] = "ABSENT" THEN "REGISTERED"
                              ELSE state[r]]
  /\ targets' = [targets EXCEPT ![p] = Known]
  /\ todo' = [todo EXCEPT ![p] = StartupOrder(Known)]
  /\ UNCHANGED <<mode, journal, tracked, live, ended, attached, due, again, outcomes,
                 history>>

\* A type with no runtime: get_by_type is empty.
StartVoid(p, r) ==
  /\ GoesOn(p, "starting", "starting")
  /\ CanStart(r, started[p], targets[p]) /\ state[r] = "ABSENT"
  /\ Drop(p)
  /\ UNCHANGED <<mode, running, journal, runtimeVars, again, targets, outcomes, history>>

StartSkips(p, r) ==
  /\ GoesOn(p, "starting", "starting")
  /\ ~CanStart(r, started[p], targets[p])
  /\ Note(skipped, p, r) /\ Drop(p)
  /\ UNCHANGED <<mode, running, journal, runtimeVars, again, targets, started, failed,
                 history>>

\* Mutants of MayLaunch: lifecycle.start asks nothing; it retries what failed.
MayLaunchAnything(r) == TRUE
MayLaunchFailed(r) == state[r] \in {"REGISTERED", "STOPPED", "FAILED"}

MayLaunch(r) == state[r] \in {"REGISTERED", "STOPPED"}

StartFails(p, r) ==
  /\ GoesOn(p, "starting", "starting")
  /\ CanStart(r, started[p], targets[p]) /\ state[r] # "ABSENT" /\ ~MayLaunch(r)
  /\ Retrack(r, "FAILED")
  /\ Note(failed, p, r) /\ Drop(p)
  /\ UNCHANGED <<mode, running, journal, state, live, ended, attached, due, again, targets,
                 started, skipped, history>>

StartPlain(p, r) ==
  /\ GoesOn(p, "starting", "starting")
  /\ r \notin Service /\ CanStart(r, started[p], targets[p])
  /\ state[r] # "ABSENT" /\ MayLaunch(r)
  /\ Become(r, "RUNNING") /\ Retrack(r, "RUNNING")
  /\ Note(started, p, r) /\ Drop(p)
  /\ UNCHANGED <<mode, running, journal, live, ended, attached, due, again, targets, failed,
                 skipped, history>>

\* create_task(instance.start()), then sleep(0).
StartLaunches(p, r) ==
  /\ Suspends(p, "starting", "launched")
  /\ r \in Service /\ CanStart(r, started[p], targets[p])
  /\ state[r] # "ABSENT" /\ MayLaunch(r)
  /\ Become(r, "STARTING") /\ Retrack(r, "STARTING")
  /\ live' = [live EXCEPT ![r] = @ + 1]
  /\ ended' = [ended EXCEPT ![r] = "none"]
  /\ attached' = [attached EXCEPT ![r] = FALSE]
  /\ UNCHANGED <<mode, running, journal, due, again, work, history>>

\* After sleep(0): a task that raised at once is a failed start.  A callback
\* that is due runs before what the end of its task wakes up.
Launched(p, r) ==
  /\ due[r] = "none" /\ GoesOn(p, "launched", "starting")
  /\ IF ended[r] = "raised"
     THEN /\ Become(r, "FAILED") /\ Track(r, "FAILED")
          /\ Note(failed, p, r) /\ UNCHANGED <<started, attached>>
     ELSE /\ Become(r, "RUNNING") /\ Track(r, "RUNNING")
          /\ attached' = [attached EXCEPT ![r] = ended[r] = "none"]
          /\ Note(started, p, r) /\ UNCHANGED failed
  /\ Drop(p)
  /\ UNCHANGED <<mode, running, journal, live, ended, due, again, targets, skipped, history>>

StartDone(p) ==
  /\ todo[p] = <<>> /\ Suspends(p, "starting", "idle") /\ Forget(p)
  /\ UNCHANGED <<mode, running, journal, runtimeVars, again, history>>
-----------------------------------------------------------------------------
(* stop().                                                                 *)

\* After a stop, done or refused: a change of mode sleeps and starts.
Leaves(p, here) == Suspends(p, here, IF again[p] THEN "sleeping" ELSE "idle")

StopRefused(p) ==
  /\ ~running /\ Leaves(p, "stop")
  /\ UNCHANGED <<mode, running, journal, runtimeVars, again, work, history>>

\* stop_event_journal waits for the last flush of a journal that was initialized,
\* for ever if an append holds its lock.
StopCloses(p) ==
  /\ running
  /\ \/ journal # "frozen" /\ GoesOn(p, "stop", "closed")
     \/ journal = "open" /\ Suspends(p, "stop", "closed")
     \/ journal = "frozen" /\ Suspends(p, "stop", "held")
  /\ UNCHANGED <<mode, running, journal, runtimeVars, again, work, history>>

StopPlans(p) ==
  /\ GoesOn(p, "closed", "stopping")
  /\ journal' = "none"
  /\ LET known == {r \in ModeTypes[mode] : state[r] # "ABSENT"}
     IN  /\ targets' = [targets EXCEPT ![p] = known]
         /\ todo' = [todo EXCEPT ![p] = ShutdownOrder(known)]
  /\ UNCHANGED <<mode, running, runtimeVars, again, outcomes, history>>

\* lifecycle.stop refuses; what the state machine was told stays.
StopFails(p, r) ==
  /\ GoesOn(p, "stopping", "stopping")
  /\ state[r] # "RUNNING"
  /\ IF state[r] = "ABSENT" THEN UNCHANGED <<tracked, failed>>
     ELSE Track(r, "STOPPING") /\ Note(failed, p, r)
  /\ Drop(p)
  /\ UNCHANGED <<mode, running, journal, state, live, ended, attached, due, again, targets,
                 started, skipped, history>>

StopPlain(p, r) ==
  /\ GoesOn(p, "stopping", "stopping")
  /\ state[r] = "RUNNING" /\ r \notin Service
  /\ Become(r, "STOPPED")
  /\ tracked' = [tracked EXCEPT ![r] = Transition(Transition(@, "STOPPING"), "STOPPED")]
  /\ Drop(p)
  /\ UNCHANGED <<mode, running, journal, live, ended, attached, due, again, targets, outcomes,
                 history>>

\* await instance.stop().
StopHalts(p, r) ==
  /\ Suspends(p, "stopping", "halting")
  /\ state[r] = "RUNNING" /\ r \in Service
  /\ Become(r, "STOPPING") /\ Track(r, "STOPPING")
  /\ UNCHANGED <<mode, running, journal, live, ended, attached, due, again, work, history>>

\* A mutant of HaltFailed: it is only reported.
HaltFailedStopping(p, r, here) ==
  /\ GoesOn(p, here, "stopping")
  /\ Note(failed, p, r) /\ Drop(p)
  /\ UNCHANGED <<mode, running, journal, runtimeVars, again, targets, started, skipped,
                 history>>

\* instance.stop() or the awaited task raised.
HaltFailed(p, r, here) ==
  /\ GoesOn(p, here, "stopping")
  /\ Become(r, "FAILED") /\ Note(failed, p, r) /\ Drop(p)
  /\ unhalted' = IF here = "halting" THEN unhalted \cup {r} ELSE unhalted
  /\ UNCHANGED <<mode, running, journal, tracked, live, ended, attached, due, again, targets,
                 started, skipped, commands, overlapped, left>>

HaltDone(p, r, here) ==
  /\ GoesOn(p, here, "stopping")
  /\ Become(r, "STOPPED") /\ Track(r, "STOPPED") /\ Drop(p)
  /\ UNCHANGED <<mode, running, journal, live, ended, attached, due, again, targets, outcomes,
                 history>>

\* A mutant of Halted: it does not wait for the task.
HaltedUnwaited(p, r) ==
  HaltFailed(p, r, "halting") \/ HaltDone(p, r, "halting")

\* instance.stop() has raised or returned.
Halted(p, r) ==
  \/ HaltFailed(p, r, "halting")
  \/ live[r] = 0 /\ HaltDone(p, r, "halting")
  \/ /\ live[r] > 0 /\ Suspends(p, "halting", "draining")
     /\ UNCHANGED <<mode, running, journal, runtimeVars, again, work, history>>

\* wait_for(task, 10): the task has ended, or has ended after it was cancelled.
Drained(p, r, here) ==
  /\ live[r] = 0 /\ due[r] = "none"
  /\ \/ ended[r] = "raised" /\ HaltFailed(p, r, here)
     \/ ended[r] = "returned" /\ HaltDone(p, r, here)

\* A mutant of DrainTimeout: no timeout.
DrainForever(p, r) == FALSE /\ Suspends(p, "draining", "cancelling")

\* The timeout cancels the task, which takes its time to clean up.
DrainTimeout(p, r) ==
  /\ live[r] > 0 /\ Suspends(p, "draining", "cancelling")
  /\ UNCHANGED <<mode, running, journal, runtimeVars, again, work, history>>

StopDone(p) ==
  /\ todo[p] = <<>> /\ Leaves(p, "stopping") /\ Forget(p)
  /\ running' = FALSE
  /\ left' = left \ targets[p]
  /\ UNCHANGED <<mode, journal, runtimeVars, again, commands, overlapped, unhalted>>

Slept(p) ==
  /\ GoesOn(p, "sleeping", "start")
  /\ again' = [again EXCEPT ![p] = FALSE]
  /\ UNCHANGED <<mode, running, journal, runtimeVars, work, history>>
-----------------------------------------------------------------------------
(* The start() task of a service, its done callback, and the journal.      *)

\* It returned or was cancelled, or it raised.
TaskEnds(r) ==
  /\ loop = Free /\ live[r] > 0 /\ due[r] = "none"
  /\ live' = [live EXCEPT ![r] = @ - 1]
  /\ \E how \in {"returned", "raised"} :
       /\ ended' = [ended EXCEPT ![r] = how]
       /\ due' = [due EXCEPT ![r] = IF attached[r] THEN how ELSE "none"]
  /\ UNCHANGED <<mode, running, journal, state, tracked, attached, loop, pc, again, work,
                 history>>

\* A mutant of OnDone: a task that returned needs no attention.
OnDoneRaisedOnly(r) ==
  /\ loop = Free /\ due[r] # "none"
  /\ due' = [due EXCEPT ![r] = "none"]
  /\ IF state[r] \notin {"STOPPING", "STOPPED"} /\ due[r] = "raised"
     THEN Become(r, "FAILED") ELSE UNCHANGED state
  /\ UNCHANGED <<mode, running, journal, tracked, live, ended, attached, loop, pc, again,
                 work, history>>

\* _on_done tells the registry, not the state machine.
OnDone(r) ==
  /\ loop = Free /\ due[r] # "none"
  /\ due' = [due EXCEPT ![r] = "none"]
  /\ IF state[r] \in {"STOPPING", "STOPPED"} THEN UNCHANGED state
     ELSE IF due[r] = "raised" THEN Become(r, "FAILED")
     ELSE IF state[r] = "RUNNING" THEN Become(r, "STOPPED")
     ELSE UNCHANGED state
  /\ UNCHANGED <<mode, running, journal, tracked, live, ended, attached, loop, pc, again,
                 work, history>>

\* Events fill the buffer of the journal; a stop() whose last flush has not begun
\* is held as well.
BufferFills ==
  /\ loop = Free /\ journal = "open"
  /\ journal' = "frozen"
  /\ \E late \in SUBSET {p \in Caller : pc[p] = "closed"} :
       pc' = [p \in Caller |-> IF p \in late THEN "held" ELSE pc[p]]
  /\ UNCHANGED <<mode, running, runtimeVars, loop, again, work, history>>
-----------------------------------------------------------------------------
Ask(p) ==
  AskStart(p) \/ AskStop(p) \/ \E m \in Mode : AskMode(p, m)

\* The loops of start() and stop() over the types still to do.
StepOn(p, r) ==
  /\ todo[p] # <<>> /\ r = Head(todo[p])
  /\ \/ StartVoid(p, r) \/ StartSkips(p, r) \/ StartFails(p, r)
     \/ StartPlain(p, r) \/ StartLaunches(p, r) \/ Launched(p, r)
     \/ StopFails(p, r) \/ StopPlain(p, r) \/ StopHalts(p, r)
     \/ Halted(p, r) \/ DrainTimeout(p, r)
     \/ Drained(p, r, "draining") \/ Drained(p, r, "cancelling")

Step(p) ==
  \/ ModeChanged(p)
  \/ StartRefused(p) \/ StartOpens(p) \/ StartPlans(p) \/ StartDone(p)
  \/ StopRefused(p) \/ StopCloses(p) \/ StopPlans(p) \/ StopDone(p) \/ Slept(p)
  \/ \E r \in Type : StepOn(p, r)

\* What the event loop does as long as there is something to do.
LoopRuns ==
  \/ \E p \in Caller : Step(p)
  \/ \E r \in Type : OnDone(r)

Next ==
  \/ LoopRuns
  \/ \E p \in Caller : Ask(p)
  \/ \E r \in Type : TaskEnds(r)
  \/ BufferFills

Spec == Init /\ [][Next]_vars /\ WF_vars(LoopRuns)
-----------------------------------------------------------------------------
(* Properties.                                                             *)

Idle == \A p \in Caller : pc[p] = "idle"

TypeOK ==
  /\ mode \in Mode /\ running \in BOOLEAN /\ journal \in {"none", "open", "frozen"}
  /\ state \in [Type -> {"ABSENT", "REGISTERED", "STARTING", "RUNNING", "STOPPING",
                         "STOPPED", "FAILED"}]
  /\ tracked \in [Type -> {"NONE", "STARTING", "RUNNING", "STOPPING", "STOPPED", "FAILED"}]
  /\ live \in [Type -> Nat]
  /\ ended \in [Type -> {"none", "returned", "raised"}]
  /\ attached \in [Type -> BOOLEAN]
  /\ due \in [Type -> {"none", "returned", "raised"}]
  /\ loop \in Caller \cup {Free}
  /\ pc \in [Caller -> {"idle", "start", "opened", "starting", "launched", "stop", "closed",
                        "held", "stopping", "halting", "draining", "cancelling", "sleeping",
                        "switched"}]
  /\ again \in [Caller -> BOOLEAN]
  /\ todo \in [Caller -> Seq(Type)]
  /\ targets \in [Caller -> SUBSET Type]
  /\ started \in [Caller -> SUBSET Type]
  /\ failed \in [Caller -> SUBSET Type]
  /\ skipped \in [Caller -> SUBSET Type]
  /\ commands \in 0..MaxCommands
  /\ overlapped \in BOOLEAN /\ left \subseteq Type /\ unhalted \subseteq Type

\* However commands overlap, a service never has two start() tasks at once.
OneTask == \A r \in Type : live[r] <= 1

\* A runtime that may be launched (again) has no task left from before.
StoppedMeansEnded ==
  \A r \in Type : state[r] \in {"ABSENT", "REGISTERED", "STOPPED"} => live[r] = 0

\* A service whose task has ended does not stay RUNNING: the task is live, or its
\* callback is due.  Not so a service whose start() returned before lifecycle.start
\* looked at it, within the sleep(0): it has no callback and stays RUNNING, though
\* nothing of it runs.
RunningIsLive ==
  \A r \in Type : state[r] = "RUNNING" /\ attached[r] => live[r] > 0 \/ due[r] # "none"

\* What start() does not start has failed, or lacks a dependency that has: the
\* order never makes it skip a runtime.
SkippedForCause ==
  \A p \in Caller : \A r \in skipped[p] :
    Required(r, targets[p]) \cap (failed[p] \cup skipped[p]) # {}

\* start() accounts for every runtime of the mode.
StartAccountsForAll ==
  \A p \in Caller : pc[p] \in {"starting", "launched"} =>
    targets[p] \subseteq Range(todo[p]) \cup started[p] \cup failed[p] \cup skipped[p]

\* stop() takes a runtime down only when those it serves are down.
DependentsStopFirst ==
  [][\A p \in Caller, r \in Type :
       pc[p] = "stopping" /\ state[r] = "RUNNING" /\ state'[r] # "RUNNING" /\ ~overlapped'
         => \A q \in targets[p] : r \in Dependencies[q] => state[q] # "RUNNING"]_vars

\* Without overlaps, nothing is up once stop() is done but what a change of mode
\* left running: no runtime is going up or down, and no start() task is live but
\* one whose instance.stop() raised,
StopIsComplete ==
  ~overlapped /\ Idle /\ ~running =>
    \A r \in Type \ left :
      /\ state[r] \notin {"STARTING", "RUNNING", "STOPPING"}
      /\ live[r] > 0 => r \in unhalted

\* and the state machine knows of what else the registry says is running.
TrackersAgree ==
  ~overlapped /\ Idle =>
    \A r \in Type \ left : state[r] = "RUNNING" => tracked[r] = "RUNNING"

\* A command has ended, or waits for what nobody promises: the flush of a frozen
\* journal, or the end of a task it has cancelled.
Settled ==
  \A p \in Caller :
    \/ pc[p] \in {"idle", "held"}
    \/ pc[p] = "cancelling" /\ live[Head(todo[p])] > 0

\* Every command ends, even when a service never ends by itself, unless it comes to
\* wait for a frozen journal or for a cancelled task that does not end.
CommandsEnd == ~Settled ~> Settled
=============================================================================
