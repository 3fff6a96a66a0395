----------------------------- MODULE TradingMode -----------------------------
(***************************************************************************)
(* TradingModeManager (trading_mode_manager.py): which mode the program    *)
(* trades in and the exchange adapter of that mode, with the commands that *)
(* ask for a transition and the ExecutionRouter that sends orders.         *)
(*                                                                         *)
(* HTTP requests run as tasks of one event loop.  A transition suspends    *)
(* while it disconnects the old adapter, while it connects the new one and *)
(* while the callbacks run; the new mode is ACTIVE before the connect is   *)
(* awaited, so another transition may overtake it.                         *)
(*                                                                         *)
(* force=True acts as confirmed=True.  The transition history, the stats,  *)
(* the portfolios and the choice of the exchange are left out; what the    *)
(* callbacks do belongs to the orchestrator.                               *)
(***************************************************************************)
CONSTANTS
  Request,          \* tasks that ask for a transition
  Order,            \* orders given to ExecutionRouter.execute
  InitialMode,      \* TRADING_MODE
  ConnectMayRaise   \* whether an adapter's connect() can raise
CONSTANT NoAdapter

Mode == {"backtest", "paper", "live"}

ASSUME ModeAssumption ==
  /\ InitialMode \in Mode
  /\ ConnectMayRaise \in BOOLEAN
  /\ NoAdapter \notin Request

VARIABLES
  mode,       \* _mode
  state,      \* _state
  adapter,    \* _adapter, named by the request that created it
  phase,      \* transition_to: idle, disconnecting, connecting, callbacks, done
  target,     \* its target_mode
  confirmed,  \* whether the caller confirmed
  again,      \* transition_mode has its second attempt left
  result,     \* what the caller got
  link,       \* connection of the adapter this request created
  inReplay,   \* _in_replay
  order       \* where the order went: waiting, blocked or the mode's adapter

modeVars == <<mode, state, adapter>>
requestVars == <<phase, target, confirmed, again, result>>
routerVars == <<inReplay, order>>
vars == <<modeVars, requestVars, link, routerVars>>

Init ==
  /\ mode = InitialMode /\ state = "ACTIVE" /\ adapter = NoAdapter
  /\ phase = [r \in Request |-> "idle"]
  /\ target = [r \in Request |-> InitialMode]
  /\ confirmed = [r \in Request |-> FALSE]
  /\ again = [r \in Request |-> FALSE]
  /\ result = [r \in Request |-> "none"]
  /\ link = [r \in Request |-> "none"]
  /\ inReplay = FALSE
  /\ order = [x \in Order |-> "waiting"]

-----------------------------------------------------------------------------
(* transition_to.                                                          *)

RequireConfirmation == {"live"}

\* What transition_to answers, or that it goes ahead.
Decision(st, current, t, yes) ==
  CASE st = "TRANSITIONING" -> "refused"
    [] st # "TRANSITIONING" /\ t = current -> "ok"
    [] st # "TRANSITIONING" /\ t # current ->
         IF t \in RequireConfirmation /\ ~yes THEN "confirm" ELSE "go"

Answer(r, a) ==
  /\ phase' = [phase EXCEPT ![r] = "done"]
  /\ result' = [result EXCEPT ![r] = a]

\* A mutant of Switch: the state is not reset when the constructor raises.
SwitchLeavesState(r, t, more) ==
  /\ mode' = t
  /\ \/ /\ state' = "ACTIVE" /\ adapter' = r
        /\ link' = [link EXCEPT ![r] = "connecting"]
        /\ phase' = [phase EXCEPT ![r] = "connecting"]
        /\ UNCHANGED result
     \/ /\ adapter' = NoAdapter
        /\ Answer(r, IF more THEN "ok" ELSE "error")
        /\ UNCHANGED <<state, link>>

\* The adapter's constructor may raise: the new mode is then in ERROR, and
\* the second attempt of transition_mode finds itself in its target mode.
Switch(r, t, more) ==
  /\ mode' = t
  /\ \/ /\ state' = "ACTIVE" /\ adapter' = r
        /\ link' = [link EXCEPT ![r] = "connecting"]
        /\ phase' = [phase EXCEPT ![r] = "connecting"]
        /\ UNCHANGED result
     \/ /\ state' = "ERROR" /\ adapter' = NoAdapter
        /\ Answer(r, IF more THEN "ok" ELSE "error")
        /\ UNCHANGED link

\* A mutant of Proceed: the mode is set before the old adapter is gone.
ProceedAtOnce(r, t, more) ==
  IF adapter = NoAdapter THEN Switch(r, t, more)
  ELSE /\ state' = "TRANSITIONING" /\ mode' = t
       /\ phase' = [phase EXCEPT ![r] = "disconnecting"]
       /\ UNCHANGED <<adapter, result, link>>

Proceed(r, t, more) ==
  IF adapter = NoAdapter THEN Switch(r, t, more)
  ELSE /\ state' = "TRANSITIONING"
       /\ phase' = [phase EXCEPT ![r] = "disconnecting"]
       /\ UNCHANGED <<mode, adapter, result, link>>

Attempt(r, t, yes, more) ==
  LET d == Decision(state, mode, t, yes) IN
  \/ d = "go" /\ Proceed(r, t, more)
  \/ d # "go" /\ Answer(r, d) /\ UNCHANGED <<modeVars, link>>

Disconnected(r) ==
  /\ phase[r] = "disconnecting"
  /\ Switch(r, target[r], again[r])
  /\ UNCHANGED <<target, confirmed, again, routerVars>>

\* connect() answers True or False, which nobody looks at.
Connected(r) ==
  /\ phase[r] = "connecting"
  /\ phase' = [phase EXCEPT ![r] = "callbacks"]
  /\ link' = [link EXCEPT ![r] = "up"] \/ link' = [link EXCEPT ![r] = "down"]
  /\ UNCHANGED <<modeVars, target, confirmed, again, result, routerVars>>

\* The state becomes ERROR whatever other transition is under way.
ConnectRaises(r) ==
  LET d == IF again[r] THEN Decision("ERROR", mode, target[r], confirmed[r])
                       ELSE "error" IN
  /\ ConnectMayRaise /\ phase[r] = "connecting"
  /\ again' = [again EXCEPT ![r] = FALSE]
  /\ \/ d = "go" /\ Proceed(r, target[r], FALSE)
     \/ /\ d # "go" /\ Answer(r, d)
        /\ state' = "ERROR"
        /\ link' = [link EXCEPT ![r] = "down"]
        /\ UNCHANGED <<mode, adapter>>
  /\ UNCHANGED <<target, confirmed, routerVars>>

CallbacksDone(r) ==
  /\ phase[r] = "callbacks"
  /\ Answer(r, "ok")
  /\ UNCHANGED <<modeVars, target, confirmed, again, link, routerVars>>

-----------------------------------------------------------------------------
(* The commands.  orchestrator.switch_mode never passes a confirmation.    *)

Ask(r, t, yes, more) ==
  /\ phase[r] = "idle"
  /\ target' = [target EXCEPT ![r] = t]
  /\ confirmed' = [confirmed EXCEPT ![r] = yes]
  /\ again' = [again EXCEPT ![r] = more]
  /\ UNCHANGED routerVars

SwitchMode(r, t) == Ask(r, t, FALSE, FALSE) /\ Attempt(r, t, FALSE, FALSE)

\* Without a confirmation the command raises.
StartLive(r, yes) ==
  /\ Ask(r, "live", yes, FALSE)
  /\ \/ yes /\ Attempt(r, "live", FALSE, FALSE)
     \/ ~yes /\ Answer(r, "error") /\ UNCHANGED <<modeVars, link>>

\* A mutant of TransitionMode: the second attempt counts as confirmed.
TransitionModeForced(r, t, yes) ==
  LET first == Decision(state, mode, t, FALSE) IN
  \/ first \in {"go", "ok"} /\ Ask(r, t, yes, TRUE) /\ Attempt(r, t, FALSE, TRUE)
  \/ /\ first \notin {"go", "ok"}
     /\ Ask(r, t, yes, FALSE) /\ Attempt(r, t, TRUE, FALSE)

\* Tried unconfirmed first; a failure is tried again with the confirmation.
TransitionMode(r, t, yes) ==
  LET first == Decision(state, mode, t, FALSE) IN
  \/ first \in {"go", "ok"} /\ Ask(r, t, yes, TRUE) /\ Attempt(r, t, FALSE, TRUE)
  \/ /\ first \notin {"go", "ok"}
     /\ Ask(r, t, yes, FALSE) /\ Attempt(r, t, yes, FALSE)

-----------------------------------------------------------------------------
(* ExecutionRouter.                                                        *)

SetReplayMode ==
  /\ inReplay' \in BOOLEAN /\ inReplay' # inReplay
  /\ UNCHANGED <<modeVars, requestVars, link, order>>

\* A mutant of Execute: the mode is looked at, the safety rules are not.
ExecuteUnchecked(x) ==
  /\ order[x] = "waiting"
  /\ order' = [order EXCEPT ![x] = mode]
  /\ UNCHANGED <<modeVars, requestVars, link, inReplay>>

\* A mutant of Execute: an order that is not safe is kept under the state.
ExecuteFiled(x) ==
  /\ order[x] = "waiting"
  /\ order' = [order EXCEPT ![x] =
       IF state = "ACTIVE" /\ ~inReplay THEN mode ELSE state]
  /\ UNCHANGED <<modeVars, requestVars, link, inReplay>>

\* No await between the safety rules and the adapter's create_order.
Execute(x) ==
  /\ order[x] = "waiting"
  /\ order' = [order EXCEPT ![x] =
       IF state = "ACTIVE" /\ ~inReplay THEN mode ELSE "blocked"]
  /\ UNCHANGED <<modeVars, requestVars, link, inReplay>>

Command(r) ==
  \/ \E t \in Mode : SwitchMode(r, t)
  \/ \E yes \in BOOLEAN : StartLive(r, yes)
  \/ \E t \in Mode, yes \in BOOLEAN : TransitionMode(r, t, yes)

Answered(r) == Disconnected(r) \/ Connected(r) \/ ConnectRaises(r) \/ CallbacksDone(r)

Next ==
  \/ \E r \in Request : Command(r) \/ Answered(r)
  \/ \E x \in Order : Execute(x)
  \/ SetReplayMode

\* Adapters answer and callbacks return.
Fairness == \A r \in Request : WF_vars(Answered(r))

Spec == Init /\ [][Next]_vars /\ Fairness

-----------------------------------------------------------------------------
TypeOK ==
  /\ mode \in Mode
  /\ state \in {"ACTIVE", "TRANSITIONING", "ERROR"}
  /\ adapter \in Request \union {NoAdapter}
  /\ phase \in [Request -> {"idle", "disconnecting", "connecting", "callbacks", "done"}]
  /\ target \in [Request -> Mode]
  /\ confirmed \in [Request -> BOOLEAN]
  /\ again \in [Request -> BOOLEAN]
  /\ result \in [Request -> {"none", "ok", "refused", "confirm", "error"}]
  /\ link \in [Request -> {"none", "connecting", "up", "down"}]
  /\ inReplay \in BOOLEAN
  /\ order \in [Order -> Mode \union {"waiting", "blocked"}]

\* The adapter in use is the one of the current mode, also while transitions
\* overtake each other: paper trading never holds the live adapter.
AdapterFitsMode == adapter # NoAdapter => target[adapter] = mode

Approved ==
  InitialMode = "live" \/ \E r \in Request : target[r] = "live" /\ confirmed[r]

\* The program trades for real, and a real order is sent, only after a caller
\* confirmed the LIVE mode, whichever command and however many attempts.
RealTradingApproved ==
  mode = "live" \/ (\E x \in Order : order[x] = "live") => Approved

\* No order goes out while a transition is between two modes.
OrdersFollowMode ==
  [][\A x \in Order : order[x] = "waiting" /\ order'[x] \in Mode =>
       /\ order'[x] = mode
       /\ \A r \in Request : phase[r] # "disconnecting"]_vars

\* A transition does not stay half done, and its caller gets an answer.
TransitionsEnd ==
  /\ state = "TRANSITIONING" ~> state # "TRANSITIONING"
  /\ \A r \in Request : phase[r] # "idle" ~> phase[r] = "done"

\* is_safe_to_trade says that real trading is enabled: the page calls the
\* system safe and says that LIVE connects to the exchange.
SafeMeansConnected ==
  \A r \in Request :
    mode = "live" /\ state = "ACTIVE" /\ adapter = r /\ result[r] = "ok" =>
      link[r] = "up"

\* The command bus refuses to start LIVE without a confirmation; with one,
\* it does not ask for a confirmation.
ConfirmedIsEnough == \A r \in Request : confirmed[r] => result[r] # "confirm"
=============================================================================
