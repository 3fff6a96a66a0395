-------------------------- MODULE TradingModeProofs --------------------------
(***************************************************************************)
(* Proofs about TradingMode, for any requests and orders.                  *)
(*                                                                         *)
(* ModeInv is the inductive invariant.  A request that has passed the      *)
(* confirmation and waits for the old adapter to go is approved, although  *)
(* the mode is not LIVE yet (DoorInv); an untouched request confirms       *)
(* nothing and owns no adapter, so that a new command cannot take an       *)
(* approval or an adapter's mode away (IdleInv).                           *)
(***************************************************************************)
EXTENDS TradingMode, Naturals, TLAPS

IdleInv ==
  \A r \in Request : phase[r] = "idle" => ~confirmed[r] /\ adapter # r

DoorInv ==
  \A r \in Request :
    phase[r] = "disconnecting" /\ target[r] = "live" => confirmed[r]

ModeInv ==
  TypeOK /\ IdleInv /\ DoorInv /\ AdapterFitsMode /\ RealTradingApproved

USE DEF Mode, RequireConfirmation

\* What a transition that goes ahead leaves behind.
LEMMA ProceedEffect ==
  ASSUME TypeOK, NEW r \in Request, NEW t \in Mode, NEW more \in BOOLEAN,
         Proceed(r, t, more) \/ Switch(r, t, more)
  PROVE  /\ mode' \in Mode /\ state' \in {"ACTIVE", "TRANSITIONING", "ERROR"}
         /\ phase' \in [Request -> {"idle", "disconnecting", "connecting", "callbacks", "done"}]
         /\ result' \in [Request -> {"none", "ok", "refused", "confirm", "error"}]
         /\ link' \in [Request -> {"none", "connecting", "up", "down"}]
         /\ phase'[r] # "idle"
         /\ \A q \in Request \ {r} : phase'[q] = phase[q]
         /\ \/ mode' = t /\ adapter' \in {r, NoAdapter}
            \/ mode' = mode /\ adapter' = adapter
  BY DEF TypeOK, Proceed, Switch, Answer

\* A transition goes ahead towards LIVE only when it is confirmed.
LEMMA AttemptEffect ==
  ASSUME TypeOK, NEW r \in Request, NEW t \in Mode, NEW yes \in BOOLEAN,
         NEW more \in BOOLEAN, Attempt(r, t, yes, more)
  PROVE  /\ mode' \in Mode /\ state' \in {"ACTIVE", "TRANSITIONING", "ERROR"}
         /\ phase' \in [Request -> {"idle", "disconnecting", "connecting", "callbacks", "done"}]
         /\ result' \in [Request -> {"none", "ok", "refused", "confirm", "error"}]
         /\ link' \in [Request -> {"none", "connecting", "up", "down"}]
         /\ phase'[r] # "idle"
         /\ \A q \in Request \ {r} : phase'[q] = phase[q]
         /\ \/ mode' = t /\ adapter' \in {r, NoAdapter}
            \/ mode' = mode /\ adapter' = adapter
         /\ \/ t # "live" \/ yes
            \/ mode' = mode /\ phase'[r] # "disconnecting"
<1>1. CASE Decision(state, mode, t, yes) = "go"
  <2>1. t # "live" \/ yes  BY <1>1 DEF Decision, TypeOK
  <2>2. Proceed(r, t, more)  BY <1>1 DEF Attempt
  <2>3. QED BY <2>1, <2>2, ProceedEffect
<1>2. CASE Decision(state, mode, t, yes) # "go"
  <2>1. Decision(state, mode, t, yes) \in {"refused", "ok", "confirm"}
    BY <1>2 DEF Decision, TypeOK
  <2>2. Answer(r, Decision(state, mode, t, yes)) /\ UNCHANGED <<modeVars, link>>
    BY <1>2 DEF Attempt
  <2>3. QED BY <2>1, <2>2 DEF Answer, modeVars, TypeOK
<1>3. QED BY <1>1, <1>2

\* A command of an idle request, in the terms the invariant speaks of.
LEMMA CommandEffect ==
  ASSUME TypeOK, NEW r \in Request, Command(r)
  PROVE  \E t \in Mode, yes \in BOOLEAN, more \in BOOLEAN, asked \in BOOLEAN :
           /\ Ask(r, t, yes, more)
           /\ asked => yes
           /\ \/ Attempt(r, t, asked, more)
              \/ Answer(r, "error") /\ UNCHANGED <<modeVars, link>>
<1>1. CASE \E t \in Mode : SwitchMode(r, t)
  BY <1>1 DEF SwitchMode
<1>2. CASE \E yes \in BOOLEAN : StartLive(r, yes)
  BY <1>2 DEF StartLive
<1>3. CASE \E t \in Mode, yes \in BOOLEAN : TransitionMode(r, t, yes)
  BY <1>3 DEF TransitionMode
<1>4. QED BY <1>1, <1>2, <1>3 DEF Command

LEMMA CommandKeeps ==
  ASSUME ModeInv, NEW r \in Request, Command(r)
  PROVE  ModeInv'
<1>0. TypeOK  BY DEF ModeInv
<1>1. PICK t \in Mode, yes \in BOOLEAN, more \in BOOLEAN, asked \in BOOLEAN :
        /\ Ask(r, t, yes, more)
        /\ asked => yes
        /\ \/ Attempt(r, t, asked, more)
           \/ Answer(r, "error") /\ UNCHANGED <<modeVars, link>>
  BY <1>0, CommandEffect
<1>2. /\ mode' \in Mode /\ state' \in {"ACTIVE", "TRANSITIONING", "ERROR"}
      /\ phase' \in [Request -> {"idle", "disconnecting", "connecting", "callbacks", "done"}]
      /\ result' \in [Request -> {"none", "ok", "refused", "confirm", "error"}]
      /\ link' \in [Request -> {"none", "connecting", "up", "down"}]
      /\ phase'[r] # "idle"
      /\ \A q \in Request \ {r} : phase'[q] = phase[q]
      /\ \/ mode' = t /\ adapter' \in {r, NoAdapter}
         \/ mode' = mode /\ adapter' = adapter
      /\ \/ t # "live" \/ yes
         \/ mode' = mode /\ phase'[r] # "disconnecting"
  <2>1. CASE Attempt(r, t, asked, more)
    BY <2>1, <1>0, <1>1, AttemptEffect
  <2>2. CASE Answer(r, "error") /\ UNCHANGED <<modeVars, link>>
    BY <2>2, <1>0 DEF Answer, modeVars, TypeOK
  <2>3. QED BY <1>1, <2>1, <2>2
<1>3. /\ phase[r] = "idle"
      /\ target' = [target EXCEPT ![r] = t]
      /\ confirmed' = [confirmed EXCEPT ![r] = yes]
      /\ again' = [again EXCEPT ![r] = more]
      /\ inReplay' = inReplay /\ order' = order
  BY <1>1 DEF Ask, routerVars
<1>4. ~confirmed[r] /\ adapter # r  BY <1>3 DEF ModeInv, IdleInv
<1>5. TypeOK'
  BY <1>0, <1>2, <1>3 DEF TypeOK
<1>6. IdleInv'
  <2> SUFFICES ASSUME NEW q \in Request, phase'[q] = "idle"
               PROVE  ~confirmed'[q] /\ adapter' # q
    BY DEF IdleInv
  <2>1. q # r /\ phase[q] = "idle"  BY <1>2
  <2>2. ~confirmed[q] /\ adapter # q  BY <2>1 DEF ModeInv, IdleInv
  <2>3. confirmed'[q] = confirmed[q]  BY <1>0, <1>3, <2>1 DEF TypeOK
  <2>4. adapter' # q  BY <1>2, <2>1, <2>2, ModeAssumption
  <2>5. QED BY <2>2, <2>3, <2>4
<1>7. DoorInv'
  BY <1>0, <1>2, <1>3 DEF ModeInv, DoorInv, TypeOK
<1>8. AdapterFitsMode'
  BY <1>0, <1>2, <1>3, <1>4, ModeAssumption DEF ModeInv, AdapterFitsMode, TypeOK
<1>9. Approved => Approved'
  BY <1>0, <1>3, <1>4 DEF Approved, TypeOK
<1>10. mode' = "live" /\ mode # "live" => Approved'
  BY <1>0, <1>2, <1>3 DEF Approved, TypeOK
<1>11. RealTradingApproved'
  BY <1>3, <1>9, <1>10 DEF ModeInv, RealTradingApproved
<1>12. QED BY <1>5, <1>6, <1>7, <1>8, <1>11 DEF ModeInv

LEMMA AnswerKeeps ==
  ASSUME ModeInv, NEW r \in Request, Answered(r)
  PROVE  ModeInv'
<1>0. TypeOK  BY DEF ModeInv
<1>1. /\ phase[r] # "idle"
      /\ target' = target /\ confirmed' = confirmed
      /\ again' \in [Request -> BOOLEAN]
      /\ inReplay' = inReplay /\ order' = order
  BY <1>0 DEF Answered, Disconnected, Connected, ConnectRaises, CallbacksDone,
              routerVars, TypeOK
<1>2. /\ mode' \in Mode /\ state' \in {"ACTIVE", "TRANSITIONING", "ERROR"}
      /\ phase' \in [Request -> {"idle", "disconnecting", "connecting", "callbacks", "done"}]
      /\ result' \in [Request -> {"none", "ok", "refused", "confirm", "error"}]
      /\ link' \in [Request -> {"none", "connecting", "up", "down"}]
      /\ phase'[r] # "idle"
      /\ \A q \in Request \ {r} : phase'[q] = phase[q]
      /\ \/ mode' = target[r] /\ adapter' \in {r, NoAdapter}
         \/ mode' = mode /\ adapter' = adapter
      /\ \/ target[r] # "live" \/ confirmed[r]
         \/ mode' = mode /\ phase'[r] # "disconnecting"
  <2>1. CASE Disconnected(r)
    <3>1. Switch(r, target[r], again[r])  BY <2>1 DEF Disconnected
    <3>2. target[r] # "live" \/ confirmed[r]
      BY <2>1 DEF Disconnected, ModeInv, DoorInv
    <3>3. target[r] \in Mode /\ again[r] \in BOOLEAN  BY <1>0 DEF TypeOK
    <3>4. QED BY <1>0, <3>1, <3>2, <3>3, ProceedEffect
  <2>2. CASE Connected(r)
    BY <2>2, <1>0 DEF Connected, modeVars, TypeOK
  <2>3. CASE ConnectRaises(r)
    <3> DEFINE d == IF again[r] THEN Decision("ERROR", mode, target[r], confirmed[r])
                                ELSE "error"
    <3>1. CASE d = "go"
      <4>1. target[r] # "live" \/ confirmed[r]
        BY <3>1, <1>0 DEF Decision, TypeOK
      <4>2. Proceed(r, target[r], FALSE)  BY <2>3, <3>1 DEF ConnectRaises
      <4>3. target[r] \in Mode  BY <1>0 DEF TypeOK
      <4>4. QED BY <1>0, <4>1, <4>2, <4>3, ProceedEffect
    <3>2. CASE d # "go"
      <4>1. d \in {"ok", "confirm", "error"}
        BY <3>2, <1>0 DEF Decision, TypeOK
      <4>2. /\ Answer(r, d) /\ state' = "ERROR"
            /\ link' = [link EXCEPT ![r] = "down"]
            /\ UNCHANGED <<mode, adapter>>
        BY <2>3, <3>2 DEF ConnectRaises
      <4>3. QED BY <1>0, <4>1, <4>2 DEF Answer, TypeOK
    <3>3. QED BY <3>1, <3>2
  <2>4. CASE CallbacksDone(r)
    BY <2>4, <1>0 DEF CallbacksDone, Answer, modeVars, TypeOK
  <2>5. QED BY <2>1, <2>2, <2>3, <2>4 DEF Answered
<1>3. TypeOK'
  BY <1>0, <1>1, <1>2 DEF TypeOK
<1>4. IdleInv'
  <2> SUFFICES ASSUME NEW q \in Request, phase'[q] = "idle"
               PROVE  ~confirmed'[q] /\ adapter' # q
    BY DEF IdleInv
  <2>1. q # r /\ phase[q] = "idle"  BY <1>2
  <2>2. ~confirmed[q] /\ adapter # q  BY <2>1 DEF ModeInv, IdleInv
  <2>3. adapter' # q  BY <1>0, <1>1, <1>2, <2>1, <2>2, ModeAssumption DEF TypeOK
  <2>4. QED BY <1>1, <2>2, <2>3
<1>5. DoorInv'
  BY <1>0, <1>1, <1>2 DEF ModeInv, DoorInv, TypeOK
<1>6. AdapterFitsMode'
  BY <1>0, <1>1, <1>2, ModeAssumption DEF ModeInv, AdapterFitsMode, TypeOK
<1>7. RealTradingApproved'
  BY <1>0, <1>1, <1>2 DEF ModeInv, RealTradingApproved, Approved, TypeOK
<1>8. QED BY <1>3, <1>4, <1>5, <1>6, <1>7 DEF ModeInv

LEMMA RouterKeeps ==
  ASSUME ModeInv, SetReplayMode \/ \E x \in Order : Execute(x)
  PROVE  ModeInv'
<1>1. UNCHANGED <<modeVars, requestVars, link>>
  BY DEF SetReplayMode, Execute
<1>2. TypeOK'
  <2>1. inReplay' \in BOOLEAN  BY DEF SetReplayMode, Execute, ModeInv, TypeOK
  <2>2. order' \in [Order -> Mode \union {"waiting", "blocked"}]
    BY DEF SetReplayMode, Execute, ModeInv, TypeOK
  <2>3. QED BY <1>1, <2>1, <2>2 DEF modeVars, requestVars, ModeInv, TypeOK
<1>3. IdleInv' /\ DoorInv' /\ AdapterFitsMode'
  BY <1>1 DEF ModeInv, IdleInv, DoorInv, AdapterFitsMode, modeVars, requestVars
<1>4. Approved' <=> Approved
  BY <1>1 DEF Approved, requestVars
<1>5. mode' = "live" => Approved'
  BY <1>1, <1>4 DEF ModeInv, RealTradingApproved, modeVars
<1>6. ASSUME NEW x \in Order, order'[x] = "live" PROVE Approved'
  <2>1. order[x] = "live" \/ mode = "live"
    BY <1>6 DEF SetReplayMode, Execute, ModeInv, TypeOK
  <2>2. QED BY <2>1, <1>4 DEF ModeInv, RealTradingApproved
<1>7. QED BY <1>2, <1>3, <1>5, <1>6 DEF ModeInv, RealTradingApproved

LEMMA ModeInvHolds == Spec => []ModeInv
<1>1. Init => ModeInv
  <2> SUFFICES ASSUME Init PROVE ModeInv  OBVIOUS
  <2>1. TypeOK
    BY ModeAssumption DEF Init, TypeOK
  <2>2. IdleInv
    <3> SUFFICES ASSUME NEW q \in Request PROVE ~confirmed[q] /\ adapter # q
      BY DEF IdleInv
    <3>1. QED BY ModeAssumption DEF Init
  <2>3. DoorInv
    BY DEF Init, DoorInv
  <2>4. AdapterFitsMode
    BY DEF Init, AdapterFitsMode
  <2>5. RealTradingApproved
    BY DEF Init, RealTradingApproved, Approved
  <2>6. QED BY <2>1, <2>2, <2>3, <2>4, <2>5 DEF ModeInv
<1>2. ModeInv /\ [Next]_vars => ModeInv'
  <2> SUFFICES ASSUME ModeInv, [Next]_vars PROVE ModeInv'  OBVIOUS
  <2>1. CASE \E r \in Request : Command(r)  BY <2>1, CommandKeeps
  <2>2. CASE \E r \in Request : Answered(r)  BY <2>2, AnswerKeeps
  <2>3. CASE SetReplayMode \/ \E x \in Order : Execute(x)  BY <2>3, RouterKeeps
  <2>4. CASE UNCHANGED vars
    BY <2>4 DEF ModeInv, TypeOK, IdleInv, DoorInv, AdapterFitsMode, Approved,
                RealTradingApproved, vars, modeVars, requestVars, routerVars
  <2>5. QED BY <2>1, <2>2, <2>3, <2>4 DEF Next
<1>3. QED BY <1>1, <1>2, PTL DEF Spec

\* The variables keep their types (TradingModeManager, ExecutionRouter).
THEOREM ModeTypeCorrect == Spec => []TypeOK
BY ModeInvHolds, PTL DEF ModeInv

\* transition_to never leaves the manager with another mode's adapter,
\* whatever transitions overtake each other.
THEOREM AdapterFits == Spec => []AdapterFitsMode
BY ModeInvHolds, PTL DEF ModeInv

\* No command path reaches LIVE, and no order an exchange, unconfirmed.
THEOREM RealTradingNeedsApproval == Spec => []RealTradingApproved
BY ModeInvHolds, PTL DEF ModeInv

-----------------------------------------------------------------------------
(* Orders while a transition is between two modes.                         *)

\* One transition at most waits for the old adapter, and nothing but its
\* own end makes the manager ACTIVE meanwhile: not so when a connect raises,
\* which puts ERROR, from where another transition may start.
GateInv ==
  \A r \in Request : phase[r] = "disconnecting" =>
    /\ state = "TRANSITIONING"
    /\ \A q \in Request : phase[q] = "disconnecting" => q = r

\* A transition that begins, or goes on, closes the gate or leaves it alone.
LEMMA GateOfAttempt ==
  ASSUME TypeOK, GateInv, NEW r \in Request, NEW t \in Mode, NEW yes \in BOOLEAN,
         NEW more \in BOOLEAN, Attempt(r, t, yes, more), phase[r] # "disconnecting"
  PROVE  GateInv'
<1>1. CASE Decision(state, mode, t, yes) = "go"
  <2>1. state # "TRANSITIONING"  BY <1>1 DEF Decision
  <2>2. \A q \in Request : phase[q] # "disconnecting"  BY <2>1 DEF GateInv
  <2>3. Proceed(r, t, more)  BY <1>1 DEF Attempt
  <2>4. \/ phase' = [phase EXCEPT ![r] = "disconnecting"] /\ state' = "TRANSITIONING"
        \/ phase' = [phase EXCEPT ![r] = "connecting"]
        \/ phase' = [phase EXCEPT ![r] = "done"]
    BY <2>3 DEF Proceed, Switch, Answer
  <2>5. QED BY <2>2, <2>4 DEF GateInv, TypeOK
<1>2. CASE Decision(state, mode, t, yes) # "go"
  <2>1. phase' = [phase EXCEPT ![r] = "done"] /\ state' = state
    BY <1>2 DEF Attempt, Answer, modeVars
  <2>2. QED BY <2>1 DEF GateInv, TypeOK
<1>3. QED BY <1>1, <1>2

LEMMA GateStep ==
  ASSUME ~ConnectMayRaise, TypeOK, GateInv, [Next]_vars
  PROVE  GateInv'
<1>1. ASSUME NEW r \in Request, Command(r) PROVE GateInv'
  <2>1. PICK t \in Mode, yes \in BOOLEAN, more \in BOOLEAN, asked \in BOOLEAN :
          /\ Ask(r, t, yes, more)
          /\ \/ Attempt(r, t, asked, more)
             \/ Answer(r, "error") /\ UNCHANGED <<modeVars, link>>
    BY <1>1, CommandEffect
  <2>2. phase[r] = "idle"  BY <2>1 DEF Ask
  <2>3. CASE Attempt(r, t, asked, more)
    BY <2>2, <2>3, GateOfAttempt
  <2>4. CASE Answer(r, "error") /\ UNCHANGED <<modeVars, link>>
    <3>1. phase' = [phase EXCEPT ![r] = "done"] /\ state' = state
      BY <2>4 DEF Answer, modeVars
    <3>2. QED BY <3>1 DEF GateInv, TypeOK
  <2>5. QED BY <2>1, <2>3, <2>4
<1>2. ASSUME NEW r \in Request, Disconnected(r) PROVE GateInv'
  <2>1. \A q \in Request : phase[q] = "disconnecting" => q = r
    BY <1>2 DEF Disconnected, GateInv
  <2>2. \/ phase' = [phase EXCEPT ![r] = "connecting"]
        \/ phase' = [phase EXCEPT ![r] = "done"]
    BY <1>2 DEF Disconnected, Switch, Answer
  <2>3. QED BY <2>1, <2>2 DEF GateInv, TypeOK
<1>3. ASSUME NEW r \in Request, Connected(r) \/ CallbacksDone(r) PROVE GateInv'
  <2>1. /\ state' = state
        /\ \/ phase' = [phase EXCEPT ![r] = "callbacks"]
           \/ phase' = [phase EXCEPT ![r] = "done"]
    BY <1>3 DEF Connected, CallbacksDone, Answer, modeVars
  <2>2. QED BY <2>1 DEF GateInv, TypeOK
<1>4. CASE UNCHANGED vars \/ SetReplayMode \/ \E x \in Order : Execute(x)
  <2>1. UNCHANGED <<phase, state>>
    BY <1>4 DEF vars, modeVars, requestVars, SetReplayMode, Execute
  <2>2. QED BY <2>1 DEF GateInv
<1>5. \A r \in Request : ~ConnectRaises(r)  BY DEF ConnectRaises
<1>6. QED BY <1>1, <1>2, <1>3, <1>4, <1>5 DEF Next, Answered

\* The router asks for the mode and its state and sends the order without a
\* suspension in between: it goes to the adapter of the current mode, and
\* while a transition is between two modes it is blocked.  That holds as long as
\* no adapter's connect() raises.
THEOREM OrdersKeepToTheMode ==
  ASSUME ~ConnectMayRaise
  PROVE  Spec => OrdersFollowMode
<1>1. Init => GateInv  BY DEF Init, GateInv
<1>2. TypeOK /\ GateInv /\ [Next]_vars => GateInv'
  BY GateStep
<1>3. TypeOK /\ GateInv /\ [Next]_vars =>
        [\A x \in Order : order[x] = "waiting" /\ order'[x] \in Mode =>
           /\ order'[x] = mode
           /\ \A r \in Request : phase[r] # "disconnecting"]_vars
  <2> SUFFICES ASSUME TypeOK, GateInv, Next, NEW x \in Order,
                      order[x] = "waiting", order'[x] \in Mode
               PROVE  order'[x] = mode /\ \A r \in Request : phase[r] # "disconnecting"
    OBVIOUS
  <2>1. order' # order  BY DEF Mode
  <2>2. \A r \in Request : ~Command(r) /\ ~Answered(r)
    BY <2>1 DEF Command, SwitchMode, StartLive, TransitionMode, Ask, Answered, Disconnected,
                Connected, ConnectRaises, CallbacksDone, routerVars
  <2>3. PICK y \in Order : Execute(y)  BY <2>1, <2>2 DEF Next, SetReplayMode
  <2>4. state = "ACTIVE" /\ order'[x] = mode
    BY <2>3 DEF Execute, TypeOK, Mode
  <2>5. QED BY <2>4 DEF GateInv
<1>4. QED BY <1>1, <1>2, <1>3, ModeTypeCorrect, PTL DEF Spec, OrdersFollowMode

-----------------------------------------------------------------------------
(* Transitions on their way.                                               *)

\* Between two modes, somebody waits for the old adapter to go.
HeldOpen == state = "TRANSITIONING" => \E r \in Request : phase[r] = "disconnecting"

\* What a request does to the state: it leaves it, with its own wait not begun nor
\* over, or it sets it, TRANSITIONING only as it begins to wait.
LEMMA StateEffect ==
  ASSUME TypeOK, NEW r \in Request, Command(r) \/ Answered(r)
  PROVE  /\ \A q \in Request \ {r} : phase'[q] = phase[q]
         /\ \/ state' = state /\ phase[r] # "disconnecting"
            \/ state' \in {"ACTIVE", "ERROR"}
            \/ phase'[r] = "disconnecting"
<1>1. ASSUME NEW t \in Mode, NEW more \in BOOLEAN, Proceed(r, t, more) \/ Switch(r, t, more)
      PROVE  /\ \A q \in Request \ {r} : phase'[q] = phase[q]
             /\ state' \in {"ACTIVE", "ERROR"} \/ phase'[r] = "disconnecting"
  BY <1>1 DEF Proceed, Switch, Answer, TypeOK
<1>2. CASE Command(r)
  <2>1. PICK t \in Mode, yes \in BOOLEAN, more \in BOOLEAN, asked \in BOOLEAN :
          /\ Ask(r, t, yes, more)
          /\ \/ Attempt(r, t, asked, more)
             \/ Answer(r, "error") /\ UNCHANGED <<modeVars, link>>
    BY <1>2, CommandEffect
  <2>2. phase[r] # "disconnecting"  BY <2>1 DEF Ask
  <2>3. Proceed(r, t, more) \/ \E a : Answer(r, a) /\ UNCHANGED modeVars
    BY <2>1 DEF Attempt
  <2>4. QED BY <1>1, <2>2, <2>3 DEF Answer, modeVars, TypeOK
<1>3. CASE Disconnected(r)
  BY <1>1, <1>3 DEF Disconnected, TypeOK
<1>4. CASE Connected(r) \/ CallbacksDone(r)
  BY <1>4 DEF Connected, CallbacksDone, Answer, modeVars, TypeOK
<1>5. CASE ConnectRaises(r)
  <2>1. \/ Proceed(r, target[r], FALSE)
        \/ state' = "ERROR" /\ \E a : Answer(r, a)
    BY <1>5 DEF ConnectRaises
  <2>2. target[r] \in Mode  BY DEF TypeOK
  <2>3. QED BY <1>1, <2>1, <2>2 DEF Answer, TypeOK
<1>6. QED BY <1>2, <1>3, <1>4, <1>5 DEF Answered

\* The manager refuses transitions for being TRANSITIONING only as long as some
\* transition is about to end that: no failure of an adapter leaves it so.
THEOREM TransitionsAreHeldOpen == Spec => []HeldOpen
<1>1. Init => HeldOpen  BY DEF Init, HeldOpen
<1>2. TypeOK /\ HeldOpen /\ [Next]_vars => HeldOpen'
  <2> SUFFICES ASSUME TypeOK, HeldOpen, [Next]_vars PROVE HeldOpen'  OBVIOUS
  <2>1. ASSUME NEW r \in Request, Command(r) \/ Answered(r) PROVE HeldOpen'
    BY <2>1, StateEffect DEF HeldOpen
  <2>2. CASE UNCHANGED vars \/ SetReplayMode \/ \E x \in Order : Execute(x)
    <3>1. UNCHANGED <<phase, state>>
      BY <2>2 DEF vars, modeVars, requestVars, SetReplayMode, Execute
    <3>2. QED BY <3>1 DEF HeldOpen
  <2>3. QED BY <2>1, <2>2 DEF Next
<1>3. QED BY <1>1, <1>2, ModeTypeCorrect, PTL DEF Spec

Stage == [disconnecting |-> 3, connecting |-> 2, callbacks |-> 1, done |-> 0]

\* The second attempt of transition_mode is used up, or the attempt goes on.
Onward(r) ==
  \/ again[r] /\ ~again'[r]
  \/ again'[r] = again[r] /\ Stage[phase'[r]] < Stage[phase[r]]

LEMMA AnsweredGoesOnward ==
  ASSUME TypeOK, NEW r \in Request, Answered(r)
  PROVE  Onward(r) /\ \A q \in Request \ {r} : again'[q] = again[q]
<1>1. CASE Disconnected(r)
  <2>1. phase[r] = "disconnecting" /\ phase'[r] \in {"connecting", "done"} /\ again' = again
    BY <1>1 DEF Disconnected, Switch, Answer, TypeOK
  <2>2. QED BY <2>1 DEF Onward, Stage
<1>2. CASE Connected(r) \/ CallbacksDone(r)
  BY <1>2 DEF Connected, CallbacksDone, Answer, TypeOK, Onward, Stage
<1>3. CASE ConnectRaises(r)
  <2>1. phase[r] = "connecting" /\ again' = [again EXCEPT ![r] = FALSE]
    BY <1>3 DEF ConnectRaises
  <2>2. \A q \in Request \ {r} : again'[q] = again[q]
    BY <2>1 DEF TypeOK
  <2>3. ASSUME again[r] PROVE Onward(r)
    BY <2>1, <2>3 DEF Onward, TypeOK
  <2>4. ASSUME ~again[r] PROVE Onward(r)
    <3>1. phase' = [phase EXCEPT ![r] = "done"]
      BY <1>3, <2>4 DEF ConnectRaises, Answer
    <3>2. Stage[phase'[r]] < Stage[phase[r]]
      BY <2>1, <3>1 DEF Stage, TypeOK
    <3>3. again'[r] = again[r]
      BY <2>1, <2>4 DEF TypeOK
    <3>4. QED BY <3>2, <3>3 DEF Onward
  <2>5. QED BY <2>2, <2>3, <2>4
<1>4. QED BY <1>1, <1>2, <1>3 DEF Answered

\* A transition under way goes through its stages once, and once more if its caller
\* has a second attempt; nobody else's steps take it back, and when it is done it
\* stays done.
THEOREM TransitionsAdvance ==
  Spec => [][\A r \in Request : phase[r] # "idle" =>
               (phase'[r] = phase[r] /\ again'[r] = again[r]) \/ Onward(r)]_vars
<1> DEFINE Rule == \A r \in Request : phase[r] # "idle" =>
                     (phase'[r] = phase[r] /\ again'[r] = again[r]) \/ Onward(r)
<1>1. TypeOK /\ [Next]_vars => [Rule]_vars
  <2> SUFFICES ASSUME TypeOK, Next, NEW r \in Request, phase[r] # "idle"
               PROVE  (phase'[r] = phase[r] /\ again'[r] = again[r]) \/ Onward(r)
    OBVIOUS
  <2>1. ASSUME NEW q \in Request, Command(q) \/ Answered(q)
        PROVE  (phase'[r] = phase[r] /\ again'[r] = again[r]) \/ Onward(r)
    <3>1. CASE q = r
      <4>1. ~Command(r)  BY DEF Command, SwitchMode, StartLive, TransitionMode, Ask
      <4>2. QED BY <2>1, <3>1, <4>1, AnsweredGoesOnward
    <3>2. CASE q # r
      <4>1. phase'[r] = phase[r]  BY <2>1, <3>2, StateEffect
      <4>2. CASE Command(q)
        <5>1. \E more \in BOOLEAN : again' = [again EXCEPT ![q] = more]
          BY <4>2, CommandEffect DEF Ask
        <5>2. QED BY <3>2, <4>1, <5>1 DEF TypeOK
      <4>3. CASE Answered(q)
        BY <3>2, <4>1, <4>3, AnsweredGoesOnward
      <4>4. QED BY <2>1, <4>2, <4>3
    <3>3. QED BY <3>1, <3>2
  <2>2. CASE SetReplayMode \/ \E x \in Order : Execute(x)
    BY <2>2 DEF SetReplayMode, Execute, requestVars
  <2>3. QED BY <2>1, <2>2 DEF Next
<1>2. QED BY <1>1, ModeTypeCorrect, PTL DEF Spec
=============================================================================
