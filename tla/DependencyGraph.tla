--------------------------- MODULE DependencyGraph ---------------------------
(***************************************************************************)
(* RuntimeDependencyGraph (dependency_graph.py): in which order the types  *)
(* of runtimes are started and stopped, and which of them may be started.  *)
(*                                                                         *)
(* The sorted queue of get_startup_order always begins with the type of    *)
(* the highest priority among those whose dependencies have been placed.   *)
(* The catalogue's priorities differ from each other and its dependencies  *)
(* form no cycle; a graph with a cycle makes get_startup_order raise.      *)
(***************************************************************************)
EXTENDS Naturals, FiniteSets, Sequences

SeqExt == INSTANCE SequencesExt

CONSTANTS
  Type,          \* RuntimeType
  Dependencies,  \* RuntimeSpec.dependencies of each type
  Priority,      \* RuntimeSpec.priority
  Optional       \* the types whose spec is optional

ASSUME GraphAssumption ==
  /\ IsFiniteSet(Type)
  /\ Dependencies \in [Type -> SUBSET Type]
  /\ Priority \in [Type -> Nat]
  /\ \A r, q \in Type : Priority[r] = Priority[q] => r = q
  /\ Optional \subseteq Type
  /\ \A S \in SUBSET Type : S # {} => \E r \in S : Dependencies[r] \cap S = {}

\* A mutant of Ready: the in-degree counts dependencies outside the targets.
ReadyInGraph(targets, placed) ==
  {r \in targets \ placed : Dependencies[r] \subseteq placed}

Ready(targets, placed) ==
  {r \in targets \ placed : Dependencies[r] \cap targets \subseteq placed}

Foremost(types) == CHOOSE r \in types : \A q \in types : Priority[q] <= Priority[r]

\* `runtimes or set(nodes)': no target at all stands for every type.
Targets(runtimes) == IF runtimes = {} THEN Type ELSE runtimes

\* The loop of get_startup_order: the foremost ready type, until none is ready.
StartupOrder(runtimes) ==
  LET targets == Targets(runtimes)
      order[placed \in SUBSET targets] ==
        LET ready == Ready(targets, placed)
        IN  IF ready = {} THEN <<>>
            ELSE <<Foremost(ready)>> \o order[placed \cup {Foremost(ready)}]
  IN  order[{}]

\* A mutant of ShutdownOrder: not reversed.
ShutdownForward(runtimes) == StartupOrder(runtimes)

ShutdownOrder(runtimes) == SeqExt!Reverse(StartupOrder(runtimes))

\* What can_start() waits for: a dependency that is no target, or an optional
\* one, is not required.
Required(r, targets) == (Dependencies[r] \cap targets) \ Optional

\* A mutant of CanStart: a dependency is required, target or not.
CanStartOfAll(r, started, targets) == Dependencies[r] \ Optional \subseteq started

CanStart(r, started, targets) == Required(r, targets) \subseteq started
=============================================================================
