------------------------ MODULE DependencyGraphProofs ------------------------
(***************************************************************************)
(* Proofs about module DependencyGraph for any catalogue that meets        *)
(* GraphAssumption: what the recursive function in StartupOrder computes.  *)
(* The induction is over finite sets, in the form of a least               *)
(* counterexample: a set of counterexamples that is not empty has a        *)
(* member that is least.                                                   *)
(***************************************************************************)
EXTENDS DependencyGraph, FiniteSetTheorems, SequenceTheorems, TLAPS

LEMMA LeastSubset ==
  ASSUME NEW S, IsFiniteSet(S), NEW W \in SUBSET SUBSET S, W # {}
  PROVE  \E T \in W : \A U \in W : U \subseteq T => U = T
  <1>1. IsWellFoundedOn(StrictSubsetOrdering(S), SUBSET S)
    BY FS_StrictSubsetOrderingWellFounded, FS_FiniteSubsetsOfFinite
  <1>2. PICK T \in W : \A U \in W : ~ (<<U, T>> \in StrictSubsetOrdering(S))
    BY <1>1, WFMin
  <1> QED
    BY <1>2 DEF StrictSubsetOrdering

LEMMA LeastNatural ==
  ASSUME NEW W \in SUBSET Nat, W # {}
  PROVE  \E n \in W : \A m \in W : n <= m
  <1>1. PICK n \in W : \A m \in W : ~ (<<m, n>> \in OpToRel(<, Nat))
    BY NatLessThanWellFounded, WFMin
  <1>2. \A m \in W : ~ (m < n)
    BY <1>1 DEF OpToRel
  <1> QED
    BY <1>2

\* The type at the head of the sorted queue is one of the queue.
LEMMA ForemostIsFirst ==
  ASSUME NEW types \in SUBSET Type, types # {}
  PROVE  /\ Foremost(types) \in types
         /\ \A q \in types : Priority[q] <= Priority[Foremost(types)]
  <1> DEFINE First(S) == \E r \in S : \A q \in S : Priority[q] <= Priority[r]
             W == {S \in SUBSET Type : S # {} /\ ~First(S)}
  <1>1. W = {}
    <2> SUFFICES ASSUME W # {} PROVE FALSE
      OBVIOUS
    <2>1. PICK S \in W : \A U \in W : U \subseteq S => U = S
      <3>1. W \in SUBSET SUBSET Type /\ IsFiniteSet(Type)
        BY GraphAssumption
      <3> HIDE DEF W
      <3> QED
        BY <3>1, LeastSubset
    <2>2. PICK r \in S : S \in SUBSET Type
      OBVIOUS
    <2>3. CASE S = {r}
      <3>1. First(S)
        BY <2>3, GraphAssumption
      <3> QED
        BY <3>1
    <2>4. CASE S # {r}
      <3>1. S \ {r} \notin W /\ S \ {r} # {}
        BY <2>1, <2>2, <2>4
      <3>2. PICK q \in S \ {r} : \A u \in S \ {r} : Priority[u] <= Priority[q]
        BY <3>1
      <3>3. \A u \in Type : Priority[u] \in Nat
        BY GraphAssumption
      <3>4. \A u \in S : u = r \/ Priority[u] <= Priority[q]
        BY <3>2
      <3>5. CASE Priority[r] <= Priority[q]
        BY <2>2, <3>2, <3>4, <3>5
      <3>6. CASE Priority[q] <= Priority[r]
        BY <2>2, <3>2, <3>3, <3>4, <3>6
      <3> QED
        BY <2>2, <3>2, <3>3, <3>5, <3>6
    <2> QED
      BY <2>3, <2>4
  <1> QED
    BY <1>1 DEF Foremost
-----------------------------------------------------------------------------
(* The recursive function of StartupOrder meets its equation.              *)

After(types, order, placed) ==
  IF Ready(types, placed) = {} THEN <<>>
  ELSE <<Foremost(Ready(types, placed))>>
         \o order[placed \cup {Foremost(Ready(types, placed))}]

OrderOf(types) ==
  CHOOSE order : order = [placed \in SUBSET types |-> After(types, order, placed)]

LEMMA ReadyIsLeft ==
  ASSUME NEW types \in SUBSET Type, NEW placed \in SUBSET types,
         Ready(types, placed) # {}
  PROVE  Foremost(Ready(types, placed)) \in types \ placed
  <1>1. Ready(types, placed) \in SUBSET (types \ placed)
    BY DEF Ready
  <1> QED
    BY <1>1, ForemostIsFirst

LEMMA OrderExists ==
  ASSUME NEW types \in SUBSET Type
  PROVE  \E order : order = [placed \in SUBSET types |-> After(types, order, placed)]
  <1> DEFINE Late(n) == {placed \in SUBSET types : Cardinality(types \ placed) <= n}
             Solved(n) == \E order : order = [placed \in Late(n) |-> After(types, order, placed)]
             W == {n \in Nat : ~Solved(n)}
  <1> IsFiniteSet(types)
    BY FS_Subset, GraphAssumption
  <1>1. ASSUME NEW placed \in SUBSET types
        PROVE  IsFiniteSet(types \ placed) /\ Cardinality(types \ placed) \in Nat
    BY FS_Subset, FS_CardinalityType
  <1>2. ASSUME NEW n \in Nat, NEW placed \in Late(n), Ready(types, placed) # {}
        PROVE  /\ n > 0
               /\ placed \cup {Foremost(Ready(types, placed))} \in Late(n - 1)
    <2> DEFINE r == Foremost(Ready(types, placed))
               rest == types \ placed
    <2>1. r \in rest /\ placed \in SUBSET types
      BY <1>2, ReadyIsLeft
    <2>2. Cardinality(rest \ {r}) = Cardinality(rest) - 1
      BY <1>1, <2>1, FS_RemoveElement
    <2>3. types \ (placed \cup {r}) = rest \ {r}
      OBVIOUS
    <2>4. Cardinality(rest \ {r}) \in Nat /\ Cardinality(rest) \in Nat
      BY <1>1, <2>1, <2>3
    <2>5. Cardinality(rest) <= n
      OBVIOUS
    <2>6. Cardinality(types \ (placed \cup {r})) <= n - 1 /\ n > 0
      BY <2>2, <2>3, <2>4, <2>5
    <2> QED
      BY <2>1, <2>6
  <1>3. W = {}
    <2> SUFFICES ASSUME W # {} PROVE FALSE
      OBVIOUS
    <2>1. PICK n \in W : \A m \in W : n <= m
      BY LeastNatural
    <2>2. CASE n = 0
      <3> DEFINE none == [placed \in Late(0) |-> <<>>]
      <3>1. ASSUME NEW placed \in Late(0) PROVE After(types, none, placed) = <<>>
        <4>1. 0 \in Nat /\ ~ (0 > 0)
          OBVIOUS
        <4>2. Ready(types, placed) = {}
          <5> HIDE DEF Late
          <5> QED
            BY <1>2, <4>1
        <4> QED
          BY <4>2 DEF After
      <3>2. none = [placed \in Late(0) |-> After(types, none, placed)]
        BY <3>1
      <3> QED
        BY <2>2, <3>2
    <2>3. CASE n > 0
      <3>1. n \in Nat /\ n - 1 \in Nat /\ n - 1 \notin W
        <4>1. n \in Nat /\ n - 1 \in Nat /\ ~ (n <= n - 1)
          BY <2>3
        <4> QED
          BY <2>1, <4>1
      <3>2. PICK g : g = [placed \in Late(n - 1) |-> After(types, g, placed)]
        BY <3>1
      <3> DEFINE h == [placed \in Late(n) |-> After(types, g, placed)]
      <3>3. ASSUME NEW placed \in Late(n - 1) PROVE placed \in Late(n)
        <4>1. Cardinality(types \ placed) \in Nat /\ Cardinality(types \ placed) <= n - 1
          BY <1>1
        <4>2. Cardinality(types \ placed) <= n
          BY <3>1, <4>1
        <4> QED
          BY <4>2
      <3>4. ASSUME NEW placed \in Late(n - 1) PROVE h[placed] = g[placed]
        BY <3>2, <3>3
      <3>5. ASSUME NEW placed \in Late(n)
            PROVE  After(types, g, placed) = After(types, h, placed)
        <4>1. CASE Ready(types, placed) = {}
          BY <4>1 DEF After
        <4>2. CASE Ready(types, placed) # {}
          <5>1. placed \cup {Foremost(Ready(types, placed))} \in Late(n - 1)
            BY <1>2, <4>2
          <5> HIDE DEF Late, h
          <5> QED
            BY <3>4, <4>2, <5>1 DEF After
        <4> QED
          BY <4>1, <4>2
      <3>6. h = [placed \in Late(n) |-> After(types, h, placed)]
        BY <3>5
      <3> QED
        BY <3>6
    <2> QED
      BY <2>2, <2>3
  <1>4. Solved(Cardinality(types))
    BY <1>3, FS_CardinalityType
  <1>5. Late(Cardinality(types)) = SUBSET types
    <2>1. ASSUME NEW placed \in SUBSET types
          PROVE  Cardinality(types \ placed) <= Cardinality(types)
      BY FS_Subset
    <2> QED
      BY <2>1
  <1> QED
    BY <1>4, <1>5

LEMMA OrderEquation ==
  ASSUME NEW types \in SUBSET Type
  PROVE  OrderOf(types) = [placed \in SUBSET types |-> After(types, OrderOf(types), placed)]
  BY OrderExists DEF OrderOf

LEMMA StartupOrderIs ==
  ASSUME NEW runtimes PROVE StartupOrder(runtimes) = OrderOf(Targets(runtimes))[{}]
  BY DEF StartupOrder, OrderOf, After
-----------------------------------------------------------------------------
(* What the order is.                                                      *)

\* s lists the types that are not placed: each once, none before one of its
\* dependencies, and one of higher priority only after another because it waits
\* for something in between.
Sorted(s, types, placed) ==
  /\ s \in Seq(types \ placed)
  /\ \A r \in types \ placed : \E i \in 1..Len(s) : s[i] = r
  /\ \A i, j \in 1..Len(s) : s[i] = s[j] => i = j
  /\ \A i \in 1..Len(s) : \A q \in Dependencies[s[i]] \cap types :
       q \in placed \/ \E j \in 1..(i - 1) : s[j] = q
  /\ \A i, j \in 1..Len(s) : i < j /\ Priority[s[j]] > Priority[s[i]] =>
       \E k \in i..(j - 1) : s[k] \in Dependencies[s[j]]

LEMMA SomeReady ==
  ASSUME NEW types \in SUBSET Type, NEW placed \in SUBSET types, types \ placed # {}
  PROVE  Ready(types, placed) # {}
  <1>1. PICK r \in types \ placed : Dependencies[r] \cap (types \ placed) = {}
    BY GraphAssumption
  <1>2. r \in Ready(types, placed)
    BY <1>1 DEF Ready
  <1> QED
    BY <1>2

LEMMA SortedFromHead ==
  ASSUME NEW types \in SUBSET Type, NEW placed \in SUBSET types, NEW m,
         Ready(types, placed) # {}, m = Foremost(Ready(types, placed)),
         NEW t, Sorted(t, types, placed \cup {m})
  PROVE  Sorted(<<m>> \o t, types, placed)
  <1> DEFINE rest == types \ placed
             s == <<m>> \o t
  <1>1. m \in rest /\ Dependencies[m] \cap types \subseteq placed
    BY ReadyIsLeft, ForemostIsFirst DEF Ready
  <1>2. t \in Seq(rest) /\ t \in Seq(rest \ {m})
    <2>1. types \ (placed \cup {m}) = rest \ {m}
      OBVIOUS
    <2>2. t \in Seq(rest \ {m})
      BY <2>1 DEF Sorted
    <2> QED
      BY <2>2, SeqMonotonic
  <1>3. /\ s \in Seq(rest) /\ Len(t) \in Nat /\ Len(s) = Len(t) + 1 /\ s[1] = m
        /\ \A i \in 1..Len(t) : s[i + 1] = t[i] /\ t[i] \in rest \ {m}
    BY <1>1, <1>2
  <1> HIDE DEF s
  <1>4. \A i \in 1..Len(s) : i = 1 \/ (i - 1 \in 1..Len(t) /\ s[i] = t[i - 1])
    BY <1>3
  <1>5. ASSUME NEW r \in rest PROVE \E i \in 1..Len(s) : s[i] = r
    <2>1. CASE r = m
      BY <1>3, <2>1
    <2>2. CASE r # m
      <3>1. PICK i \in 1..Len(t) : t[i] = r
        BY <2>2 DEF Sorted
      <3>2. i + 1 \in 1..Len(s) /\ s[i + 1] = r
        BY <1>3, <3>1
      <3> QED
        BY <3>2
    <2> QED
      BY <2>1, <2>2
  <1>6. ASSUME NEW i \in 1..Len(s), NEW j \in 1..Len(s), s[i] = s[j] PROVE i = j
    <2>1. \A a, b \in 1..Len(t) : t[a] = t[b] => a = b
      BY DEF Sorted
    <2>2. CASE i = 1 \/ j = 1
      BY <1>3, <1>4, <1>6, <2>2
    <2>3. CASE i # 1 /\ j # 1
      <3>1. i - 1 \in 1..Len(t) /\ j - 1 \in 1..Len(t) /\ t[i - 1] = t[j - 1]
        BY <1>4, <1>6, <2>3
      <3>2. i - 1 = j - 1
        BY <2>1, <3>1
      <3> QED
        BY <1>3, <3>2
    <2> QED
      BY <2>2, <2>3
  <1>7. ASSUME NEW i \in 1..Len(s), NEW q \in Dependencies[s[i]] \cap types
        PROVE  q \in placed \/ \E j \in 1..(i - 1) : s[j] = q
    <2>1. CASE i = 1
      BY <1>1, <1>3, <2>1
    <2>2. CASE i - 1 \in 1..Len(t) /\ s[i] = t[i - 1]
      <3>1. q \in placed \cup {m} \/ \E j \in 1..(i - 1 - 1) : t[j] = q
        BY <2>2 DEF Sorted
      <3>2. CASE q = m
        BY <1>3, <2>2, <3>2
      <3>3. ASSUME NEW j \in 1..(i - 1 - 1), t[j] = q PROVE \E k \in 1..(i - 1) : s[k] = q
        <4>1. j + 1 \in 1..(i - 1) /\ s[j + 1] = q
          BY <1>3, <2>2, <3>3
        <4> QED
          BY <4>1
      <3> QED
        BY <3>1, <3>2, <3>3
    <2> QED
      BY <1>4, <2>1, <2>2
  <1>8. ASSUME NEW i \in 1..Len(s), NEW j \in 1..Len(s), i < j, Priority[s[j]] > Priority[s[i]]
        PROVE  \E k \in i..(j - 1) : s[k] \in Dependencies[s[j]]
    <2>1. j - 1 \in 1..Len(t) /\ s[j] = t[j - 1] /\ s[j] \in rest \ {m}
      BY <1>3, <1>4, <1>8
    <2>2. CASE i = 1
      <3>1. s[j] \notin Ready(types, placed)
        <4>1. Ready(types, placed) \in SUBSET Type
          BY DEF Ready
        <4>2. \A q \in Ready(types, placed) : Priority[q] <= Priority[m]
          BY <4>1, ForemostIsFirst
        <4>3. Priority[s[j]] \in Nat /\ Priority[m] \in Nat
          BY <1>1, <2>1, GraphAssumption
        <4> QED
          BY <1>3, <1>8, <2>2, <4>2, <4>3
      <3>2. PICK q \in Dependencies[s[j]] \cap types : q \notin placed
        BY <2>1, <3>1 DEF Ready
      <3>3. PICK k \in 1..(j - 1) : s[k] = q
        BY <1>7, <3>2
      <3> QED
        BY <2>2, <3>2, <3>3
    <2>3. CASE i # 1
      <3>1. i - 1 \in 1..Len(t) /\ s[i] = t[i - 1]
        BY <1>4, <2>3
      <3>2. PICK k \in (i - 1)..(j - 1 - 1) : t[k] \in Dependencies[t[j - 1]]
        <4>1. \A a, b \in 1..Len(t) : a < b /\ Priority[t[b]] > Priority[t[a]] =>
                \E k \in a..(b - 1) : t[k] \in Dependencies[t[b]]
          BY DEF Sorted
        <4>2. i - 1 < j - 1 /\ Priority[t[j - 1]] > Priority[t[i - 1]]
          BY <1>3, <1>8, <2>1, <3>1
        <4> QED
          BY <2>1, <3>1, <4>1, <4>2
      <3>3. k \in 1..Len(t) /\ k + 1 \in i..(j - 1)
        BY <2>1, <3>1, <3>2
      <3>4. s[k + 1] \in Dependencies[s[j]]
        BY <1>3, <2>1, <3>2, <3>3
      <3> QED
        BY <3>3, <3>4
    <2> QED
      BY <2>2, <2>3
  <1> QED
    BY <1>3, <1>5, <1>6, <1>7, <1>8 DEF Sorted, s

LEMMA OrderSorts ==
  ASSUME NEW types \in SUBSET Type, NEW placed \in SUBSET types
  PROVE  Sorted(OrderOf(types)[placed], types, placed)
  <1> DEFINE f == OrderOf(types)
             W == {U \in SUBSET types : ~Sorted(f[types \ U], types, types \ U)}
  <1>1. ASSUME NEW p \in SUBSET types PROVE f[p] = After(types, f, p)
    BY OrderEquation
  <1> HIDE DEF f
  <1>2. W = {}
    <2> SUFFICES ASSUME W # {} PROVE FALSE
      OBVIOUS
    <2>1. PICK U \in W : \A V \in W : V \subseteq U => V = U
      <3>1. W \in SUBSET SUBSET types /\ IsFiniteSet(types)
        BY FS_Subset, GraphAssumption
      <3> HIDE DEF W
      <3> QED
        BY <3>1, LeastSubset
    <2> DEFINE p == types \ U
    <2>2. U \in SUBSET types /\ types \ p = U /\ p \in SUBSET types
      OBVIOUS
    <2>3. ~Sorted(f[p], types, p)
      OBVIOUS
    <2>4. CASE U = {}
      <3>1. Ready(types, p) = {}
        BY <2>2, <2>4 DEF Ready
      <3>2. f[p] = <<>>
        BY <1>1, <2>2, <3>1 DEF After
      <3>3. Sorted(<<>>, types, p)
        BY <2>2, <2>4 DEF Sorted
      <3> QED
        BY <2>3, <3>2, <3>3
    <2>5. CASE U # {}
      <3> DEFINE m == Foremost(Ready(types, p))
      <3>1. Ready(types, p) # {}
        BY <2>2, <2>5, SomeReady
      <3>2. m \in U
        BY <2>2, <3>1, ReadyIsLeft
      <3>3. Sorted(f[p \cup {m}], types, p \cup {m})
        <4>1. U \ {m} \notin W /\ U \ {m} \in SUBSET types
          BY <2>1, <2>2, <3>2
        <4>2. types \ (U \ {m}) = p \cup {m}
          BY <2>2, <3>2
        <4> HIDE DEF p, m
        <4> QED
          BY <4>1, <4>2
      <3>4. f[p] = <<m>> \o f[p \cup {m}]
        BY <1>1, <2>2, <3>1 DEF After
      <3> HIDE DEF p, m
      <3>5. m = Foremost(Ready(types, p))
        BY DEF m
      <3> QED
        BY <2>2, <2>3, <3>1, <3>3, <3>4, <3>5, SortedFromHead
    <2> QED
      BY <2>4, <2>5
  <1>3. types \ placed \notin W /\ types \ (types \ placed) = placed
    BY <1>2
  <1> QED
    BY <1>3 DEF f

\* get_startup_order lists every type it is given (every type, if it is given
\* none) exactly once, never before one of its dependencies, and by priority
\* except where a dependency is in the way.
THEOREM StartupOrderSorts ==
  ASSUME NEW runtimes \in SUBSET Type
  PROVE  Sorted(StartupOrder(runtimes), Targets(runtimes), {})
  <1>1. Targets(runtimes) \in SUBSET Type
    BY DEF Targets
  <1> QED
    BY <1>1, OrderSorts, StartupOrderIs

\* get_shutdown_order is that order backwards: dependents come first.
THEOREM ShutdownOrderReverses ==
  ASSUME NEW runtimes \in SUBSET Type
  PROVE  /\ ShutdownOrder(runtimes) \in Seq(Targets(runtimes))
         /\ \A r \in Targets(runtimes) :
              \E i \in 1..Len(ShutdownOrder(runtimes)) : ShutdownOrder(runtimes)[i] = r
         /\ \A i, j \in 1..Len(ShutdownOrder(runtimes)) :
              ShutdownOrder(runtimes)[i] \in Dependencies[ShutdownOrder(runtimes)[j]] => j < i
  <1> DEFINE s == StartupOrder(runtimes)
             z == ShutdownOrder(runtimes)
             T == Targets(runtimes)
  <1>1. Sorted(s, T, {})
    BY StartupOrderSorts
  <1> HIDE DEF s, T
  <1>2. s \in Seq(T) /\ Len(s) \in Nat
    BY <1>1 DEF Sorted
  <1>3. z = [i \in 1..Len(s) |-> s[(Len(s) - i) + 1]]
    BY DEF ShutdownOrder, SeqExt!Reverse, s
  <1> HIDE DEF z
  <1>4. /\ z \in Seq(T) /\ Len(z) = Len(s)
        /\ \A i \in 1..Len(s) : z[i] = s[(Len(s) - i) + 1] /\ (Len(s) - i) + 1 \in 1..Len(s)
    <2>1. \A i \in 1..Len(s) : (Len(s) - i) + 1 \in 1..Len(s)
      BY <1>2
    <2>2. \A i \in 1..Len(s) : s[(Len(s) - i) + 1] \in T
      BY <1>2, <2>1
    <2> QED
      BY <1>2, <1>3, <2>1, <2>2
  <1>5. ASSUME NEW r \in T PROVE \E i \in 1..Len(z) : z[i] = r
    <2>1. PICK j \in 1..Len(s) : s[j] = r
      BY <1>1 DEF Sorted
    <2>2. (Len(s) - j) + 1 \in 1..Len(s) /\ (Len(s) - ((Len(s) - j) + 1)) + 1 = j
      BY <1>2
    <2>3. z[(Len(s) - j) + 1] = r
      BY <1>4, <2>1, <2>2
    <2> QED
      BY <1>4, <2>2, <2>3
  <1>6. ASSUME NEW i \in 1..Len(z), NEW j \in 1..Len(z), z[i] \in Dependencies[z[j]]
        PROVE  j < i
    <2> DEFINE a == (Len(s) - i) + 1
               b == (Len(s) - j) + 1
    <2>1. a \in 1..Len(s) /\ b \in 1..Len(s) /\ s[a] = z[i] /\ s[b] = z[j]
      BY <1>4
    <2>2. s[a] \in Dependencies[s[b]] \cap T
      BY <1>2, <1>6, <2>1
    <2>3. PICK c \in 1..(b - 1) : s[c] = s[a]
      BY <1>1, <2>1, <2>2 DEF Sorted
    <2>4. c = a
      <3>1. c \in 1..Len(s)
        BY <1>2, <2>1
      <3> HIDE DEF a, b
      <3> QED
        BY <1>1, <2>1, <2>3, <3>1 DEF Sorted
    <2>5. a < b
      BY <1>2, <2>1, <2>4
    <2> QED
      BY <1>2, <1>4, <2>5
  <1> QED
    BY <1>4, <1>5, <1>6 DEF z, T
=============================================================================
