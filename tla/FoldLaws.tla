---- MODULE FoldLaws ----
(***************************************************************************)
(* Induction over a fold: what a step keeps holds of FoldLeft's result.    *)
(* The step and what it keeps are constants of this module, so that it is  *)
(* instantiated once for every fold of the model, and the theorem cited    *)
(* from the instance:                                                      *)
(*   F == INSTANCE FoldLaws WITH Step <- Added, Good <- Sound              *)
(* Both take a parameter of their own, for what they depend on besides the *)
(* accumulator and the element; Good also the number of elements folded.   *)
(*                                                                         *)
(* That the naturals are what is reached from 0 is a hypothesis of these   *)
(* theorems, which whoever cites them proves once (NatsFrom of             *)
(* RaptorProofs): an instance does not carry the theory it follows from.   *)
(***************************************************************************)
EXTENDS Integers

CONSTANTS
  Step(_, _, _),   \* (p, acc, x): what the fold does with an element
  Good(_, _, _)    \* (h, n, acc): what holds after n elements

-----------------------------------------------------------------------------
(* Natural numbers and their prefixes                                      *)

\* The naturals are what is reached from 0, one at a time.
Induction == \A S \in SUBSET Nat : (0 \in S /\ \A k \in S : k + 1 \in S) => S = Nat

Largest(s) == CHOOSE x \in s : \A y \in s : x >= y

\* A set up to n + 1 that holds n + 1 has it as its maximum.
LEMMA MaxOfPrefix ==
  ASSUME NEW n \in Nat, NEW s \in SUBSET (1..(n + 1)), n + 1 \in s
  PROVE  Largest(s) = n + 1 /\ s \ {n + 1} \in SUBSET (1..n)
<1>1. \A y \in s : n + 1 >= y
  OBVIOUS
<1>2. \A x \in s : (\A y \in s : x >= y) => x = n + 1
  OBVIOUS
<1> DEFINE x == CHOOSE x \in s : \A y \in s : x >= y
<1>3. x \in s /\ \A y \in s : x >= y
  <2> HIDE DEF x
  <2>1. \E z \in s : \A y \in s : z >= y
    BY <1>1
  <2> QED BY <2>1 DEF x
<1>4. Largest(s) = n + 1
  BY <1>2, <1>3 DEF Largest
<1>5. s \ {n + 1} \in SUBSET (1..n)
  OBVIOUS
<1> QED BY <1>4, <1>5

\* A prefix that is one longer is still within the list.
LEMMA PrefixIn ==
  ASSUME NEW m \in Nat, NEW n \in Nat, m + 1 <= n
  PROVE  (1..(m + 1)) \in SUBSET (1..n) /\ m + 1 \in 1..n /\ (1..(m + 1)) # {}
<1>1. \A i \in 1..(m + 1) : i \in 1..n
  OBVIOUS
<1>2. m + 1 \in 1..(m + 1)
  OBVIOUS
<1> QED BY <1>1, <1>2

\* A non-empty set up to n has a maximum.
LEMMA MaxIn ==
  ASSUME NEW n \in Nat, NEW s \in SUBSET (1..n), s # {},
         Induction
  PROVE  Largest(s) \in s
<1> DEFINE T == {m \in Nat : \A t \in SUBSET (1..m) : t # {} => \E x \in t : \A y \in t : x >= y}
<1>1. 0 \in T
  <2>1. \A t \in SUBSET (1..0) : t = {}
    OBVIOUS
  <2> QED BY <2>1
<1>2. ASSUME NEW m \in T PROVE m + 1 \in T
  <2> SUFFICES ASSUME NEW t \in SUBSET (1..(m + 1)), t # {}
               PROVE \E x \in t : \A y \in t : x >= y
    OBVIOUS
  <2>1. CASE m + 1 \in t
    BY <2>1
  <2>2. CASE m + 1 \notin t
    <3>1. t \in SUBSET (1..m)
      BY <2>2
    <3> QED BY <3>1, <1>2
  <2> QED BY <2>1, <2>2
<1>3. T = Nat
  <2> HIDE DEF T
  <2>1. T \in SUBSET Nat BY DEF T
  <2> QED BY <1>1, <1>2, <2>1 DEF Induction
<1> QED BY <1>3 DEF Largest

-----------------------------------------------------------------------------
(* FoldLeft is MapThenFoldSet over the positions, and that a function of   *)
(* sets of positions, each taken from the next smaller one.                *)

Body(p, base, seq, f, s) ==
  IF s = {} THEN base ELSE Step(p, f[s \ {Largest(s)}], seq[Largest(s)])

\* There is such a function.
LEMMA FoldExists ==
  ASSUME NEW p, NEW base, NEW seq, NEW n \in Nat,
         Induction
  PROVE  \E f : f = [s \in SUBSET (1..n) |-> Body(p, base, seq, f, s)]
<1> DEFINE T == {m \in Nat : \E f : f = [s \in SUBSET (1..m) |-> Body(p, base, seq, f, s)]}
<1>1. 0 \in T
  <2> DEFINE f == [s \in SUBSET (1..0) |-> base]
  <2>1. f = [s \in SUBSET (1..0) |-> Body(p, base, seq, f, s)]
    BY DEF Body
  <2> QED BY <2>1
<1>2. ASSUME NEW m \in T PROVE m + 1 \in T
  <2>1. PICK f : f = [s \in SUBSET (1..m) |-> Body(p, base, seq, f, s)]
    OBVIOUS
  <2> DEFINE g == [s \in SUBSET (1..(m + 1)) |->
                     IF m + 1 \in s THEN Step(p, f[s \ {m + 1}], seq[m + 1]) ELSE f[s]]
  <2>2. ASSUME NEW s \in SUBSET (1..(m + 1))
        PROVE  g[s] = Body(p, base, seq, g, s)
    <3>1. CASE m + 1 \in s
      <4>1. Largest(s) = m + 1 /\ s \ {m + 1} \in SUBSET (1..m)
        BY <3>1, MaxOfPrefix
      <4>2. g[s \ {m + 1}] = f[s \ {m + 1}]
        BY <4>1
      <4>3. g[s] = Step(p, g[s \ {Largest(s)}], seq[Largest(s)])
        BY <3>1, <4>1, <4>2
      <4> QED BY <3>1, <4>3 DEF Body
    <3>2. CASE m + 1 \notin s
      <4>1. s \in SUBSET (1..m) /\ g[s] = f[s]
        BY <3>2
      <4>2. f[s] = Body(p, base, seq, f, s)
        BY <2>1, <4>1
      <4>3. CASE s = {}
        BY <4>1, <4>2, <4>3 DEF Body
      <4>4. CASE s # {}
        <5>1. Largest(s) \in s
          BY <4>1, <4>4, MaxIn
        <5>2. g[s \ {Largest(s)}] = f[s \ {Largest(s)}]
          BY <4>1, <3>2
        <5> QED BY <4>1, <4>2, <4>4, <5>2 DEF Body
      <4> QED BY <4>3, <4>4
    <3> QED BY <3>1, <3>2
  <2>3. g = [s \in SUBSET (1..(m + 1)) |-> Body(p, base, seq, g, s)]
    <3> DEFINE h == [s \in SUBSET (1..(m + 1)) |-> Body(p, base, seq, g, s)]
    <3>1. \A s \in SUBSET (1..(m + 1)) : g[s] = h[s]
      BY <2>2
    <3> QED BY <3>1
  <2>4. \E h : h = [s \in SUBSET (1..(m + 1)) |-> Body(p, base, seq, h, s)]
    <3> HIDE DEF g
    <3> QED BY <2>3
  <2> QED BY <2>4
<1>3. T = Nat
  <2> HIDE DEF T
  <2>1. T \in SUBSET Nat BY DEF T
  <2> QED BY <1>1, <1>2, <2>1 DEF Induction
<1> QED BY <1>3

Iter(p, base, seq, n) ==
  CHOOSE f : f = [s \in SUBSET (1..n) |-> Body(p, base, seq, f, s)]

\* It does what its definition says.
LEMMA IterIs ==
  ASSUME NEW p, NEW base, NEW seq, NEW n \in Nat, NEW s \in SUBSET (1..n),
         Induction
  PROVE  Iter(p, base, seq, n)[s] = Body(p, base, seq, Iter(p, base, seq, n), s)
<1>1. Iter(p, base, seq, n) = [t \in SUBSET (1..n) |-> Body(p, base, seq, Iter(p, base, seq, n), t)]
  BY FoldExists DEF Iter
<1> QED BY <1>1

\* A fold of the step from the left, its parameter fixed.
Folded(p, base, seq) ==
  LET iter[s \in SUBSET DOMAIN seq] == IF s = {} THEN base ELSE Step(p, iter[s \ {Largest(s)}], seq[Largest(s)])
  IN  iter[DOMAIN seq]

\* What holds of the base, and of what a step makes of what it holds of, holds of
\* the whole fold.
THEOREM FoldKeeps ==
  ASSUME NEW p, NEW h, NEW base, NEW seq, NEW n \in Nat, DOMAIN seq = 1..n,
         Good(h, 0, base),
         \A k \in 1..n : \A acc : Good(h, k - 1, acc) => Good(h, k, Step(p, acc, seq[k])),
         \A S \in SUBSET Nat : (0 \in S /\ \A k \in S : k + 1 \in S) => S = Nat
  PROVE  Good(h, n, Folded(p, base, seq))
<1> DEFINE F == Iter(p, base, seq, n)
<1>ind. Induction
  BY DEF Induction
<1>0. \A s \in SUBSET (1..n) : F[s] = IF s = {} THEN base ELSE Step(p, F[s \ {Largest(s)}], seq[Largest(s)])
  <2>1. \A s \in SUBSET (1..n) : F[s] = Body(p, base, seq, F, s)
    BY <1>ind, IterIs
  <2> QED BY <2>1 DEF Body
<1> HIDE DEF F
<1> DEFINE T == {m \in Nat : m <= n => Good(h, m, F[1..m])}
<1>1. 0 \in T
  <2>1. (1..0) = {} /\ (1..0) \in SUBSET (1..n)
    OBVIOUS
  <2>2. F[1..0] = base
    BY <1>0, <2>1
  <2> QED BY <2>2
<1>2. ASSUME NEW m \in T PROVE m + 1 \in T
  <2> SUFFICES ASSUME m + 1 <= n PROVE Good(h, m + 1, F[1..(m + 1)])
    OBVIOUS
  <2>1. (1..(m + 1)) \in SUBSET (1..n) /\ m + 1 \in 1..n /\ (1..(m + 1)) # {}
    BY PrefixIn
  <2>2. Largest(1..(m + 1)) = m + 1 /\ (1..(m + 1)) \ {m + 1} = 1..m
    BY MaxOfPrefix
  <2>3. F[1..(m + 1)] = Step(p, F[1..m], seq[m + 1])
    BY <2>1, <2>2, <1>0
  <2>4. Good(h, m, F[1..m])
    OBVIOUS
  <2> QED BY <2>1, <2>3, <2>4
<1>3. T = Nat
  <2> HIDE DEF T
  <2>1. T \in SUBSET Nat BY DEF T
  <2> QED BY <1>1, <1>2, <2>1 DEF Induction
<1>4. Good(h, n, F[1..n])
  BY <1>3
<1>5. Folded(p, base, seq) = F[1..n]
  BY DEF Folded, Iter, Body, F
<1> QED
  BY <1>4, <1>5

-----------------------------------------------------------------------------
(* A recursive function on 0..n is the same iteration over 1..n.           *)

Path(p, base, n) == CHOOSE f : f = [k \in 0..n |-> IF k = 0 THEN base ELSE Step(p, f[k - 1], k)]

\* There is such a function, and it recurs as it says.
LEMMA PathIs ==
  ASSUME NEW p, NEW base, NEW n \in Nat,
         Induction
  PROVE  \A k \in 0..n : Path(p, base, n)[k] = IF k = 0 THEN base ELSE Step(p, Path(p, base, n)[k - 1], k)
<1> DEFINE T == {m \in Nat : \E f : f = [k \in 0..m |-> IF k = 0 THEN base ELSE Step(p, f[k - 1], k)]}
<1>1. 0 \in T
  <2> DEFINE f == [k \in 0..0 |-> base]
  <2>1. f = [k \in 0..0 |-> IF k = 0 THEN base ELSE Step(p, f[k - 1], k)]
    <3> DEFINE h == [k \in 0..0 |-> IF k = 0 THEN base ELSE Step(p, f[k - 1], k)]
    <3>1. \A k \in 0..0 : f[k] = h[k]
      OBVIOUS
    <3> QED BY <3>1
  <2>2. \E h : h = [k \in 0..0 |-> IF k = 0 THEN base ELSE Step(p, h[k - 1], k)]
    <3> HIDE DEF f
    <3> QED BY <2>1
  <2> QED BY <2>2
<1>2. ASSUME NEW m \in T PROVE m + 1 \in T
  <2>1. PICK f : f = [k \in 0..m |-> IF k = 0 THEN base ELSE Step(p, f[k - 1], k)]
    OBVIOUS
  <2> DEFINE g == [k \in 0..(m + 1) |-> IF k = m + 1 THEN Step(p, f[m], k) ELSE f[k]]
             h == [k \in 0..(m + 1) |-> IF k = 0 THEN base ELSE Step(p, g[k - 1], k)]
  <2>2. ASSUME NEW k \in 0..(m + 1) PROVE g[k] = h[k]
    <3>0. m \in Nat
      OBVIOUS
    <3>1. CASE k = m + 1
      <4>1. k # 0 /\ k - 1 = m /\ k - 1 \in 0..(m + 1) /\ k - 1 # m + 1
        BY <3>0, <3>1
      <4>2. g[k - 1] = f[m]
        BY <4>1
      <4>3. g[k] = Step(p, f[m], k)
        BY <3>1
      <4>4. h[k] = Step(p, g[k - 1], k)
        BY <4>1
      <4> HIDE DEF g, h
      <4> QED BY <4>2, <4>3, <4>4
    <3>2. CASE k # m + 1
      <4>1. k \in 0..m
        BY <3>0, <3>2
      <4>2. g[k] = f[k] /\ f[k] = IF k = 0 THEN base ELSE Step(p, f[k - 1], k)
        BY <2>1, <3>2, <4>1
      <4>3. k # 0 => g[k - 1] = f[k - 1]
        BY <3>0, <4>1
      <4>4. h[k] = IF k = 0 THEN base ELSE Step(p, g[k - 1], k)
        OBVIOUS
      <4> HIDE DEF g, h
      <4> QED BY <4>2, <4>3, <4>4
    <3> QED BY <3>1, <3>2
  <2>3. g = h
    BY <2>2
  <2>4. \E e : e = [k \in 0..(m + 1) |-> IF k = 0 THEN base ELSE Step(p, e[k - 1], k)]
    <3> HIDE DEF g
    <3> QED BY <2>3
  <2> QED BY <2>4
<1>3. T = Nat
  <2> HIDE DEF T
  <2>1. T \in SUBSET Nat BY DEF T
  <2> QED BY <1>1, <1>2, <2>1 DEF Induction
<1>4. \E f : f = [i \in 0..n |-> IF i = 0 THEN base ELSE Step(p, f[i - 1], i)]
  BY <1>3
<1>5. Path(p, base, n) = [i \in 0..n |-> IF i = 0 THEN base ELSE Step(p, Path(p, base, n)[i - 1], i)]
  BY <1>4 DEF Path
<1> QED BY <1>5

\* What holds of the first value, and of what a step makes of what it holds of,
\* holds of every value.
THEOREM PathKeeps ==
  ASSUME NEW p, NEW h, NEW base, NEW n \in Nat,
         Good(h, 0, base),
         \A k \in 1..n : \A acc : Good(h, k - 1, acc) => Good(h, k, Step(p, acc, k)),
         \A S \in SUBSET Nat : (0 \in S /\ \A k \in S : k + 1 \in S) => S = Nat
  PROVE  \A k \in 0..n : Good(h, k, Path(p, base, n)[k])
<1> DEFINE F == Path(p, base, n)
<1>ind. Induction
  BY DEF Induction
<1>1. \A k \in 0..n : F[k] = IF k = 0 THEN base ELSE Step(p, F[k - 1], k)
  BY <1>ind, PathIs
<1> HIDE DEF F
<1> DEFINE T == {m \in Nat : m <= n => Good(h, m, F[m])}
<1>2. 0 \in T
  <2>1. 0 \in 0..n
    OBVIOUS
  <2>2. F[0] = base
    BY <1>1, <2>1
  <2> QED BY <2>2
<1>3. ASSUME NEW m \in T PROVE m + 1 \in T
  <2> SUFFICES ASSUME m + 1 <= n PROVE Good(h, m + 1, F[m + 1])
    OBVIOUS
  <2>1. m + 1 \in 0..n /\ m + 1 \in 1..n /\ m + 1 # 0 /\ (m + 1) - 1 = m
    OBVIOUS
  <2>2. F[m + 1] = Step(p, F[m], m + 1)
    BY <1>1, <2>1
  <2>3. Good(h, (m + 1) - 1, F[m])
    BY <2>1
  <2> QED BY <2>1, <2>2, <2>3
<1>4. T = Nat
  <2> HIDE DEF T
  <2>1. T \in SUBSET Nat BY DEF T
  <2> QED BY <1>2, <1>3, <2>1
<1> QED BY <1>4 DEF F
====
