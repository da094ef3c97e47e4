-------------------------------- MODULE Loops --------------------------------
(***************************************************************************)
(* Loops of the code that the models write as recursive functions on 0..n, *)
(* the state after i rounds being a function of the one before it.         *)
(* LoopExists shows that such a function is there, LoopKeeps carries a     *)
(* fact through it: both from SetInduction, which the library's theorems   *)
(* on well-founded relations give without an operator parameter.           *)
(***************************************************************************)
EXTENDS Naturals, WellFoundedInduction, TLAPS

\* The order of the natural numbers.
Less == {p \in Nat \X Nat : p[1] < p[2]}

\* Induction over the natural numbers, for a set.
LEMMA SetInduction ==
  ASSUME NEW S, 0 \in S, \A n \in Nat : n \in S => n + 1 \in S
  PROVE  Nat \subseteq S
<1> SUFFICES ASSUME Nat \ S # {} PROVE FALSE
  OBVIOUS
<1>1. IsWellFoundedOn(Less, Nat)
  BY NatLessThanWellFounded DEF OpToRel, Less
<1>2. PICK m \in Nat \ S : \A y \in Nat \ S : ~(<<y, m>> \in Less)
  BY <1>1, WFMin
<1>3. m # 0 /\ m - 1 \in Nat
  OBVIOUS
<1>4. <<m - 1, m>> \in Less
  BY <1>3 DEF Less
<1>5. m - 1 \in S
  BY <1>2, <1>3, <1>4
<1> QED
  BY <1>3, <1>5

\* A loop that starts at c and steps by g has its states: the recursive function exists.
Steps(S, n) == [S \X (1 .. n) -> S]
IsLoop(f, S, c, g, n) ==
  f \in [0 .. n -> S] /\ f[0] = c /\ \A i \in 1 .. n : f[i] = g[<<f[i - 1], i>>]

LEMMA LoopExists ==
  ASSUME NEW S, NEW c \in S, NEW n \in Nat, NEW g \in Steps(S, n)
  PROVE  \E f : IsLoop(f, S, c, g, n)
<1> USE DEF Steps
<1> DEFINE Reaches(k) == \E f \in [0 .. k -> S] : f[0] = c /\ \A i \in 1 .. k : f[i] = g[<<f[i - 1], i>>]
           Ks == {k \in Nat : k <= n => Reaches(k)}
<1>1. 0 \in Ks
  <2> DEFINE f == [i \in 0 .. 0 |-> c]
  <2>1. f \in [0 .. 0 -> S] /\ f[0] = c /\ \A i \in 1 .. 0 : f[i] = g[<<f[i - 1], i>>]
    OBVIOUS
  <2> HIDE DEF f
  <2>2. Reaches(0)
    BY <2>1
  <2> QED
    BY <2>2
<1>2. ASSUME NEW k \in Nat, k \in Ks PROVE k + 1 \in Ks
  <2> SUFFICES ASSUME k + 1 <= n PROVE Reaches(k + 1)
    OBVIOUS
  <2>1. PICK f \in [0 .. k -> S] : f[0] = c /\ \A i \in 1 .. k : f[i] = g[<<f[i - 1], i>>]
    BY <1>2
  <2> DEFINE h == [i \in 0 .. (k + 1) |-> IF i = k + 1 THEN g[<<f[k], k + 1>>] ELSE f[i]]
  <2>2. f[k] \in S /\ k + 1 \in 1 .. n
    OBVIOUS
  <2>3. g[<<f[k], k + 1>>] \in S
    BY <2>2
  <2>4. h \in [0 .. (k + 1) -> S]
    BY <2>3
  <2>5. h[0] = c
    BY <2>1
  <2>6. ASSUME NEW i \in 1 .. (k + 1) PROVE h[i] = g[<<h[i - 1], i>>]
    <3>1. i - 1 \in 0 .. k /\ i \in 0 .. (k + 1) /\ i - 1 \in 0 .. (k + 1) /\ i - 1 # k + 1
      OBVIOUS
    <3>2. h[i - 1] = f[i - 1]
      BY <3>1
    <3>3. CASE i = k + 1
      BY <3>1, <3>2, <3>3
    <3>4. CASE i # k + 1
      BY <2>1, <3>1, <3>2, <3>4
    <3> QED
      BY <3>3, <3>4
  <2> QED
    BY <2>4, <2>5, <2>6
<1> HIDE DEF Ks
<1>3. n \in Ks
  BY <1>1, <1>2, SetInduction
<1>4. Reaches(n)
  BY <1>3 DEF Ks
<1> QED
  BY <1>4 DEF IsLoop

\* What holds of a loop's first state, and is kept by its steps, holds of all of them: T[i] is
\* what the state after i steps may be.
LEMMA LoopKeeps ==
  ASSUME NEW n \in Nat, NEW T, NEW f, f[0] \in T[0],
         \A i \in 1 .. n : f[i - 1] \in T[i - 1] => f[i] \in T[i]
  PROVE  \A i \in 0 .. n : f[i] \in T[i]
<1> DEFINE Ks == {k \in Nat : k <= n => f[k] \in T[k]}
<1>1. 0 \in Ks
  OBVIOUS
<1>2. ASSUME NEW k \in Nat, k \in Ks PROVE k + 1 \in Ks
  <2> SUFFICES ASSUME k + 1 <= n PROVE f[k + 1] \in T[k + 1]
    OBVIOUS
  <2> DEFINE i == k + 1
  <2>1. i \in 1 .. n /\ i - 1 = k
    OBVIOUS
  <2>2. f[k] \in T[k]
    BY <1>2
  <2> HIDE DEF i
  <2>3. f[i] \in T[i]
    BY <2>1, <2>2
  <2> QED
    BY <2>3 DEF i
<1> HIDE DEF Ks
<1>3. Nat \subseteq Ks
  BY <1>1, <1>2, SetInduction
<1> QED
  BY <1>3 DEF Ks
=============================================================================
