----------------------------- MODULE Induction -----------------------------
(***************************************************************************)
(* Induction over a set of numbers, and what it gives for folds written as *)
(* recursive functions on 0 .. N, for the proofs of the other modules.     *)
(* The invariant of a fold is the set Q its values stay in.                *)
(***************************************************************************)
EXTENDS Naturals, WellFoundedInduction, TLAPS

(* A set of numbers that is not empty has a least one.                     *)
LEMMA Least ==
  ASSUME NEW T, T \subseteq Nat, T # {}
  PROVE  \E x \in T : \A y \in T : x <= y
<1>1. PICK x \in T : \A y \in T : <<y, x>> \notin OpToRel(<, Nat)
  BY NatLessThanWellFounded, WFMin
<1>2. ASSUME NEW y \in T
      PROVE  x <= y
  <2>1. <<y, x>> \notin {ss \in Nat \X Nat : ss[1] < ss[2]}
    BY <1>1 DEF OpToRel
  <2> QED
    BY <2>1
<1> QED
  BY <1>2

(* One whose numbers are bounded has a greatest one.                       *)
LEMMA Greatest ==
  ASSUME NEW T, NEW N \in Nat, T \subseteq 0 .. N, T # {}
  PROVE  \E x \in T : \A y \in T : y <= x
<1> DEFINE U == {N - x : x \in T}
<1>1. U \subseteq Nat /\ U # {}
  OBVIOUS
<1>2. PICK u \in U : \A v \in U : u <= v
  <2> HIDE DEF U
  <2> QED
    BY <1>1, Least
<1>3. PICK x \in T : u = N - x
  OBVIOUS
<1>4. \A y \in T : N - y \in U
  OBVIOUS
<1>5. \A y \in T : u <= N - y
  BY <1>2, <1>4
<1>6. \A y \in T : y <= x
  BY <1>3, <1>5
<1> QED
  BY <1>6

(* A set with 0 and with the successors of its numbers has them all.       *)
LEMMA InductionOnSet ==
  ASSUME NEW S, 0 \in S, \A n \in Nat : n \in S => n + 1 \in S
  PROVE  Nat \subseteq S
<1> DEFINE T == Nat \ S
<1>1. SUFFICES ASSUME T # {}
               PROVE  FALSE
  OBVIOUS
<1>2. PICK x \in T : \A y \in T : x <= y
  <2> HIDE DEF T
  <2>1. T \subseteq Nat
    BY DEF T
  <2> QED
    BY <1>1, <2>1, Least
<1>3. x # 0 /\ x \in Nat
  OBVIOUS
<1>4. x - 1 \in Nat /\ x - 1 \notin T
  BY <1>2, <1>3
<1> QED
  BY <1>3, <1>4

(* The same up to N.                                                       *)
LEMMA InductionUpTo ==
  ASSUME NEW N \in Nat, NEW S, 0 \in S, \A n \in 0 .. N - 1 : n \in S => n + 1 \in S
  PROVE  0 .. N \subseteq S
<1> DEFINE U == S \cup {n \in Nat : n > N}
<1>1. 0 \in U
  OBVIOUS
<1>2. \A n \in Nat : n \in U => n + 1 \in U
  OBVIOUS
<1>3. Nat \subseteq U
  <2> HIDE DEF U
  <2> QED
    BY <1>1, <1>2, InductionOnSet
<1> QED
  BY <1>3

(* The values of a fold stay in a set that every turn keeps.               *)
LEMMA FoldStays ==
  ASSUME NEW N \in Nat, NEW f, NEW Q, f[0] \in Q,
         \A n \in 1 .. N : f[n - 1] \in Q => f[n] \in Q
  PROVE  \A n \in 0 .. N : f[n] \in Q
<1> DEFINE S == {n \in 0 .. N : f[n] \in Q}
<1>1. 0 \in S
  OBVIOUS
<1>2. ASSUME NEW n \in 0 .. N - 1, n \in S
      PROVE  n + 1 \in S
  <2>1. n + 1 \in 1 .. N /\ (n + 1) - 1 = n
    OBVIOUS
  <2>2. f[(n + 1) - 1] \in Q => f[n + 1] \in Q
    BY <2>1
  <2> QED
    BY <1>2, <2>1, <2>2
<1>3. 0 .. N \subseteq S
  <2> HIDE DEF S
  <2> QED
    BY <1>1, <1>2, InductionUpTo
<1> QED
  BY <1>3

(* What a turn makes of a value of Q, for N turns, and a fold of it.       *)
Steps(Q, N) == [Q \X (1 .. N) -> Q]

IsFold(f, Q, N, start, step) ==
  /\ f \in [0 .. N -> Q]
  /\ f[0] = start
  /\ \A n \in 1 .. N : f[n] = step[<<f[n - 1], n>>]

(* There is a function that folds "step" over 1 .. N.                      *)
LEMMA FoldExists ==
  ASSUME NEW Q, NEW start \in Q, NEW N \in Nat, NEW step \in Steps(Q, N)
  PROVE  \E f : IsFold(f, Q, N, start, step)
<1> USE DEF Steps
<1> DEFINE S == {m \in 0 .. N : \E f \in [0 .. m -> Q] :
                   /\ f[0] = start
                   /\ \A n \in 1 .. m : f[n] = step[<<f[n - 1], n>>]}
<1>1. 0 \in S
  <2> DEFINE g == [n \in 0 .. 0 |-> start]
  <2>1. g \in [0 .. 0 -> Q] /\ g[0] = start
    OBVIOUS
  <2>2. \A n \in 1 .. 0 : g[n] = step[<<g[n - 1], n>>]
    <3> HIDE DEF g
    <3> QED
      OBVIOUS
  <2>3. 0 \in 0 .. N
    OBVIOUS
  <2> QED
    <3> HIDE DEF g
    <3> QED
      BY <2>1, <2>2, <2>3
<1>2. ASSUME NEW m \in 0 .. N - 1, m \in S
      PROVE  m + 1 \in S
  <2>1. PICK f \in [0 .. m -> Q] :
          /\ f[0] = start
          /\ \A n \in 1 .. m : f[n] = step[<<f[n - 1], n>>]
    BY <1>2
  <2> DEFINE g == [n \in 0 .. m + 1 |-> IF n = m + 1 THEN step[<<f[m], m + 1>>] ELSE f[n]]
  <2>2. step[<<f[m], m + 1>>] \in Q
    <3>1. <<f[m], m + 1>> \in Q \X (1 .. N)
      OBVIOUS
    <3> QED
      BY <3>1
  <2>3. g \in [0 .. m + 1 -> Q]
    BY <2>2
  <2>4. g[0] = start
    BY <2>1
  <2>5. ASSUME NEW n \in 1 .. m + 1
        PROVE  g[n] = step[<<g[n - 1], n>>]
    <3>1. n - 1 \in 0 .. m /\ g[n - 1] = f[n - 1]
      OBVIOUS
    <3>2. CASE n = m + 1
      <4>1. g[n] = step[<<f[m], m + 1>>]
        BY <3>2
      <4>2. n - 1 = m
        BY <3>2
      <4> HIDE DEF g
      <4> QED
        BY <3>1, <3>2, <4>1, <4>2
    <3>3. CASE n # m + 1
      BY <3>1, <3>3, <2>1
    <3> QED
      BY <3>2, <3>3
  <2> QED
    <3> HIDE DEF g
    <3>1. m + 1 \in 0 .. N
      OBVIOUS
    <3> QED
      BY <2>3, <2>4, <2>5, <3>1
<1>3. N \in S
  <2> HIDE DEF S
  <2> QED
    BY <1>1, <1>2, InductionUpTo
<1>4. PICK f \in [0 .. N -> Q] :
        /\ f[0] = start
        /\ \A n \in 1 .. N : f[n] = step[<<f[n - 1], n>>]
  BY <1>3
<1> QED
  BY <1>4 DEF IsFold

=============================================================================
