--------------------------- MODULE InductionLemmas ---------------------------
(***************************************************************************)
(* Induction on natural numbers for predicates given as sets.  The proofs  *)
(* of other modules apply these facts to the set of the numbers for which  *)
(* a statement holds, which a prover can instantiate.                      *)
(***************************************************************************)
EXTENDS Integers, WellFoundedInduction, TLAPS

\* A set of natural numbers that is not empty has a least element: the first
\* place where two orders differ, the first dependency that is not met.
LEMMA LeastNat ==
  ASSUME NEW T \in SUBSET Nat, T # {}
  PROVE  \E n \in T : \A m \in T : n <= m
  <1> DEFINE R == {ss \in Nat \X Nat : ss[1] < ss[2]}
  <1>1. IsWellFoundedOn(R, Nat)
    BY NatLessThanWellFounded DEF OpToRel
  <1>2. \A x, y \in Nat : <<x, y>> \in R <=> x < y
    OBVIOUS
  <1> HIDE DEF R
  <1>3. PICK n \in T : \A m \in T : ~(<<m, n>> \in R)
    BY <1>1, WFMin
  <1>4. \A m \in T : n <= m
    <2> TAKE m \in T
    <2>1. ~(m < n) /\ m \in Nat /\ n \in Nat
      BY <1>2, <1>3
    <2> QED BY <2>1
  <1> QED BY <1>4

\* A set that has zero and with each number below the bound the next one has
\* all numbers up to the bound: the rounds of a loop that is bounded.
LEMMA BoundedInduction ==
  ASSUME NEW N \in Nat, NEW T, 0 \in T,
         \A n \in 0..N : n \in T /\ n < N => n + 1 \in T
  PROVE  0..N \subseteq T
  <1> DEFINE Bad == {n \in 0..N : n \notin T}
  <1> SUFFICES ASSUME Bad # {} PROVE FALSE
    OBVIOUS
  <1>0. Bad \in SUBSET Nat
    OBVIOUS
  <1>1. PICK n \in Bad : \A m \in Bad : n <= m
    <2> HIDE DEF Bad
    <2> QED BY <1>0, LeastNat
  <1>2. n \in 0..N /\ n \notin T /\ n # 0
    OBVIOUS
  <1>3. n - 1 \in 0..N /\ n - 1 < N /\ (n - 1) + 1 = n /\ ~(n <= n - 1)
    BY <1>2
  <1>4. n - 1 \in T
    BY <1>1, <1>3
  <1> QED BY <1>2, <1>3, <1>4

==============================================================================
