--------------------------- MODULE InductionLemmas ---------------------------
(***************************************************************************)
(* Induction over the naturals, stated for a set rather than for an       *)
(* operator parameter, so that the provers can use it: a set of naturals  *)
(* that holds 0 and is closed under successor holds every natural.  It     *)
(* follows from the well-foundedness of < on Nat (WFMin) by a least       *)
(* counterexample.  The proofs about FlattenSeq, IsMulticonnect and        *)
(* Construct, recursive functions over sequences, rest on it.             *)
(***************************************************************************)
EXTENDS Naturals, WellFoundedInduction, TLAPS

\* A set of naturals containing 0 and closed under +1 is Nat.
LEMMA NatSetInduction ==
    ASSUME NEW S \in SUBSET Nat, 0 \in S, \A k \in S : k + 1 \in S
    PROVE  S = Nat
<1> DEFINE T == Nat \ S
<1> SUFFICES ASSUME T # {} PROVE FALSE
  OBVIOUS
<1>1. PICK x \in T : \A y \in T : ~(<<y, x>> \in OpToRel(<, Nat))
  BY NatLessThanWellFounded, WFMin
<1>2. x # 0 /\ x - 1 \in Nat
  OBVIOUS
<1>3. <<x - 1, x>> \in OpToRel(<, Nat)
  BY <1>2 DEF OpToRel
<1>4. x - 1 \in S
  BY <1>1, <1>2, <1>3
<1>5. QED
  BY <1>4

\* The bounded form: a property of 0 that passes from k to k + 1 below n
\* holds on 0..n.
LEMMA IntervalInduction ==
    ASSUME NEW n \in Nat, NEW S, 0 \in S,
           \A k \in 0..(n - 1) : k \in S => k + 1 \in S
    PROVE  0..n \subseteq S
<1> DEFINE U == {k \in Nat : k <= n => k \in S}
<1>1. 0 \in U
  OBVIOUS
<1>2. \A k \in U : k + 1 \in U
  OBVIOUS
<1>3. U = Nat
  BY <1>1, <1>2, NatSetInduction
<1>4. QED
  BY <1>3


\* Two functions on 1..L that obey the same backward recursion agree: at
\* each index either both are their values at the next index, or the two are
\* given equal.  The recursions of IsMulticonnect and Construct look from a
\* layer to the one it wraps, so their uniqueness is this downward induction.
LEMMA BackwardUnique ==
    ASSUME NEW L \in Nat, NEW f, NEW h,
           \A i \in 1..L : \/ i < L /\ f[i] = f[i + 1] /\ h[i] = h[i + 1]
                           \/ f[i] = h[i]
    PROVE  \A i \in 1..L : f[i] = h[i]
<1> DEFINE S == {m \in Nat : \A i \in (L - m + 1)..L : f[i] = h[i]}
<1> HIDE DEF S
<1>1. 0 \in S
  BY DEF S
<1>2. \A k \in 0..(L - 1) : k \in S => k + 1 \in S
  <2> SUFFICES ASSUME NEW k \in 0..(L - 1), k \in S PROVE k + 1 \in S
    OBVIOUS
  <2>1. \A i \in (L - k + 1)..L : f[i] = h[i]
    BY DEF S
  <2>2. L - k \in 1..L
    OBVIOUS
  <2>3. f[L - k] = h[L - k]
    <3>1. CASE L - k < L /\ f[L - k] = f[L - k + 1] /\ h[L - k] = h[L - k + 1]
      <4>1. L - k < L /\ f[L - k] = f[L - k + 1] /\ h[L - k] = h[L - k + 1]
        BY <3>1
      <4>2. L - k + 1 \in (L - k + 1)..L
        BY <4>1
      <4>3. QED
        BY <2>1, <4>1, <4>2
    <3>2. QED
      BY <2>2, <3>1
  <2>4. \A i \in (L - (k + 1) + 1)..L : f[i] = h[i]
    <3> SUFFICES ASSUME NEW i \in (L - (k + 1) + 1)..L PROVE f[i] = h[i]
      OBVIOUS
    <3>1. i = L - k \/ i \in (L - k + 1)..L
      OBVIOUS
    <3>2. QED
      BY <2>1, <2>3, <3>1
  <2>5. QED
    BY <2>4 DEF S
<1>3. 0..L \subseteq S
  BY <1>1, <1>2, IntervalInduction
<1>4. QED
  BY <1>3 DEF S

=============================================================================
