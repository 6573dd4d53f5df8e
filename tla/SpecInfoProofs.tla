--------------------------- MODULE SpecInfoProofs ---------------------------
(***************************************************************************)
(* Proofs about module SpecInfo, for every MaxDepth and every set of       *)
(* types: the loop of `SpecifierInfo::collect` lists each layer that       *)
(* `get_info` links, in order; every state is well typed; and with only   *)
(* proxies above the innermost layer, `is_multiconnect()` predicts the     *)
(* variant `construct` returns.  IsMulticonnect and Construct are          *)
(* recursive functions over the chain: their values are found by showing  *)
(* an explicit solution of each recursion and that it has no other         *)
(* (BackwardUnique, a downward induction over the layers).                 *)
(***************************************************************************)
EXTENDS SpecInfo, InductionLemmas, TLAPS

-----------------------------------------------------------------------------
\* The entries of `r` so far: one per layer from the outermost, each the
\* info of that layer without its subspecifiers.
Collected(m) == [j \in 1..m |-> InfoWithoutSubspecs(chain, j)]

\* The inductive invariant of the `while let` loop: r holds the first Len(r)
\* layers, every one of them but the last links to the next, and ss is the
\* subspecifier of the last one.
LoopInv ==
    /\ chain \in Chains
    /\ Len(r) \in 1..Len(chain)
    /\ r = Collected(Len(r))
    /\ \A j \in 1..(Len(r) - 1) : chain[j].shape # "leaf"
    /\ ss = Subspecifier(chain, Len(r))

-----------------------------------------------------------------------------
\* A chain has between 1 and MaxDepth layers.
LEMMA ChainLen ==
    ASSUME NEW c \in Chains
    PROVE  Len(c) \in 1..MaxDepth /\ DOMAIN c = 1..Len(c)
<1>1. PICK n \in 1..MaxDepth : c \in [1..n -> Layers]
  BY DEF Chains
<1>2. QED
  BY <1>1, SpecInfoAssumption

LEMMA InitLoopInv == Init => LoopInv
<1> SUFFICES ASSUME Init PROVE LoopInv
  OBVIOUS
<1>1. Len(chain) \in 1..MaxDepth
  BY ChainLen DEF Init
<1>2. r = Collected(1) /\ Len(r) = 1
  BY DEF Init, Collected
<1>3. QED
  BY <1>1, <1>2, SpecInfoAssumption DEF Init, LoopInv

\* One turn of the loop: the layer ss names is appended and ss moves on.
LEMMA StepLoopInv == LoopInv /\ [Next]_vars => LoopInv'
<1> SUFFICES ASSUME LoopInv, [Next]_vars PROVE LoopInv'
  OBVIOUS
<1>1. CASE CollectStep
  <2> DEFINE L == Len(r)
  <2>1. L \in 1..Len(chain) /\ Len(chain) \in 1..MaxDepth
    BY ChainLen DEF LoopInv
  <2>2. chain[L].shape # "leaf" /\ L < Len(chain) /\ ss = L + 1
    BY <1>1, <2>1 DEF CollectStep, LoopInv, Subspecifier, None
  <2>3. r' = Collected(L + 1)
    <3>1. r' = Append(Collected(L), InfoWithoutSubspecs(chain, L + 1))
      BY <1>1, <2>2 DEF CollectStep, LoopInv
    <3>2. QED
      BY <2>1, <3>1 DEF Collected
  <2>4. Len(r') = L + 1
    BY <2>1, <2>3 DEF Collected
  <2>5. \A j \in 1..L : chain[j].shape # "leaf"
    BY <2>1, <2>2 DEF LoopInv
  <2>6. chain' = chain /\ ss' = Subspecifier(chain, L + 1)
    BY <1>1, <2>2 DEF CollectStep
  <2>7. r' = [j \in 1..Len(r') |-> InfoWithoutSubspecs(chain', j)]
    BY <2>3, <2>4, <2>6 DEF Collected
  <2>8. QED
    BY <2>1, <2>2, <2>4, <2>5, <2>6, <2>7 DEF LoopInv, Collected
<1>2. CASE UNCHANGED vars
  BY <1>2 DEF vars, LoopInv, Collected
<1>3. QED
  BY <1>1, <1>2 DEF Next

\* When the loop has ended, the layers listed are exactly the visible ones.
LEMMA LoopInvCollect == LoopInv => CollectListsLayers
<1> SUFFICES ASSUME LoopInv, ss = None
             PROVE  r = [j \in 1..VisibleDepth |-> InfoWithoutSubspecs(chain, j)]
  BY DEF CollectListsLayers
<1> DEFINE L == Len(r)
     P(k) == /\ \A j \in 1..(k - 1) : chain[j].shape # "leaf"
             /\ k = Len(chain) \/ chain[k].shape = "leaf"
<1>1. L \in 1..Len(chain) /\ Len(chain) \in 1..MaxDepth
  BY ChainLen DEF LoopInv
<1>2. P(L)
  BY <1>1 DEF LoopInv, Subspecifier, None
<1>3. \A k \in 1..Len(chain) : P(k) => k = L
  BY <1>1, <1>2 DEF LoopInv
<1>4. VisibleDepth = L
  BY <1>1, <1>2, <1>3 DEF VisibleDepth
<1>5. QED
  BY <1>4 DEF LoopInv, Collected

-----------------------------------------------------------------------------
\* `SpecifierInfo::collect` returns, once its loop ends, the info of each
\* layer `get_info` reaches, outermost first and each once, for every
\* specifier of up to MaxDepth layers: what the lints inspect.
THEOREM CollectCorrect == Spec => []CollectListsLayers
<1>1. QED
  BY InitLoopInv, StepLoopInv, LoopInvCollect, PTL DEF Spec


-----------------------------------------------------------------------------
(***************************************************************************)
(* The value of `is_multiconnect()`.  IsMulticonnect(c) is the recursive   *)
(* function f with McEq(c, f); it is the CHOOSE of such an f.  The         *)
(* solution is unique (BackwardUnique), and McWitness(c) is one: a layer   *)
(* answers with the flag of the first layer from it down that is not a     *)
(* proxy, or of the innermost one.                                         *)
(***************************************************************************)
McEq(c, f) ==
    f = [i \in 1..Len(c) |-> IF c[i].shape = "proxy" /\ i < Len(c)
                             THEN f[i + 1] ELSE c[i].multiconnect]

McWitness(c) ==
    [i \in 1..Len(c) |->
        \E k \in i..Len(c) :
            /\ \A j \in i..(k - 1) : c[j].shape = "proxy"
            /\ c[k].shape # "proxy" \/ k = Len(c)
            /\ c[k].multiconnect]

\* IsMulticonnect is the CHOOSE of a solution of McEq.
LEMMA IsMulticonnectChoose ==
    ASSUME NEW c
    PROVE  IsMulticonnect(c) = CHOOSE f : McEq(c, f)
  BY Zenon DEF IsMulticonnect, McEq

\* A solution of McEq, pointwise.
LEMMA McEqAt ==
    ASSUME NEW c, NEW f, McEq(c, f)
    PROVE  /\ f = [i \in 1..Len(c) |-> f[i]]
           /\ \A i \in 1..Len(c) :
                 f[i] = IF c[i].shape = "proxy" /\ i < Len(c)
                        THEN f[i + 1] ELSE c[i].multiconnect
  BY Zenon DEF McEq

\* McEq has at most one solution.
LEMMA McEqUnique ==
    ASSUME NEW c \in Chains, NEW f, NEW h, McEq(c, f), McEq(c, h)
    PROVE  f = h
<1> DEFINE L == Len(c)
           J == {i \in 1..L : c[i].shape = "proxy" /\ i < L}
<1>1. L \in Nat
  BY ChainLen
<1>2. /\ f = [i \in 1..L |-> f[i]] /\ h = [i \in 1..L |-> h[i]]
      /\ \A i \in 1..L : f[i] = IF i \in J THEN f[i + 1] ELSE c[i].multiconnect
      /\ \A i \in 1..L : h[i] = IF i \in J THEN h[i + 1] ELSE c[i].multiconnect
  BY McEqAt
<1>3. \A i \in 1..L : \/ i < L /\ f[i] = f[i + 1] /\ h[i] = h[i + 1]
                      \/ f[i] = h[i]
  BY <1>2
<1> HIDE DEF L, J
<1>4. \A i \in 1..L : f[i] = h[i]
  BY ONLY <1>1, <1>3, BackwardUnique
<1>5. QED
  BY <1>2, <1>4


\* McWitness solves McEq: a proxy above the innermost layer has the answer
\* of the layer below it, any other layer its own flag.
LEMMA McWitnessEq ==
    ASSUME NEW c \in Chains
    PROVE  McEq(c, McWitness(c))
<1> DEFINE L == Len(c)
           W == McWitness(c)
           Found(i, k) == /\ \A j \in i..(k - 1) : c[j].shape = "proxy"
                          /\ c[k].shape # "proxy" \/ k = L
                          /\ c[k].multiconnect
<1>1. L \in Nat
  BY ChainLen
<1>2. \A i \in 1..L : W[i] = \E k \in i..L : Found(i, k)
  BY DEF McWitness
<1> HIDE DEF W
<1>3. ASSUME NEW i \in 1..L, c[i].shape = "proxy", i < L
      PROVE  W[i] = W[i + 1]
  <2>1. i + 1 \in 1..L
    BY <1>1, <1>3
  <2>2. ASSUME NEW k \in i..L, Found(i, k) PROVE k \in (i + 1)..L /\ Found(i + 1, k)
    <3>1. k # i
      BY <1>3, <2>2
    <3>2. QED
      BY <1>1, <2>2, <3>1
  <2>3. ASSUME NEW k \in (i + 1)..L, Found(i + 1, k) PROVE k \in i..L /\ Found(i, k)
    <3>1. \A j \in i..(k - 1) : j = i \/ j \in (i + 1)..(k - 1)
      BY <1>1
    <3>2. QED
      BY <1>3, <2>3, <3>1
  <2>4. (\E k \in i..L : Found(i, k)) <=> (\E k \in (i + 1)..L : Found(i + 1, k))
    BY <2>2, <2>3
  <2>5. QED
    BY <1>2, <2>1, <2>4
<1>4. ASSUME NEW i \in 1..L, ~(c[i].shape = "proxy" /\ i < L)
      PROVE  W[i] = c[i].multiconnect
  <2>1. ASSUME NEW k \in i..L, Found(i, k) PROVE k = i
    <3>1. SUFFICES ASSUME k # i PROVE FALSE
      OBVIOUS
    <3>2. i \in i..(k - 1) /\ i < L
      BY <1>1, <3>1
    <3>3. QED
      BY <1>4, <2>1, <3>2
  <2>2. Found(i, i) <=> c[i].multiconnect
    BY <1>1, <1>4
  <2>3. (\E k \in i..L : Found(i, k)) <=> c[i].multiconnect
    BY <1>1, <2>1, <2>2
  <2>4. c[i].multiconnect \in BOOLEAN
    BY ChainLen DEF Chains, Layers
  <2>5. QED
    BY <1>2, <2>3, <2>4
<1>5. W = [i \in 1..L |-> W[i]]
  BY DEF W, McWitness
<1>6. W = [i \in 1..L |-> IF c[i].shape = "proxy" /\ i < L
                          THEN W[i + 1] ELSE c[i].multiconnect]
  BY <1>3, <1>4, <1>5
<1>7. QED
  BY <1>6 DEF McEq, W


\* `is_multiconnect()` of every layer is the flag McWitness names.
LEMMA IsMulticonnectValue ==
    ASSUME NEW c \in Chains
    PROVE  IsMulticonnect(c) = McWitness(c)
<1> DEFINE F == CHOOSE f : McEq(c, f)
<1>1. McEq(c, McWitness(c))
  BY McWitnessEq
<1>2. McEq(c, F)
  BY <1>1
<1> HIDE DEF F
<1>3. F = McWitness(c)
  BY <1>1, <1>2, McEqUnique
<1>4. QED
  BY <1>3, IsMulticonnectChoose DEF F

-----------------------------------------------------------------------------
(***************************************************************************)
(* The value of `construct`.  Construct(c) is the f with ConEq(c, f);     *)
(* since `PeerConstructor::map` keeps the variant, the constant function   *)
(* with the innermost layer's variant is the one solution.                 *)
(***************************************************************************)
ConEq(c, f) ==
    f = [i \in 1..Len(c) |-> IF i < Len(c) THEN Map(f[i + 1])
                             ELSE IF c[i].multiconnect THEN "multi" ELSE "once"]

\* What the innermost layer's constructor returns.
LeafVariant(c) == IF c[Len(c)].multiconnect THEN "multi" ELSE "once"

LEMMA ConstructChoose ==
    ASSUME NEW c
    PROVE  Construct(c) = CHOOSE f : ConEq(c, f)
  BY Zenon DEF Construct, ConEq

LEMMA ConEqAt ==
    ASSUME NEW c, NEW f, ConEq(c, f)
    PROVE  /\ f = [i \in 1..Len(c) |-> f[i]]
           /\ \A i \in 1..Len(c) :
                 f[i] = IF i < Len(c) THEN Map(f[i + 1])
                        ELSE IF c[i].multiconnect THEN "multi" ELSE "once"
  BY Zenon DEF ConEq

\* The constant function with the innermost variant solves ConEq.
LEMMA ConWitnessEq ==
    ASSUME NEW c \in Chains
    PROVE  ConEq(c, [i \in 1..Len(c) |-> LeafVariant(c)])
<1>1. Len(c) \in Nat
  BY ChainLen
<1>2. \A i \in 1..Len(c) : ~(i < Len(c)) => i = Len(c)
  BY <1>1
<1>3. QED
  BY <1>2 DEF ConEq, LeafVariant, Map

\* ConEq has at most one solution.
LEMMA ConEqUnique ==
    ASSUME NEW c \in Chains, NEW f, NEW h, ConEq(c, f), ConEq(c, h)
    PROVE  f = h
<1> DEFINE L == Len(c)
<1>1. L \in Nat
  BY ChainLen
<1>2. /\ f = [i \in 1..L |-> f[i]] /\ h = [i \in 1..L |-> h[i]]
      /\ \A i \in 1..L : f[i] = IF i < L THEN f[i + 1]
                                ELSE IF c[i].multiconnect THEN "multi" ELSE "once"
      /\ \A i \in 1..L : h[i] = IF i < L THEN h[i + 1]
                                ELSE IF c[i].multiconnect THEN "multi" ELSE "once"
  BY ConEqAt DEF Map
<1>3. \A i \in 1..L : \/ i < L /\ f[i] = f[i + 1] /\ h[i] = h[i + 1]
                      \/ f[i] = h[i]
  BY <1>2
<1> HIDE DEF L
<1>4. \A i \in 1..L : f[i] = h[i]
  BY ONLY <1>1, <1>3, BackwardUnique
<1>5. QED
  BY <1>2, <1>4

\* `construct` returns, at every layer, the variant of the innermost one.
LEMMA ConstructValue ==
    ASSUME NEW c \in Chains
    PROVE  Construct(c) = [i \in 1..Len(c) |-> LeafVariant(c)]
<1> DEFINE F == CHOOSE f : ConEq(c, f)
           K == [i \in 1..Len(c) |-> LeafVariant(c)]
<1>1. ConEq(c, K)
  BY ConWitnessEq
<1>2. ConEq(c, F)
  BY <1>1
<1> HIDE DEF F, K
<1>3. F = K
  BY <1>1, <1>2, ConEqUnique
<1>4. QED
  BY <1>3, ConstructChoose DEF F, K


-----------------------------------------------------------------------------
\* With only proxies above the innermost layer, the outermost layer answers
\* `is_multiconnect()` with the innermost layer's flag.
LEMMA McAllProxy ==
    ASSUME NEW c \in Chains,
           \A j \in 1..(Len(c) - 1) : c[j].shape = "proxy"
    PROVE  McWitness(c)[1] <=> c[Len(c)].multiconnect
<1> DEFINE L == Len(c)
<1>1. L \in 1..MaxDepth
  BY ChainLen
<1>2. McWitness(c)[1] =
        \E k \in 1..L : /\ \A j \in 1..(k - 1) : c[j].shape = "proxy"
                        /\ c[k].shape # "proxy" \/ k = L
                        /\ c[k].multiconnect
  BY <1>1, SpecInfoAssumption DEF McWitness
<1>3. ASSUME NEW k \in 1..L, c[k].shape # "proxy" \/ k = L PROVE k = L
  BY <1>1, <1>3, SpecInfoAssumption
<1>4. \A j \in 1..(L - 1) : c[j].shape = "proxy"
  OBVIOUS
<1>5. L \in 1..L
  BY <1>1, SpecInfoAssumption
<1>6. QED
  BY <1>2, <1>3, <1>4, <1>5

\* The type invariant follows from the loop invariant: each entry of r is a
\* OneSpecifierInfo, its multiconnect flag a Boolean by IsMulticonnectValue.
LEMMA LoopInvTypeOK == LoopInv => TypeOK
<1> SUFFICES ASSUME LoopInv PROVE TypeOK
  OBVIOUS
<1>1. Len(chain) \in 1..MaxDepth /\ Len(r) \in 1..Len(chain)
  BY ChainLen DEF LoopInv
<1>2. \A j \in 1..Len(chain) : InfoWithoutSubspecs(chain, j) \in OneInfos
  <2> SUFFICES ASSUME NEW j \in 1..Len(chain)
               PROVE  InfoWithoutSubspecs(chain, j) \in OneInfos
    OBVIOUS
  <2>1. IsMulticonnect(chain)[j] \in BOOLEAN
    BY IsMulticonnectValue DEF LoopInv, McWitness
  <2>2. chain[j] \in Layers
    BY ChainLen DEF LoopInv, Chains
  <2>3. QED
    BY <2>1, <2>2 DEF InfoWithoutSubspecs, OneInfos, Layers
<1>3. r \in Seq(OneInfos)
  BY <1>1, <1>2 DEF LoopInv, Collected
<1>4. ss \in {None} \cup 1..Len(chain)
  BY <1>1 DEF LoopInv, Subspecifier, None
<1>5. QED
  BY <1>1, <1>3, <1>4 DEF LoopInv, TypeOK

\* Every state `collect` passes through is well typed: the vector r holds at
\* most one OneSpecifierInfo per layer and ss names a layer or None.
THEOREM TypeCorrect == Spec => []TypeOK
<1>1. QED
  BY InitLoopInv, StepLoopInv, LoopInvTypeOK, PTL DEF Spec

\* For every specifier of up to MaxDepth layers whose layers above the
\* innermost are all proxies (ws-l:tcp-l:..., ws-l:ws-l:...),
\* `is_multiconnect()` of the whole specifier is TRUE exactly when
\* `construct` returns `multi`: the lints are told what `serve` gets.
THEOREM MulticonnectPrediction == Spec => []MulticonnectPredictsConstruct
<1>1. ASSUME NEW c \in Chains,
             \A j \in 1..(Len(c) - 1) : c[j].shape = "proxy"
      PROVE  IsMulticonnect(c)[1] <=> Construct(c)[1] = "multi"
  <2>1. Len(c) \in 1..MaxDepth
    BY ChainLen
  <2>2. IsMulticonnect(c)[1] <=> c[Len(c)].multiconnect
    BY <1>1, IsMulticonnectValue, McAllProxy
  <2>3. Construct(c)[1] = LeafVariant(c)
    BY <2>1, SpecInfoAssumption, ConstructValue
  <2>4. QED
    BY <2>2, <2>3 DEF LeafVariant
<1>2. LoopInv => MulticonnectPredictsConstruct
  BY <1>1 DEF LoopInv, MulticonnectPredictsConstruct
<1>3. QED
  BY InitLoopInv, StepLoopInv, <1>2, PTL DEF Spec

=============================================================================
