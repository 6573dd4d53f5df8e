------------------------------ MODULE SpecInfo ------------------------------
(***************************************************************************)
(* What a specifier says about itself, and what it constructs (src/lib.rs *)
(* 97-265, src/ws_server_peer.rs 18-30).  A specifier is a chain of       *)
(* layers, outermost first, each wrapping the next (`self.0`), e.g.       *)
(* `ws-l:tcp-l:...` is WsUpgrade(TcpListen).  Each layer's impl of         *)
(* `Specifier` is one of three shapes, set by the macros:                  *)
(*   "leaf"   no `self_0_is_subspecifier!`: the default `get_info`, with  *)
(*            subspecifier None, whatever the layer wraps;                *)
(*   "wrap"   `self_0_is_subspecifier!(...)`: `get_info` links the info   *)
(*            of `self.0`, `is_multiconnect` is the layer's own;          *)
(*   "proxy"  `self_0_is_subspecifier!(proxy_is_multiconnect)` (WsUpgrade):*)
(*            also `is_multiconnect` is the one of `self.0`.              *)
(* `specifier_boilerplate!` gives each layer its own multiconnect,        *)
(* uses_global_state and type.  The lints of the command line read        *)
(* `get_info().collect()` and `is_multiconnect()` to predict what        *)
(* `construct` returns; the module checks that prediction.                *)
(***************************************************************************)
EXTENDS Naturals, Sequences

CONSTANTS
    MaxDepth,   \* bound on the layers of a specifier
    Types       \* the SpecifierType values to explore

ASSUME SpecInfoAssumption ==
    /\ MaxDepth \in Nat \ {0}
    /\ Types \subseteq {"Stdio", "Reuser", "Other"} /\ Types # {}

Shapes == {"leaf", "wrap", "proxy"}

\* One layer: its macro shape and what `specifier_boilerplate!` says.
Layers ==
    [shape : Shapes, multiconnect : BOOLEAN, uses_global_state : BOOLEAN,
     typ : Types]

\* The specifiers to explore: chains of 1..MaxDepth layers; the innermost
\* wraps nothing and so is a leaf.
Chains ==
    {c \in UNION {[1..n -> Layers] : n \in 1..MaxDepth} :
        c[Len(c)].shape = "leaf"}

\* `OneSpecifierInfo`.
OneInfos ==
    [multiconnect : BOOLEAN, uses_global_state : BOOLEAN, typ : Types]

\* `subspecifier: None`.
None == 0

VARIABLES
    chain,   \* the specifier
    r,       \* the vector `collect` builds
    ss       \* `ss`: layer whose SpecifierInfo is next, or None

vars == <<chain, r, ss>>

-----------------------------------------------------------------------------
(***************************************************************************)
(* Mutations of the definitions below, used to check that the properties   *)
(* can tell the code from a plausible bug in it.                           *)
(***************************************************************************)

\* `proxy_is_multiconnect` forgotten: a proxy answers with its own flag.
IsMulticonnectOwn(c) ==
    [i \in 1..Len(c) |-> c[i].multiconnect]


\* The loop of `collect` stopping one layer early.
SubspecifierEarly(c, i) ==
    IF c[i].shape # "leaf" /\ i + 1 < Len(c) THEN i + 1 ELSE None

\* The info of a wrapping layer linked to itself instead of to `self.0`.
SubspecifierStuck(c, i) ==
    IF c[i].shape # "leaf" /\ i < Len(c) THEN i ELSE None

-----------------------------------------------------------------------------
\* `is_multiconnect()` of every layer: the layer's own flag, or the one of
\* `self.0` for a proxy (the impl for `Rc<Specifier>` delegates unchanged).
IsMulticonnect(c) ==
    LET f[i \in 1..Len(c)] ==
            IF c[i].shape = "proxy" /\ i < Len(c) THEN f[i + 1]
            ELSE c[i].multiconnect
    IN  f

\* `get_info_without_subspecs` of layer i.
InfoWithoutSubspecs(c, i) ==
    [multiconnect |-> IsMulticonnect(c)[i],
     uses_global_state |-> c[i].uses_global_state,
     typ |-> c[i].typ]

\* `subspecifier` of the info of layer i: `Some(self.0.get_info())` when
\* the layer overrides `get_info`, None for the default.
Subspecifier(c, i) ==
    IF c[i].shape # "leaf" /\ i < Len(c) THEN i + 1 ELSE None

\* `PeerConstructor::map`: `and_then` on the future or on the stream; the
\* variant is kept.
Map(pc) == pc

\* The variant `construct` returns, layer by layer: the innermost leaf
\* returns what its multiconnect flag announces (`once(..)` or `multi(..)`),
\* and WsUpgrade returns `inner.map(ws_upgrade_peer)`.
Construct(c) ==
    LET f[i \in 1..Len(c)] ==
            IF i < Len(c) THEN Map(f[i + 1])
            ELSE IF c[i].multiconnect THEN "multi" ELSE "once"
    IN  f

-----------------------------------------------------------------------------
\* `let mut r = vec![]; r.push(self.this); let mut ss = self.subspecifier`.
Init ==
    /\ chain \in Chains
    /\ r = <<InfoWithoutSubspecs(chain, 1)>>
    /\ ss = Subspecifier(chain, 1)

\* One turn of `while let Some(sub) = ss { r.push(sub.this);
\* ss = sub.subspecifier }`.
CollectStep ==
    /\ ss # None
    /\ r' = Append(r, InfoWithoutSubspecs(chain, ss))
    /\ ss' = Subspecifier(chain, ss)
    /\ UNCHANGED chain

Next == CollectStep

Spec == Init /\ [][Next]_vars

-----------------------------------------------------------------------------
(***************************************************************************)
(* Properties.                                                             *)
(***************************************************************************)

TypeOK ==
    /\ chain \in Chains
    /\ r \in Seq(OneInfos)
    /\ ss \in {None} \cup 1..Len(chain)
    /\ Len(r) <= Len(chain)

\* The layers `get_info` reaches: down to the first one that does not
\* override it.
VisibleDepth ==
    CHOOSE k \in 1..Len(chain) :
        /\ \A j \in 1..(k - 1) : chain[j].shape # "leaf"
        /\ k = Len(chain) \/ chain[k].shape = "leaf"

\* `collect` returns, once its loop ends, one entry per visible layer, in
\* order from the outermost, each with that layer's own type and global
\* state flag: what the lints inspect to find two layers using stdio.
CollectListsLayers ==
    ss = None =>
        r = [j \in 1..VisibleDepth |-> InfoWithoutSubspecs(chain, j)]

\* When every layer above the leaf is a proxy (ws-l:tcp-l:..., ws-l:ws-l:
\* ...), `is_multiconnect` of the whole specifier predicts the variant of
\* `construct`: what the lints are told is what `serve` gets.
MulticonnectPredictsConstruct ==
    (\A j \in 1..(Len(chain) - 1) : chain[j].shape = "proxy") =>
        (IsMulticonnect(chain)[1] <=> Construct(chain)[1] = "multi")

=============================================================================
