CONSTANTS
    MaxDepth <- MCMaxDepth
    Types <- MCTypes
SPECIFICATION Spec
INVARIANTS
    TypeOK
    CollectListsLayers
    MulticonnectPredictsConstruct
\* `collect` returns: its final state has no successor.
CHECK_DEADLOCK FALSE
