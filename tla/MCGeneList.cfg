SPECIFICATION Spec
CONSTANTS
    Genes = {g1, g2, g3, g4}
    ListHead = ListHead
    NULL = NULL
    Keys = {0, 1, 2, 3}
INVARIANTS
    ListInv
PROPERTIES
    ImplementsSortedGenes
    SortGeneReturns
