CONSTANTS
    NrBlocks <- MCNrBlocks
    Programs <- MCProgramsNoSelfLoop
    LocalsCounts <- MCLocalsCounts
SPECIFICATION Spec
INVARIANT TypeOK
INVARIANT DisplacementCorrect
INVARIANT BackpatchListsExact
INVARIANT WritesOnlyBranchSlots
