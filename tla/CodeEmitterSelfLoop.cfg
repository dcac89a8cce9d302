CONSTANTS
    NrBlocks <- MCNrBlocks
    Programs <- MCProgramsSelfLoop
    LocalsCounts <- MCLocalsCounts
SPECIFICATION Spec
INVARIANT DisplacementCorrect
