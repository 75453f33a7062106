SPECIFICATION Spec
CONSTANTS
    Predictions <- MCPredictions
    Longest = 3
INVARIANTS
    KeepsKernel
    CrowVetoes
    TargetIsBest
