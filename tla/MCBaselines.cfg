SPECIFICATION Spec
CONSTANTS
    c1 = c1
    c2 = c2
    k1 = k1
    k2 = k2
    Contents <- MCContents
    Material <- MCMaterial
    Evidential <- MCEvidential
    Policy <- MCPolicy
    Critical = {}
    Creator <- MCCreators
    Selections <- MCSelections
    Scenarios <- MCScenarios
    MaxTokens = 1
    MaxWaived = 1
SYMMETRY Symmetric
INVARIANTS GuardedWhenVisible BaselinedWasReady BackupsConsistent
CHECK_DEADLOCK FALSE
