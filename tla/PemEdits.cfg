SPECIFICATION Spec
CONSTANTS
    Foreign <- ForeignBlocks
    MaxEdits = 2
    MaxRotations = 6
INVARIANTS
    TwoReconcilesRepair
PROPERTIES
    ReadableCAsKept
