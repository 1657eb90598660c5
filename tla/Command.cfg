SPECIFICATION FairSpec
CONSTANTS
    Programs <- MCPrograms
    Inputs <- MCInputs
    NoInput = NoInput
    Capacity = 1
INVARIANTS TypeOK OutputWhole EventsFaithful
PROPERTY Returns
