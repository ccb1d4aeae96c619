SPECIFICATION Spec
CONSTANTS
    Options <- MCOptions
    Lines <- MCLines
    Numerals <- MCNumerals
    Hundredths <- MCHundredths
    U32Max = 50
    U64Max = 99
    MaxInputs = 5
INVARIANTS
    LastWordWins
    NothingIgnored
