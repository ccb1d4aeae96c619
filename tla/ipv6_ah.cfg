SPECIFICATION Spec
CONSTANTS
    Filler = 80
    V4Bits = 4
    V6Bits = 5
    Wires <- MCWires
    CidrSets <- MCCidrSets
    Extensions <- AuthExtensions
INVARIANTS
    AuthHeaderSkipped
CHECK_DEADLOCK FALSE
