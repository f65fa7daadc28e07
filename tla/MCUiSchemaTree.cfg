CONSTANTS
    u1 = u1
    u2 = u2
    u3 = u3
    u4 = u4
    Uid = {u1, u2, u3, u4}
    Types = {"properties", "items"}
    Properties = "properties"
    MaxNew = 2
    MaxSort = 4
SPECIFICATION Spec
SYMMETRY UidSymmetry
INVARIANTS
    TypeOK
    ClosureTable
    PlacesDiffer
    PutInPlace
PROPERTIES
    OthersKeepOrder
    ForestSpec
CHECK_DEADLOCK FALSE
