SPECIFICATION Spec
CONSTANTS
    old = old
    new = new
    Artifacts = {"a"}
    Operators = {old, new}
    Retiring = {old}
    ImageOf <- TwoImages
    Configs = {"c1"}
    NoUrl = "none"
    Absent = Absent
    NoKey = NoKey
    MaxLag = 1
    Bounds <- RollingBounds
PROPERTIES EventuallySettled EventuallyCounted
CHECK_DEADLOCK FALSE
