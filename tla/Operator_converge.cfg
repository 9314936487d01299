SPECIFICATION Spec
CONSTANTS
    old = old
    new = new
    Artifacts = {"a"}
    Operators = {new}
    Retiring = {}
    ImageOf <- OneImage
    Configs = {"c1", "c2", "none"}
    NoUrl = "none"
    Absent = Absent
    NoKey = NoKey
    MaxLag = 2
    Bounds <- ConvergeBounds
INVARIANTS TypeOK GoodPodInv
PROPERTIES EventuallySettled GoodPodKept
CHECK_DEADLOCK FALSE
