SPECIFICATION Spec
CONSTANT Components = {"described"}
INVARIANT SameOrder
CHECK_DEADLOCK FALSE
