SPECIFICATION Spec
CONSTANTS
    p1 = p1
    p2 = p2
    Instances <- TwoInstances
INVARIANTS
    AtMostOneServing
