SPECIFICATION Spec
CONSTANTS
    Writers = {"w1", "w2", "w3"}
    Others = {"old"}
    Component = {"d", "f"}
    NoClobber = {"w1", "w2"}
    Target <- MCTarget
    Trees <- MCTrees
INVARIANT NoClobberExclusive
CHECK_DEADLOCK FALSE
