SPECIFICATION Spec
CONSTANTS
    Writers = {"w1", "w2", "w3"}
    Others = {"old"}
    Component = {"d", "f"}
    NoClobber = {"w2"}
    Target <- MCTarget
    Trees <- MCTrees
INVARIANTS TypeOK NeverPartial AllOrNothing RefusedForCause
PROPERTIES KeepsDirsAndLinks
CHECK_DEADLOCK FALSE
