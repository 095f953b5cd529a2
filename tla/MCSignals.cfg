\* Two children, two SIGTERMs; fair thread and kernel.
CONSTANTS
    Child = {c1, c2}
    First = TRUE
    Tunnels = 1
    MaxCount = 3
    MaxTerm = 2
    MaxNested = 1
SPECIFICATION FairSpec
INVARIANTS SignalsTypeOK WakesUp NoneReapedUnknown
PROPERTIES ChildExitHandledUnlessMissed TermHandledUnlessMissed
CHECK_DEADLOCK FALSE   \* after exit
