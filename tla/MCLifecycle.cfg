SPECIFICATION FairSpec
CONSTANTS
    Starter = {main, again}
    Stopper = {stop}
    Client = {client}
    Enabled <- SomeEnabled
    NoOne = NoOne
INVARIANTS
    ServesWhole
    StackOutlives
    ReturnedClean
PROPERTY EveryoneReturns
CHECK_DEADLOCK FALSE
