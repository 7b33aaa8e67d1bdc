SPECIFICATION FairSpec
CONSTANTS
    k1 = k1
    NoKey = NoKey
    Key = {k1}
    Configs <- MCConfigs
    MaxTasks = 2
    MaxUpsets = 1
INVARIANTS DependenciesFirst OneTaskPerKey ReadyIsTried RefusedIsSettled
PROPERTIES ReadyIsServed
CHECK_DEADLOCK FALSE
