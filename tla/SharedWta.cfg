\* Any four calls, with every exit, failed start and late callback.
CONSTANTS
    Panes = {p1, p2}
    Args = {a, b}
    NoArgs = NoArgs
    MaxGen = 3
    MaxOps = 4
SPECIFICATION FairSpec
CHECK_DEADLOCK FALSE
INVARIANTS OneMaster RunningIsOwned CachedIsLaunched RecoveryIsBounded
PROPERTIES CallbackHarmsNobody DeathIsNoticed
