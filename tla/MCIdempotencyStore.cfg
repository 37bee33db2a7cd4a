SPECIFICATION FairSpec
CONSTANTS
    Callers = {c1, c2, c3, c4}
    KeyText <- MCKeyText
    TrimSpace <- MCTrimSpace
    Blank = ""
    NoCaller = NoCaller
INVARIANTS
    StoreTypeOK
    OneRunningPerKey
    WaitersAreServed
PROPERTIES
    KeepsPromise
    EveryCallReturns
CHECK_DEADLOCK FALSE
