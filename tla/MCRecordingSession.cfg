SPECIFICATION FairSpec
CONSTANTS
    Callers = {c1, c2}
    MaxOps = 2
INVARIANTS TypeOK HubFollowsSession RecorderHasOwner NoOrphanStream OwnAudio LiveIsCapturing EveryStopAnswered
PROPERTY ComesToRest
