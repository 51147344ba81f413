\* A tick is 2.5 s: silence 5 s, kill after 10 s.
CONSTANTS
    Silence = 2
    Initial = 1
    MaxBackoff = 4
    OpenTime = 1
    CloseTime = 1
    StopWait = 1
    Cap = 2
    KillAfter = 4
    Horizon = 8
SPECIFICATION FairSpec
INVARIANTS StoppedMeansQuiet
PROPERTIES StopEnds OutageKills KeepsTrying DisconnectTold
