SPECIFICATION FairSpec
CONSTANTS
    Controllers = {c1, c2, c3}
    Configs <- MCConfigs
    Retas <- MCRetas
    RetaSize = 4
    StopDuringStart = FALSE
    UpdateDuringConfigure = FALSE
INVARIANTS OneTransition AllOrNothing PollOnlyWhenStarted RetaInRange
PROPERTIES CallsReturn FollowsLifecycle
