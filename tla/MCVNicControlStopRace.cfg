SPECIFICATION Spec
CONSTANTS
    Controllers = {c1, c2}
    Configs <- MCConfigs
    Retas <- MCRetas
    RetaSize = 4
    StopDuringStart = TRUE
    UpdateDuringConfigure = FALSE
SYMMETRY Symmetry
INVARIANT PollOnlyWhenStarted
