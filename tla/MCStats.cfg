SPECIFICATION StatsSpec
CONSTANTS
    Writers = {t1, t2}
    Kinds <- MCKinds
    Wrap = 4
    MaxEvents = 4
    MaxResets = 2
SYMMETRY Symmetry
CHECK_DEADLOCK FALSE
INVARIANT CountsSinceReset
