SPECIFICATION Spec
CONSTANTS
    Ids = {i1, i2}
    Nothing = Nothing
    Handler = Handler
    Background = bg
    Gcs = {gc}
    Recoverers = {rec}
    MaxRecoveries = 1
    MaxFaults = 1
SYMMETRY Symmetry
INVARIANTS TypeOK LinesOnce LinesTrue LinesComplete
CHECK_DEADLOCK FALSE
