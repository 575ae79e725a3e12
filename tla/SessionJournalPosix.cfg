SPECIFICATION Spec
CONSTANTS
    Runtimes = {r1, r2}
    Hints = {t1}
    Fresh = {f1, f2}
    Tools = {c1}
    Jobs = {}
    Presets = {ask, full}
    Default = ask
    Exclusive = FALSE
    None = None
    MaxEvents = 4
    MaxCrashes = 0
    MaxFaults = 0
    MaxUnopened = 0
SYMMETRY MCSymmetry
INVARIANTS
    SeqIsPosition
CHECK_DEADLOCK FALSE
