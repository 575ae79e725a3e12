SPECIFICATION Spec
CONSTANTS
    Pages = {p1, p2}
    None = None
    Limit = 20
    MaxRuntimes = 1
    MaxConnects = 1
    MaxWork = 2
PROPERTIES
    NoWorkReleased
CHECK_DEADLOCK FALSE
