SPECIFICATION Spec
CONSTANTS
    Reader = {r1, r2}
    Source <- Sources
INVARIANT TextsWhole
CHECK_DEADLOCK FALSE
