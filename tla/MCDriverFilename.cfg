\* Every process ends in "exited": the final state has no successor.
CONSTANTS
    Procs = {p1}
    Schemas <- MCSchemas
    Argvs <- MCArgvs
    Sources <- MCSources
    NoShort = NoShort
    None = None
SPECIFICATION Spec
INVARIANT IncludeNamesHeader
CHECK_DEADLOCK FALSE
