\* Every process ends in "exited": the final state has no successor.
CONSTANTS
    Procs = {p1, p2}
    Schemas <- MCSchemas
    Argvs <- MCArgvs
    Sources <- MCSources
    NoShort = NoShort
    None = None
SYMMETRY MCSymmetry
SPECIFICATION Spec
INVARIANT NoSpuriousFailure
CHECK_DEADLOCK FALSE
