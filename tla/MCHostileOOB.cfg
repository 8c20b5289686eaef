CONSTANTS
    None = None
    Garbage = Garbage
    RegBits = 15
    Decls <- HostileDecls
    Root = "Msg"
    Inputs <- HostileInputs

SPECIFICATION Spec

INVARIANT NoOutOfBoundsRead

