CONSTANTS
    None = None
    Garbage = Garbage
    RegBits = 15
    Decls <- HostileDecls
    Root = "Msg"
    Inputs <- WrappingInputs

SPECIFICATION Spec

PROPERTY DecodeTerminates
