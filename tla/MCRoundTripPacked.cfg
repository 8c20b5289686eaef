CONSTANTS
    None = None
    Garbage = Garbage
    RegBits = 15
    Decls <- PackedDecls
    WriterDecls <- PackedDecls
    Root = "Samples"
    Messages <- PackedMessages
    Targets <- PackedTargets

SPECIFICATION Spec

INVARIANT RoundTrip
