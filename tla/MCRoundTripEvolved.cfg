CONSTANTS
    None = None
    Garbage = Garbage
    RegBits = 15
    Decls <- MCDecls
    WriterDecls <- EvolvedDecls
    Root = "Outer"
    Messages <- EvolvedMessages
    Targets <- MCTargets

SPECIFICATION Spec

INVARIANT KnownFieldsSurvive
