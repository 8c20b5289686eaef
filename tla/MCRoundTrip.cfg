CONSTANTS
    None = None
    Garbage = Garbage
    RegBits = 15
    Decls <- MCDecls
    WriterDecls <- MCDecls
    Root = "Outer"
    Messages <- MCMessages
    Targets <- MCTargets

SPECIFICATION Spec

INVARIANT TypeOK
INVARIANT DecodeMerges
INVARIANT NoOutOfBoundsRead
