CONSTANTS
    Inputs <- MCInputs
    None = None
    OutOfRange = OutOfRange
    NoLoc = NoLoc
SPECIFICATION Spec
INVARIANT ParserAgreesWithGrammar
INVARIANT ParsePrintsBack
CHECK_DEADLOCK FALSE
