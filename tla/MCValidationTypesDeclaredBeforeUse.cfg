CONSTANTS
    Schemas <- MCSchemas
    None = None
SPECIFICATION Spec
INVARIANT AcceptedTypesDeclaredBeforeUse
CHECK_DEADLOCK FALSE
