CONSTANTS
    Schemas <- MCSchemas
    None = None
SPECIFICATION Spec
INVARIANT ValidatorReportsSpecDiagnostics
INVARIANT DiagnosticsInSpecOrder
CHECK_DEADLOCK FALSE
