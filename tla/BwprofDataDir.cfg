CONSTANTS
    Recorders = {r1, r2, r3}
    Earlier = {d1, d2}
    None = None
SPECIFICATION Spec
INVARIANTS
    TypeOK
    LastRecordingKept
    RecordsInOwnDirectory
    LiveRecordingKept
PROPERTY StartsOverAnything
CHECK_DEADLOCK FALSE
